-------------------------- MODULE MCWebhookIntake ---------------------------
(* Small instances of WebhookIntake. *)
EXTENDS WebhookIntake, TLC

MCPayloads ==
    [type : {"created"}, comment : Comments, slots : (SUBSET Slots) \ {{}}]
    \cup [type : {"deleted"}, comment : Comments, slots : {{}}]
=============================================================================
