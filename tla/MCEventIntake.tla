--------------------------- MODULE MCEventIntake ---------------------------
(* Small instances of EventIntake. *)
EXTENDS EventIntake, TLC

\* A text holds every keyword; what it matches depends on the rules active by then.
MCPayloads ==
    [type : {"created"}, comment : Comments, slots : {Slots}]
    \cup [type : {"deleted"}, comment : Comments, slots : {{}}]
    \cup [type : {"other"}, comment : {None}, slots : {{}}]

Symmetry == Permutations(Slots) \cup Permutations(Comments)
=============================================================================
