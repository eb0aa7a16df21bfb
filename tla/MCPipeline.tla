----------------------------- MODULE MCPipeline -----------------------------
(* Small instances of Pipeline. *)
EXTENDS Pipeline, TLC

MCPayloads ==
    [type : {"created"}, comment : Origins, slots : {Slots}]
    \cup [type : {"deleted"}, comment : Comments, slots : {{}}]

Symmetry == Permutations(Slots)
=============================================================================
