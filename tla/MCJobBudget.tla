---------------------------- MODULE MCJobBudget -----------------------------
(* Small instances of JobBudget. *)
EXTENDS JobBudget, TLC

CommentSymmetry == Permutations(Comments)
=============================================================================
