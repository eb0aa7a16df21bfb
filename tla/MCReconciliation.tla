-------------------------- MODULE MCReconciliation --------------------------
(* Small instances of Reconciliation. *)
EXTENDS Reconciliation, TLC
=============================================================================
