-------------------------- MODULE MCReconciliation --------------------------
(* Model-checking instance of Reconciliation. *)
EXTENDS Reconciliation, TLC

Symmetry == Permutations(Workers) \cup Permutations(Ids)
============================================================================
