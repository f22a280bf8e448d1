----------------------------- MODULE MCKnowledge -----------------------------
(* TLC instances of Knowledge: model values for every set, and the symmetry *)
(* of the callers, ids and bodies, which nothing orders.                     *)
EXTENDS Knowledge, TLC

Symmetry == Permutations(Callers) \cup Permutations(FactIds) \cup Permutations(Bodies)
=============================================================================
