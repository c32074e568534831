----------------------------- MODULE MCRetrieval -----------------------------
(* A search against three Executions of one Item.                           *)
EXTENDS Retrieval

SearchSymmetry == Permutations(Jobs) \cup Permutations(Namespaces)
=============================================================================
