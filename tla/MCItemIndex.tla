----------------------------- MODULE MCItemIndex -----------------------------
(***************************************************************************)
(* Instances of ItemIndex for TLC.                                         *)
(***************************************************************************)
EXTENDS ItemIndex, TLC

\* Executions and embedding models are interchangeable.
IndexSymmetry == Permutations(Jobs) \cup Permutations(Namespaces)
=============================================================================
