---------------------------- MODULE MCObjectStore ----------------------------
(***************************************************************************)
(* Instances of ObjectStore for TLC.                                       *)
(***************************************************************************)
EXTENDS ObjectStore, TLC

\* Callers and idempotency keys are interchangeable.
CallerSymmetry == Permutations(Clients) \cup Permutations(Keys)
=============================================================================
