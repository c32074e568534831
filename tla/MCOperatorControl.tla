-------------------------- MODULE MCOperatorControl --------------------------
(***************************************************************************)
(* Instances of OperatorControl for TLC.                                   *)
(***************************************************************************)
EXTENDS OperatorControl, TLC

\* Worker loops are interchangeable.
WorkerSymmetry == Permutations(Workers)
=============================================================================
