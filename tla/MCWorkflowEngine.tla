-------------------------- MODULE MCWorkflowEngine --------------------------
(***************************************************************************)
(* Instances of WorkflowEngine for TLC.                                    *)
(***************************************************************************)
EXTENDS WorkflowEngine, TLC

\* Worker loops are interchangeable.
WorkerSymmetry == Permutations(Workers)
=============================================================================
