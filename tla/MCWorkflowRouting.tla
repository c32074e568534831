-------------------------- MODULE MCWorkflowRouting --------------------------
(* Every admissible Task request, with collections of up to two members. *)
EXTENDS WorkflowRouting

MCTasks == AdmissibleTasks
=============================================================================
