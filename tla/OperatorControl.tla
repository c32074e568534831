--------------------------- MODULE OperatorControl ---------------------------
(***************************************************************************)
(* The workflow engine together with what reaches into it from outside a   *)
(* Task's own commands: the operator's stop_execution, restart_process and *)
(* requeue_outbox, and the relay declaring a message dead after its        *)
(* attempt budget.  Command receipts make each command idempotent under    *)
(* its key and change nothing else, so they are left out: a replayed       *)
(* command is a stuttering step.                                           *)
(***************************************************************************)
EXTENDS WorkflowEngine

CONSTANT MaxRestartFence   \* bound: restart_process is not repeated beyond this fence

\* OperatorControlService.stop_execution: the Execution tree is fenced, the
\* Task row is not touched.
StopExecution(g) ==
  /\ execStatus[g] \notin Terminal \cup {"absent"}
  /\ CancelTree(g)
  /\ UNCHANGED <<deadlinePassed, leaseVars, retryCount, recoveryCount,
                 eligible, outbox, worker, commits>>

\* OperatorControlService.restart_process: the Process is fenced and ready
\* again, its Execution is not looked at.
RestartProcess(p) ==
  /\ procStatus[p] \in {"claimed", "running", "retry_wait"}
  /\ fencing[p] < MaxRestartFence
  /\ procStatus' = [procStatus EXCEPT ![p] = "ready"]
  /\ fencing' = [fencing EXCEPT ![p] = @ + 1]
  /\ ReleaseLease(p)
  /\ UNCHANGED <<taskVars, deadlinePassed, execVars, retryCount, recoveryCount,
                 eligible, outbox, worker, commits>>

\* _release_outbox or _mark_outbox_dead, and _record_outbox_dead_tx: a dead
\* critical message fails its Execution, without a terminal summary and
\* without fencing the Execution's Processes.
DeadLetter(m) ==
  /\ outbox[m] \in Undelivered
  /\ outbox' = [outbox EXCEPT ![m] = "dead"]
  /\ IF execStatus[m[2]] \in Terminal
     THEN UNCHANGED <<execStatus, taskStatus>>
     ELSE /\ execStatus' = [execStatus EXCEPT ![m[2]] = "failed"]
          /\ taskStatus' = ProjectedTask(m[2], "failed")
  /\ UNCHANGED <<taskRoot, taskDeleted, deadlinePassed, waitingRef, currentProcess, summary,
                 procVars, eligible, worker, commits>>

\* requeue_dead_outbox: a new delivery of the dead message.
RequeueOutbox(m) ==
  /\ outbox[m] = "dead"
  /\ outbox' = [outbox EXCEPT ![m] = "pending"]
  /\ UNCHANGED <<taskVars, deadlinePassed, execVars, procVars, eligible, worker, commits>>

Stop == \E g \in Generations : StopExecution(g)
Restart == \E p \in Processes : RestartProcess(p)
DeadLetters == \E m \in Messages : DeadLetter(m) \/ RequeueOutbox(m)

OperatorSpec == Init /\ [][Next \/ Stop \/ Restart \/ DeadLetters]_vars

\* The engine with one source of interference at a time.
StopSpec == Init /\ [][Next \/ Stop]_vars /\ LoopFairness /\ HandlerFairness
DeadLetterSpec == Init /\ [][Next \/ DeadLetters]_vars

-----------------------------------------------------------------------------
(* What the documents say and the code does not keep. *)

\* D01: the Task status can be reconciled from the durable Executions.  A Task
\* whose root Execution is terminal becomes terminal itself.
TaskReconciled == execStatus[taskRoot] \in Terminal ~> taskStatus \in Terminal

\* S02-T025: the tree of an earlier generation is terminal and never changes.
OldTreeImmutable ==
  [][\A g \in Generations : g < taskRoot =>
       \A s \in Steps : procStatus'[g, s] = procStatus[g, s]]_vars
=============================================================================
