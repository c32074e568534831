------------------------ MODULE WorkflowFencingProofs ------------------------
(***************************************************************************)
(* Type correctness, lease discipline, fence ownership, step order and     *)
(* exactly-once commits of WorkflowEngine, for every number of workers,    *)
(* steps, generations and every retry and recovery budget.                 *)
(*                                                                         *)
(* The last four are proved together: a success materializes the next      *)
(* step, and only PipelineOrder says that this row was absent, hence       *)
(* unleased and uncommitted; only LeaseDiscipline says that a cancelling   *)
(* row still has the owner that recovery will fence.                       *)
(***************************************************************************)
EXTENDS WorkflowEngine, TLAPS

-----------------------------------------------------------------------------
(* Type correctness. *)

\* A Process is a generation and a step.
LEMMA ProcessPairs ==
  /\ \A p \in Processes : p[1] \in Generations /\ p[2] \in Steps /\ p = <<p[1], p[2]>>
  /\ \A g \in Generations : \A s \in Steps :
       <<g, s>> \in Processes /\ <<g, s>>[1] = g /\ <<g, s>>[2] = s
BY DEF Processes

\* The first step, the first generation and the idle worker are typed.
LEMMA FirstValues ==
  1 \in Steps /\ 1 \in Generations /\ <<1, 1>> \in Processes
BY StepAssumption, GenerationAssumption DEF Steps, Generations, Processes

\* The projection of a Task status is a Task status.
LEMMA ProjectedType ==
  ASSUME TaskRowOK, NEW g, NEW target \in {"running"} \cup Terminal
  PROVE  ProjectedTask(g, target) \in TaskStatus
BY DEF TaskRowOK, ProjectedTask, TaskStatus, Terminal

\* Terminalizing an Execution keeps its row and the Task row typed.
LEMMA TerminalizeType ==
  ASSUME TypeOK, NEW g \in Generations, NEW status \in Terminal, Terminalize(g, status),
         deadlinePassed' = deadlinePassed
  PROVE  TaskRowOK' /\ ExecutionRowsOK'
<1>1. CASE execStatus[g] \in Terminal
  BY <1>1 DEF Terminalize, TypeOK, TaskRowOK, ExecutionRowsOK, taskVars, execVars
<1>2. CASE execStatus[g] \notin Terminal
  <2>1. ProjectedTask(g, status) \in TaskStatus
    BY ProjectedType DEF TypeOK
  <2> QED
    BY <1>2, <2>1 DEF Terminalize, TypeOK, TaskRowOK, ExecutionRowsOK, ExecutionStatus
<1> QED BY <1>1, <1>2

\* Convergence of a cancellation keeps both rows typed.
LEMMA ConvergeType ==
  ASSUME TypeOK, NEW g \in Generations, NEW ps, Converge(g, ps),
         deadlinePassed' = deadlinePassed
  PROVE  TaskRowOK' /\ ExecutionRowsOK'
<1>1. CASE execStatus[g] = "cancelling" /\ Quiescent(g, ps)
  <2>1. Terminalize(g, "cancelled") BY <1>1 DEF Converge
  <2> QED BY <2>1, TerminalizeType DEF Terminal
<1>2. CASE ~(execStatus[g] = "cancelling" /\ Quiescent(g, ps))
  BY <1>2 DEF Converge, TypeOK, TaskRowOK, ExecutionRowsOK, taskVars, execVars
<1> QED BY <1>1, <1>2

\* Releasing a lease keeps the lease columns typed.
LEMMA ReleaseType ==
  ASSUME TypeOK, NEW p \in Processes, ReleaseLease(p)
  PROVE  LeaseRowsOK'
BY DEF ReleaseLease, TypeOK, LeaseRowsOK

\* Failing a Process and routing the failure keeps every row typed.
LEMMA FailType ==
  ASSUME TypeOK, NEW p \in Processes, FailAndRoute(p),
         deadlinePassed' = deadlinePassed, eligible' = eligible
  PROVE  TaskRowOK' /\ ExecutionRowsOK' /\ LeaseRowsOK' /\ ProcessRowsOK'
<1>1. p[1] \in Generations BY ProcessPairs
<1>2. TaskRowOK' /\ ExecutionRowsOK'
  BY <1>1, TerminalizeType DEF FailAndRoute, Terminal
<1>3. LeaseRowsOK' BY ReleaseType DEF FailAndRoute
<1>4. ProcessRowsOK'
  BY DEF FailAndRoute, TypeOK, ProcessRowsOK, ProcessStatus, Terminal
<1> QED BY <1>2, <1>3, <1>4

\* Fencing the Processes of cancelled roots keeps the columns typed.
LEMMA FenceProcessesType ==
  ASSUME TypeOK, NEW roots, FenceProcesses(roots)
  PROVE  /\ procStatus' \in [Processes -> ProcessStatus]
         /\ fencing' \in [Processes -> Nat]
<1>1. \A p \in Processes : FencedStatus(p) \in ProcessStatus
  BY DEF FencedStatus, TypeOK, ProcessRowsOK, ProcessStatus, Terminal, Active
<1>2. \A p \in Processes : FencedGeneration(p) \in Nat
  BY DEF FencedGeneration, TypeOK, ProcessRowsOK
<1> QED BY <1>1, <1>2 DEF FenceProcesses, TypeOK, ProcessRowsOK

\* A committed success and its route keep every row typed.
LEMMA SucceedType ==
  ASSUME TypeOK, NEW p \in Processes, SucceedAndRoute(p),
         deadlinePassed' = deadlinePassed, eligible' = eligible
  PROVE  TaskRowOK' /\ ExecutionRowsOK' /\ LeaseRowsOK' /\ ProcessRowsOK'
<1>1. p[1] \in Generations /\ p[2] \in Steps BY ProcessPairs
<1>2. LeaseRowsOK' BY ReleaseType DEF SucceedAndRoute
<1>3. ProcessRowsOK'
  BY DEF SucceedAndRoute, TypeOK, ProcessRowsOK, ProcessStatus, Active, Terminal
<1>4. CASE Terminalize(p[1], "succeeded")
  <2>1. TaskRowOK' /\ ExecutionRowsOK' BY <1>1, <1>4, TerminalizeType DEF Terminal
  <2> QED BY <1>2, <1>3, <2>1
<1>5. CASE p[2] < StepCount
  <2>1. p[2] + 1 \in Steps BY <1>1, <1>5, StepAssumption DEF Steps
  <2>2. TaskRowOK' /\ ExecutionRowsOK'
    BY <1>1, <1>5, <2>1, StepAssumption
    DEF SucceedAndRoute, TypeOK, TaskRowOK, ExecutionRowsOK, ExecutionStatus, taskVars, Steps
  <2> QED BY <1>2, <1>3, <2>2
<1> QED BY <1>4, <1>5 DEF SucceedAndRoute

\* A retryable failure keeps every row typed.
LEMMA RetryType ==
  ASSUME TypeOK, NEW p \in Processes, RetryOrFail(p),
         deadlinePassed' = deadlinePassed, eligible' = eligible
  PROVE  TaskRowOK' /\ ExecutionRowsOK' /\ LeaseRowsOK' /\ ProcessRowsOK'
<1>1. p[1] \in Generations /\ p[2] \in Steps BY ProcessPairs
<1>2. CASE FailAndRoute(p) BY <1>2, FailType
<1>3. CASE ~FailAndRoute(p)
  <2>1. LeaseRowsOK' BY <1>3, ReleaseType DEF RetryOrFail
  <2>2. TaskRowOK' /\ ExecutionRowsOK'
    BY <1>1, <1>3 DEF RetryOrFail, TypeOK, TaskRowOK, ExecutionRowsOK, ExecutionStatus, taskVars
  <2>3. ProcessRowsOK'
    BY <1>3 DEF RetryOrFail, TypeOK, ProcessRowsOK, ProcessStatus, Active
  <2> QED BY <2>1, <2>2, <2>3
<1> QED BY <1>2, <1>3

\* Every step of the engine keeps every row typed.
LEMMA TypeStep ==
  ASSUME TypeOK, [Next]_vars
  PROVE  TypeOK'
<1> USE DEF TypeOK
<1>1. ASSUME NEW k \in WakeKinds, NEW g \in Generations, DeliverWake(k, g) PROVE TypeOK'
  <2>1. <<k, g>> \in Messages BY <1>1 DEF Messages
  <2>2. OutboxRowsOK' BY <1>1, <2>1 DEF DeliverWake, Handled, OutboxRowsOK
  <2>3. WorkersOK' /\ LeaseRowsOK'
    BY <1>1 DEF DeliverWake, WorkersOK, LeaseRowsOK, leaseVars
  <2>4. CASE execStatus[g] \in {"ready", "running"} /\ Materialize(<<g, 1>>)
    <3>1. <<g, 1>> \in Processes /\ <<g, 1>>[1] = g /\ <<g, 1>>[2] = 1 /\ 1 \in Steps
      BY ProcessPairs, FirstValues
    <3>2. ProcessRowsOK'
      BY <1>1, <2>4, <3>1 DEF DeliverWake, Materialize, ProcessRowsOK, ProcessStatus, Active
    <3>3. TaskRowOK' /\ ExecutionRowsOK'
      BY <1>1, <2>4, <3>1
      DEF DeliverWake, Materialize, TaskRowOK, ExecutionRowsOK, ExecutionStatus, taskVars, execVars
    <3> QED BY <2>2, <2>3, <3>2, <3>3
  <2>5. CASE execStatus[g] = "cancelling" /\ Converge(g, procStatus) /\ UNCHANGED procStatus
    <3>1. TaskRowOK' /\ ExecutionRowsOK' BY <1>1, <2>5, ConvergeType DEF DeliverWake
    <3>2. ProcessRowsOK' BY <1>1, <2>5 DEF DeliverWake, ProcessRowsOK
    <3> QED BY <2>2, <2>3, <3>1, <3>2
  <2>6. CASE UNCHANGED <<procStatus, execVars, taskVars>>
    BY <1>1, <2>2, <2>3, <2>6
    DEF DeliverWake, ProcessRowsOK, TaskRowOK, ExecutionRowsOK, taskVars, execVars
  <2> QED BY <1>1, <2>4, <2>5, <2>6 DEF DeliverWake
<1>2. ASSUME NEW g \in Generations, DeliverCancel(g) PROVE TypeOK'
  <2>1. <<"cancel", g>> \in Messages BY DEF Messages
  <2>2. OutboxRowsOK' BY <1>2, <2>1 DEF DeliverCancel, Handled, OutboxRowsOK
  <2>3. WorkersOK' /\ LeaseRowsOK'
    BY <1>2 DEF DeliverCancel, WorkersOK, LeaseRowsOK, leaseVars
  <2>4. CASE CancelTree(g)
    <3>1. ProcessRowsOK'
      BY <1>2, <2>4, FenceProcessesType DEF DeliverCancel, CancelTree, ProcessRowsOK
    <3>2. TaskRowOK' /\ ExecutionRowsOK'
      <4>1. CASE Terminalize(g, "cancelled")
        BY <1>2, <4>1, TerminalizeType DEF DeliverCancel, Terminal
      <4>2. CASE /\ execStatus' = [execStatus EXCEPT ![g] = "cancelling"]
                 /\ UNCHANGED <<waitingRef, currentProcess, summary, taskVars>>
        BY <1>2, <4>2 DEF DeliverCancel, TaskRowOK, ExecutionRowsOK, ExecutionStatus, taskVars
      <4> QED BY <2>4, <4>1, <4>2 DEF CancelTree
    <3> QED BY <2>2, <2>3, <3>1, <3>2
  <2>5. CASE UNCHANGED <<procStatus, fencing, execVars, taskVars>>
    BY <1>2, <2>2, <2>3, <2>5
    DEF DeliverCancel, ProcessRowsOK, TaskRowOK, ExecutionRowsOK, taskVars, execVars
  <2> QED BY <1>2, <2>4, <2>5 DEF DeliverCancel
<1>3. ASSUME NEW m \in Messages, CompleteOutbox(m) PROVE TypeOK'
  BY <1>3 DEF CompleteOutbox, OutboxRowsOK, TaskRowOK, ExecutionRowsOK, LeaseRowsOK,
              ProcessRowsOK, WorkersOK, taskVars, execVars, procVars, leaseVars
<1>4. CASE TaskCancel
  <2>1. <<"cancel", taskRoot>> \in Messages BY DEF Messages, TaskRowOK
  <2>2. OutboxRowsOK' BY <1>4, <2>1 DEF TaskCancel, OutboxRowsOK
  <2>3. ProcessRowsOK' BY <1>4 DEF TaskCancel, ProcessRowsOK, ProcessStatus, Active
  <2>4. TaskRowOK' /\ ExecutionRowsOK'
    BY <1>4 DEF TaskCancel, TaskRowOK, ExecutionRowsOK, TaskStatus, ExecutionStatus
  <2>5. WorkersOK' /\ LeaseRowsOK' BY <1>4 DEF TaskCancel, WorkersOK, LeaseRowsOK, leaseVars
  <2> QED BY <2>2, <2>3, <2>4, <2>5
<1>5. CASE TaskRetry
  <2>1. taskRoot + 1 \in Generations
    BY <1>5, GenerationAssumption DEF TaskRetry, TaskRowOK, Generations
  <2>2. OutboxRowsOK' BY <1>5, <2>1 DEF TaskRetry, OutboxRowsOK, Messages, WakeKinds
  <2>3. TaskRowOK' /\ ExecutionRowsOK'
    BY <1>5, <2>1 DEF TaskRetry, TaskRowOK, ExecutionRowsOK, TaskStatus, ExecutionStatus
  <2>4. WorkersOK' /\ LeaseRowsOK' /\ ProcessRowsOK'
    BY <1>5 DEF TaskRetry, WorkersOK, LeaseRowsOK, ProcessRowsOK, procVars, leaseVars
  <2> QED BY <2>2, <2>3, <2>4
<1>6. CASE SoftDelete \/ DeadlinePasses
  BY <1>6 DEF SoftDelete, DeadlinePasses, OutboxRowsOK, TaskRowOK, ExecutionRowsOK, LeaseRowsOK,
              ProcessRowsOK, WorkersOK, taskVars, execVars, procVars, leaseVars
<1>7. ASSUME NEW w \in Workers, NEW p \in Processes, Claim(w, p) PROVE TypeOK'
  <2>1. WorkersOK' BY <1>7 DEF Claim, WorkersOK, ProcessRowsOK, Outcomes
  <2>2. LeaseRowsOK' /\ ProcessRowsOK'
    BY <1>7 DEF Claim, LeaseRowsOK, ProcessRowsOK, ProcessStatus, Active
  <2>3. TaskRowOK' /\ ExecutionRowsOK' /\ OutboxRowsOK'
    BY <1>7 DEF Claim, TaskRowOK, ExecutionRowsOK, OutboxRowsOK, taskVars, execVars
  <2> QED BY <2>1, <2>2, <2>3
<1>8. ASSUME NEW w \in Workers, MarkRunning(w) PROVE TypeOK'
  <2> DEFINE p == worker[w].proc
  <2>1. p \in Processes /\ p[1] \in Generations BY ProcessPairs DEF WorkersOK
  <2>2. WorkersOK' BY <1>8, FirstValues DEF MarkRunning, Moved, WorkersOK, Idle, Outcomes
  <2>3. ProjectedTask(p[1], "running") \in TaskStatus BY ProjectedType
  <2>4. TaskRowOK' /\ ExecutionRowsOK'
    BY <1>8, <2>1, <2>3 DEF MarkRunning, TaskRowOK, ExecutionRowsOK, ExecutionStatus
  <2>5. ProcessRowsOK' BY <1>8, <2>1 DEF MarkRunning, ProcessRowsOK, ProcessStatus, Active
  <2>6. LeaseRowsOK' /\ OutboxRowsOK' BY <1>8 DEF MarkRunning, LeaseRowsOK, OutboxRowsOK, leaseVars
  <2> QED BY <2>2, <2>4, <2>5, <2>6
<1>9. ASSUME NEW w \in Workers, NEW outcome \in Outcomes, Finish(w, outcome) PROVE TypeOK'
  BY <1>9 DEF Finish, Moved, WorkersOK, OutboxRowsOK, TaskRowOK, ExecutionRowsOK, LeaseRowsOK,
              ProcessRowsOK, taskVars, execVars, procVars, leaseVars
<1>10. ASSUME NEW w \in Workers, AcceptOutcome(w) PROVE TypeOK'
  <2> DEFINE p == worker[w].proc
  <2>1. p \in Processes /\ p[1] \in Generations /\ p[2] \in Steps BY ProcessPairs DEF WorkersOK
  <2>2. WorkersOK' BY <1>10, FirstValues DEF AcceptOutcome, Moved, WorkersOK, Idle, Outcomes
  <2>3. OutboxRowsOK' BY <1>10 DEF AcceptOutcome, OutboxRowsOK
  <2>4. deadlinePassed' = deadlinePassed /\ eligible' = eligible BY <1>10 DEF AcceptOutcome
  <2>5. CASE SucceedAndRoute(p)
    BY <2>1, <2>2, <2>3, <2>4, <2>5, SucceedType
  <2>6. CASE RetryOrFail(p)
    BY <2>1, <2>2, <2>3, <2>4, <2>6, RetryType
  <2>7. CASE FailAndRoute(p)
    BY <2>1, <2>2, <2>3, <2>4, <2>7, FailType
  <2> QED BY <1>10, <2>5, <2>6, <2>7 DEF AcceptOutcome
<1>11. ASSUME NEW w \in Workers, OutcomeFenced(w) \/ OutcomeAborted(w) \/ Crash(w) PROVE TypeOK'
  <2>1. WorkersOK'
    BY <1>11, FirstValues DEF OutcomeFenced, OutcomeAborted, Crash, Moved, WorkersOK, Idle, Outcomes
  <2> QED
    BY <1>11, <2>1 DEF OutcomeFenced, OutcomeAborted, Crash, OutboxRowsOK, TaskRowOK, ExecutionRowsOK,
                       LeaseRowsOK, ProcessRowsOK, taskVars, execVars, procVars, leaseVars
<1>12. ASSUME NEW p \in Processes, FailExpiredReady(p) PROVE TypeOK'
  <2>1. WorkersOK' /\ OutboxRowsOK' BY <1>12 DEF FailExpiredReady, WorkersOK, OutboxRowsOK
  <2> QED BY <1>12, <2>1, FailType DEF FailExpiredReady
<1>13. ASSUME NEW p \in Processes, LeaseExpires(p) PROVE TypeOK'
  BY <1>13 DEF LeaseExpires, WorkersOK, OutboxRowsOK, TaskRowOK, ExecutionRowsOK, LeaseRowsOK,
               ProcessRowsOK, taskVars, execVars
<1>14. ASSUME NEW p \in Processes, PromoteRetry(p) PROVE TypeOK'
  <2>1. p[1] \in Generations BY ProcessPairs
  <2>2. ExecutionRowsOK' BY <1>14, <2>1 DEF PromoteRetry, ExecutionRowsOK, ExecutionStatus
  <2>3. ProcessRowsOK' BY <1>14 DEF PromoteRetry, ProcessRowsOK, ProcessStatus, Active
  <2> QED BY <1>14, <2>2, <2>3 DEF PromoteRetry, WorkersOK, OutboxRowsOK, TaskRowOK, LeaseRowsOK,
                                  taskVars, leaseVars
<1>15. ASSUME NEW p \in Processes, Recover(p) PROVE TypeOK'
  <2>1. p[1] \in Generations BY ProcessPairs
  <2>2. WorkersOK' /\ OutboxRowsOK' BY <1>15 DEF Recover, WorkersOK, OutboxRowsOK
  <2>3. deadlinePassed' = deadlinePassed /\ eligible' = eligible BY <1>15 DEF Recover
  <2>4. CASE RecoverCancelling(p)
    <3>1. TaskRowOK' /\ ExecutionRowsOK'
      BY <2>1, <2>3, <2>4, ConvergeType DEF RecoverCancelling
    <3>2. LeaseRowsOK' BY <2>4, ReleaseType DEF RecoverCancelling, LeaseRowsOK, leaseVars
    <3>3. ProcessRowsOK'
      BY <2>3, <2>4 DEF RecoverCancelling, ProcessRowsOK, ProcessStatus, Terminal
    <3> QED BY <2>2, <3>1, <3>2, <3>3
  <2>5. CASE RecoverFailing(p)
    BY <2>2, <2>3, <2>5, FailType DEF RecoverFailing
  <2>6. CASE RecoverReplaying(p)
    <3>1. LeaseRowsOK' BY <2>6, ReleaseType DEF RecoverReplaying
    <3>2. ProcessRowsOK' BY <2>3, <2>6 DEF RecoverReplaying, ProcessRowsOK, ProcessStatus, Active
    <3> QED BY <2>2, <2>3, <2>6, <3>1, <3>2
            DEF RecoverReplaying, TaskRowOK, ExecutionRowsOK, taskVars, execVars
  <2> QED BY <1>15, <2>4, <2>5, <2>6 DEF Recover
<1>16. CASE RepairScan
  <2>1. ProcessRowsOK'
    BY <1>16, FenceProcessesType DEF RepairScan, ProcessRowsOK
  <2>2. ExecutionRowsOK'
    BY <1>16 DEF RepairScan, ExecutionRowsOK, ExecutionStatus, Terminal
  <2>3. TaskRowOK'
    <3>1. execStatus'[taskRoot] \in Terminal => taskStatus' \in TaskStatus
      BY <1>16, ProjectedType DEF RepairScan
    <3> QED BY <1>16, <3>1 DEF RepairScan, TaskRowOK
  <2>4. OutboxRowsOK' BY <1>16 DEF RepairScan, OutboxRowsOK
  <2>5. WorkersOK' /\ LeaseRowsOK' BY <1>16 DEF RepairScan, WorkersOK, LeaseRowsOK, leaseVars
  <2> QED BY <2>1, <2>2, <2>3, <2>4, <2>5
<1>17. CASE UNCHANGED vars
  BY <1>17 DEF vars, OutboxRowsOK, TaskRowOK, ExecutionRowsOK, LeaseRowsOK, ProcessRowsOK,
               WorkersOK, taskVars, execVars, procVars, leaseVars
<1> QED
  BY <1>1, <1>2, <1>3, <1>4, <1>5, <1>6, <1>7, <1>8, <1>9, <1>10, <1>11, <1>12, <1>13, <1>14,
     <1>15, <1>16, <1>17 DEF Next

\* The initial rows are typed.
LEMMA TypeInit ==
  ASSUME Init
  PROVE  TypeOK
BY FirstValues DEF Init, Idle, TypeOK, TaskRowOK, ExecutionRowsOK, LeaseRowsOK, ProcessRowsOK,
   OutboxRowsOK, WorkersOK, TaskStatus, ExecutionStatus, ProcessStatus, Outcomes, Messages, WakeKinds

\* Whatever the interleaving of workers, relay, supervisor and commands, every
\* row of the Task, its Executions, Processes and messages stays well formed.
THEOREM TypeCorrect == Spec => []TypeOK
<1>1. Init => TypeOK BY TypeInit
<1>2. TypeOK /\ [Next]_vars => TypeOK' BY TypeStep
<1> QED BY <1>1, <1>2, PTL DEF Spec

-----------------------------------------------------------------------------
(* Leases, fences and the order of steps. *)

\* The inductive invariant.
Inv == TypeOK /\ PipelineOrder /\ LeaseDiscipline /\ FenceOwnership /\ EffectOnce

\* Only a first submission reports a success.
FallbackOK == \A w \in Workers : worker[w].pc = "fallback" => worker[w].outcome # "succeeded"

\* How a step may move Process rows: a success is never undone, and a row
\* appears only behind a succeeded prefix.
RowsAdvance ==
  /\ \A p \in Processes : procStatus[p] = "succeeded" => procStatus'[p] = "succeeded"
  /\ \A p \in Processes : procStatus[p] = "absent" /\ procStatus'[p] # "absent" =>
       \A t \in Steps : t < p[2] => procStatus'[<<p[1], t>>] = "succeeded"

\* Rows that advance keep the order of the pipeline.
LEMMA AdvanceKeepsOrder ==
  ASSUME TypeOK, PipelineOrder, RowsAdvance
  PROVE  PipelineOrder'
<1> SUFFICES ASSUME NEW g \in Generations, NEW s \in Steps, NEW t \in Steps,
                    t < s, procStatus'[<<g, s>>] # "absent"
             PROVE  procStatus'[<<g, t>>] = "succeeded"
  BY DEF PipelineOrder
<1>1. <<g, s>> \in Processes /\ <<g, t>> \in Processes /\ <<g, s>>[1] = g /\ <<g, s>>[2] = s
  BY ProcessPairs
<1>2. CASE procStatus[<<g, s>>] = "absent"
  BY <1>1, <1>2 DEF RowsAdvance
<1>3. CASE procStatus[<<g, s>>] # "absent"
  <2>1. procStatus[<<g, t>>] = "succeeded" BY <1>3 DEF PipelineOrder
  <2> QED BY <1>1, <2>1 DEF RowsAdvance
<1> QED BY <1>2, <1>3

\* Behind a row that has not succeeded nothing is materialized.
LEMMA NextIsAbsent ==
  ASSUME TypeOK, PipelineOrder, NEW p \in Processes, p[2] < StepCount,
         procStatus[p] # "succeeded"
  PROVE  /\ <<p[1], p[2] + 1>> \in Processes
         /\ <<p[1], p[2] + 1>> # p
         /\ procStatus[<<p[1], p[2] + 1>>] = "absent"
<1>1. PICK g \in Generations, s \in Steps : p = <<g, s>> BY DEF Processes
<1>2. p[1] = g /\ p[2] = s BY <1>1
<1>3. s + 1 \in Steps /\ s < s + 1 /\ s + 1 # s BY <1>2, StepAssumption DEF Steps
<1>4. <<g, s + 1>> \in Processes BY <1>3, ProcessPairs
<1>5. <<g, s + 1>> # p BY <1>1, <1>3
<1>6. procStatus[<<g, s + 1>>] = "absent"
  BY <1>1, <1>3 DEF PipelineOrder
<1> QED BY <1>2, <1>4, <1>5, <1>6

\* How a step other than a claim may move the memory of workers.
ClaimsKept ==
  \A w \in Workers : \/ worker'[w].pc = "idle"
                     \/ /\ worker[w].pc # "idle"
                        /\ worker'[w].proc = worker[w].proc
                        /\ worker'[w].fence = worker[w].fence

\* How a step other than a claim may move fences and owners.
FencesAdvance ==
  \A p \in Processes :
    /\ fencing'[p] >= fencing[p]
    /\ procStatus'[p] \in {"claimed", "running"} /\ fencing'[p] = fencing[p] =>
         procStatus[p] \in {"claimed", "running"} /\ leaseOwner'[p] = leaseOwner[p]

\* Such steps keep fences unique and owned.
LEMMA AdvanceKeepsOwnership ==
  ASSUME TypeOK, TypeOK', FenceOwnership, ClaimsKept, FencesAdvance
  PROVE  FenceOwnership'
<1> SUFFICES ASSUME NEW w \in Workers, worker'[w].pc # "idle"
             PROVE  LET p == worker'[w].proc
                    IN /\ worker'[w].fence \in 1..fencing'[p]
                       /\ worker'[w].fence = fencing'[p] /\ procStatus'[p] \in {"claimed", "running"}
                            => leaseOwner'[p] = w
                       /\ \A v \in Workers \ {w} :
                            worker'[v].pc # "idle" /\ worker'[v].proc = p
                              => worker'[v].fence # worker'[w].fence
  BY DEF FenceOwnership
<1> DEFINE p == worker[w].proc
<1>1. worker[w].pc # "idle" /\ worker'[w].proc = p /\ worker'[w].fence = worker[w].fence
  BY DEF ClaimsKept
<1>2. p \in Processes /\ worker[w].fence \in Nat BY DEF TypeOK, WorkersOK
<1>3. fencing[p] \in Nat /\ fencing'[p] \in Nat /\ fencing'[p] >= fencing[p]
  BY <1>2 DEF TypeOK, ProcessRowsOK, FencesAdvance
<1>4. worker[w].fence \in 1..fencing[p] BY <1>1 DEF FenceOwnership
<1>5. worker[w].fence \in 1..fencing'[p] BY <1>2, <1>3, <1>4
<1>6. worker[w].fence = fencing'[p] /\ procStatus'[p] \in {"claimed", "running"} => leaseOwner'[p] = w
  <2> SUFFICES ASSUME worker[w].fence = fencing'[p], procStatus'[p] \in {"claimed", "running"}
               PROVE  leaseOwner'[p] = w
    OBVIOUS
  <2>1. fencing'[p] = fencing[p] BY <1>2, <1>3, <1>4
  <2>2. procStatus[p] \in {"claimed", "running"} /\ leaseOwner'[p] = leaseOwner[p]
    BY <1>2, <2>1 DEF FencesAdvance
  <2>3. leaseOwner[p] = w BY <1>1, <2>1, <2>2 DEF FenceOwnership
  <2> QED BY <2>2, <2>3
<1>7. ASSUME NEW v \in Workers \ {w}, worker'[v].pc # "idle", worker'[v].proc = p
      PROVE  worker'[v].fence # worker[w].fence
  <2>1. worker[v].pc # "idle" /\ worker[v].proc = p /\ worker'[v].fence = worker[v].fence
    BY <1>7 DEF ClaimsKept
  <2> QED BY <1>1, <2>1 DEF FenceOwnership
<1> QED BY <1>1, <1>5, <1>6, <1>7

\* A step that is no claim and respects all four disciplines.
LEMMA QuietStep ==
  ASSUME Inv, TypeOK', RowsAdvance, ClaimsKept, FencesAdvance, LeaseDiscipline', EffectOnce'
  PROVE  Inv'
BY AdvanceKeepsOrder, AdvanceKeepsOwnership DEF Inv

\* Failing a Process that has not succeeded.
LEMMA FailStep ==
  ASSUME Inv, TypeOK', NEW p \in Processes, procStatus[p] \in {"ready", "claimed", "running"},
         FailAndRoute(p), ClaimsKept
  PROVE  Inv'
<1> USE DEF Inv, FailAndRoute, ReleaseLease, TypeOK, ProcessRowsOK, LeaseRowsOK
<1>1. RowsAdvance BY DEF RowsAdvance
<1>2. FencesAdvance BY DEF FencesAdvance
<1>3. LeaseDiscipline' BY DEF LeaseDiscipline, Leased
<1>4. EffectOnce' BY DEF EffectOnce
<1> QED BY <1>1, <1>2, <1>3, <1>4, QuietStep

\* A retryable failure of a running Process.
LEMMA RetryStep ==
  ASSUME Inv, TypeOK', NEW p \in Processes, procStatus[p] = "running", RetryOrFail(p), ClaimsKept
  PROVE  Inv'
<1>1. CASE FailAndRoute(p) BY <1>1, FailStep
<1>2. CASE ~FailAndRoute(p)
  <2> USE <1>2 DEF Inv, RetryOrFail, ReleaseLease, TypeOK, ProcessRowsOK, LeaseRowsOK
  <2>1. RowsAdvance BY DEF RowsAdvance
  <2>2. FencesAdvance BY DEF FencesAdvance
  <2>3. LeaseDiscipline' BY DEF LeaseDiscipline, Leased
  <2>4. EffectOnce' BY DEF EffectOnce
  <2> QED BY <2>1, <2>2, <2>3, <2>4, QuietStep
<1> QED BY <1>1, <1>2

\* A success of a running Process commits it and materializes the next row.
LEMMA SucceedStep ==
  ASSUME Inv, TypeOK', NEW p \in Processes, procStatus[p] = "running", SucceedAndRoute(p), ClaimsKept
  PROVE  Inv'
<1>1. CASE p[2] = StepCount /\ procStatus' = [procStatus EXCEPT ![p] = "succeeded"]
  <2> USE <1>1 DEF Inv, SucceedAndRoute, ReleaseLease, TypeOK, ProcessRowsOK, LeaseRowsOK
  <2>1. RowsAdvance BY DEF RowsAdvance
  <2>2. FencesAdvance BY DEF FencesAdvance
  <2>3. LeaseDiscipline' BY DEF LeaseDiscipline, Leased
  <2>4. EffectOnce' BY DEF EffectOnce
  <2> QED BY <2>1, <2>2, <2>3, <2>4, QuietStep
<1>2. CASE /\ p[2] < StepCount
           /\ procStatus' = [procStatus EXCEPT ![p] = "succeeded", ![<<p[1], p[2] + 1>>] = "ready"]
  <2> DEFINE next == <<p[1], p[2] + 1>>
  <2>1. next \in Processes /\ next # p /\ procStatus[next] = "absent"
    BY <1>2, NextIsAbsent DEF Inv
  <2>2. procStatus' = [procStatus EXCEPT ![p] = "succeeded", ![next] = "ready"]
    BY <1>2
  <2>3. \A q \in Processes : procStatus'[q] = IF q = next THEN "ready" ELSE
                                              IF q = p THEN "succeeded" ELSE procStatus[q]
    BY <2>1, <2>2 DEF Inv, TypeOK, ProcessRowsOK
  <2> HIDE DEF next
  <2>4. RowsAdvance
    <3>1. ASSUME NEW t \in Steps, t < next[2] PROVE procStatus'[<<next[1], t>>] = "succeeded"
      <4>1. PICK g \in Generations, s \in Steps : p = <<g, s>> BY DEF Processes
      <4>2. next = <<g, s + 1>> /\ next[1] = g /\ next[2] = s + 1 BY <4>1 DEF next
      <4>3. t = s \/ t < s BY <3>1, <4>2 DEF Steps
      <4>4. <<g, t>> \in Processes BY ProcessPairs
      <4>5. procStatus[<<g, s>>] # "absent" BY <4>1
      <4>6. CASE t = s BY <2>1, <2>3, <4>1, <4>2, <4>6
      <4>7. CASE t < s
        <5>1. procStatus[<<g, t>>] = "succeeded" BY <4>5, <4>7 DEF Inv, PipelineOrder
        <5> QED BY <2>1, <2>3, <4>2, <4>4, <5>1
      <4> QED BY <4>3, <4>6, <4>7
    <3> QED BY <2>1, <2>3, <3>1 DEF RowsAdvance
  <2>5. FencesAdvance
    BY <2>1, <2>3 DEF FencesAdvance, SucceedAndRoute, Inv, TypeOK, ProcessRowsOK, ReleaseLease, LeaseRowsOK
  <2>6. LeaseDiscipline'
    BY <2>1, <2>3 DEF LeaseDiscipline, Leased, SucceedAndRoute, ReleaseLease, Inv, TypeOK, LeaseRowsOK
  <2>7. EffectOnce'
    BY <2>1, <2>3 DEF EffectOnce, SucceedAndRoute, Inv, TypeOK, ProcessRowsOK
  <2> QED BY <2>4, <2>5, <2>6, <2>7, QuietStep
<1> QED BY <1>1, <1>2 DEF SucceedAndRoute

\* Fencing the Processes of cancelled roots.
LEMMA FenceStep ==
  ASSUME Inv, TypeOK', NEW roots, FenceProcesses(roots),
         UNCHANGED <<leaseOwner, commits, worker>>
  PROVE  Inv'
<1> USE DEF Inv, FenceProcesses, FencedStatus, FencedGeneration, TypeOK, ProcessRowsOK, LeaseRowsOK
<1>1. RowsAdvance BY DEF RowsAdvance
<1>2. FencesAdvance BY DEF FencesAdvance
<1>3. LeaseDiscipline' BY DEF LeaseDiscipline, Leased
<1>4. EffectOnce' BY DEF EffectOnce
<1>5. ClaimsKept BY DEF ClaimsKept
<1> QED BY <1>1, <1>2, <1>3, <1>4, <1>5, QuietStep

\* A step that leaves the rows of Processes, leases, commits and workers alone
\* keeps the invariant.
LEMMA RowsUntouched ==
  ASSUME Inv, TypeOK', UNCHANGED <<procStatus, fencing, leaseOwner, commits, worker>>
  PROVE  Inv'
BY DEF Inv, PipelineOrder, LeaseDiscipline, FenceOwnership, EffectOnce

\* A step of a worker that only moves its own memory keeps the invariant.
LEMMA WorkerMoves ==
  ASSUME Inv, TypeOK', UNCHANGED <<procStatus, fencing, leaseOwner, commits>>,
         NEW w \in Workers, NEW pc \in {"run", "submit", "fallback"}, NEW outcome \in Outcomes,
         worker[w].pc # "idle",
         \/ worker' = [worker EXCEPT ![w] = Idle]
         \/ worker' = [worker EXCEPT ![w] = Moved(w, pc, outcome)]
  PROVE  Inv'
<1>1. FenceOwnership'
  BY DEF Inv, FenceOwnership, Idle, Moved, TypeOK, WorkersOK
<1> QED BY <1>1 DEF Inv, PipelineOrder, LeaseDiscipline, EffectOnce

\* A claim gives its worker a fence that nobody holds.
LEMMA ClaimStep ==
  ASSUME Inv, TypeOK', NEW w \in Workers, NEW p \in Processes, Claim(w, p)
  PROVE  Inv'
<1> USE DEF Inv, Claim, Claimable, TypeOK, ProcessRowsOK, LeaseRowsOK, WorkersOK
<1>1. PipelineOrder'
  <2>1. RowsAdvance BY DEF RowsAdvance
  <2> QED BY <2>1, AdvanceKeepsOrder
<1>2. LeaseDiscipline' BY OwnerAssumption DEF LeaseDiscipline, Leased
<1>3. EffectOnce' BY DEF EffectOnce
<1>4. FenceOwnership'
  <2>1. worker'[w].proc = p /\ worker'[w].fence = fencing[p] + 1 OBVIOUS
  <2>2. fencing[p] \in Nat /\ fencing'[p] = fencing[p] + 1 /\ leaseOwner'[p] = w OBVIOUS
  <2>3. ASSUME NEW v \in Workers \ {w}, worker'[v].pc # "idle"
        PROVE  /\ worker'[v] = worker[v]
               /\ worker[v].fence \in 1..fencing[worker[v].proc]
               /\ worker[v].proc \in Processes
    BY <2>3 DEF FenceOwnership
  <2>4. ASSUME NEW v \in Workers \ {w}, worker'[v].pc # "idle", worker'[v].proc = p
        PROVE  worker'[v].fence < fencing[p] + 1
    BY <2>2, <2>3, <2>4
  <2>5. ASSUME NEW v \in Workers \ {w}, worker'[v].pc # "idle", worker'[v].proc # p
        PROVE  LET q == worker'[v].proc
               IN /\ fencing'[q] = fencing[q]
                  /\ procStatus'[q] = procStatus[q]
                  /\ leaseOwner'[q] = leaseOwner[q]
    BY <2>3, <2>5
  <2> QED BY <2>1, <2>2, <2>3, <2>4, <2>5 DEF FenceOwnership
<1> QED BY <1>1, <1>2, <1>3, <1>4

\* Lease recovery of one Process.
LEMMA RecoverStep ==
  ASSUME Inv, TypeOK', NEW p \in Processes, Recover(p)
  PROVE  Inv'
<1>1. ClaimsKept BY DEF Recover, ClaimsKept
<1>2. CASE RecoverFailing(p)
  <2>1. procStatus[p] \in {"claimed", "running"} BY <1>2 DEF Recover, RecoverFailing, Leased
  <2>2. FailAndRoute(p) BY <1>2 DEF RecoverFailing
  <2> QED BY <1>1, <2>1, <2>2, FailStep
<1>3. CASE RecoverCancelling(p)
  <2> USE <1>3 DEF Inv, Recover, RecoverCancelling, ReleaseLease, leaseVars,
                   TypeOK, ProcessRowsOK, LeaseRowsOK
  <2>1. RowsAdvance BY DEF RowsAdvance
  <2>2. FencesAdvance BY DEF FencesAdvance
  <2>3. LeaseDiscipline' BY DEF LeaseDiscipline, Leased
  <2>4. EffectOnce' BY DEF EffectOnce
  <2> QED BY <1>1, <2>1, <2>2, <2>3, <2>4, QuietStep
<1>4. CASE RecoverReplaying(p)
  <2> USE <1>4 DEF Inv, Recover, RecoverReplaying, ReleaseLease, TypeOK, ProcessRowsOK, LeaseRowsOK
  <2>1. RowsAdvance BY DEF RowsAdvance, Leased
  <2>2. FencesAdvance BY DEF FencesAdvance
  <2>3. LeaseDiscipline' BY DEF LeaseDiscipline, Leased
  <2>4. EffectOnce' BY DEF EffectOnce, Leased
  <2> QED BY <1>1, <2>1, <2>2, <2>3, <2>4, QuietStep
<1> QED BY <1>2, <1>3, <1>4 DEF Recover

\* Materializing the first Process of a generation.
LEMMA MaterializeStep ==
  ASSUME Inv, TypeOK', NEW g \in Generations, Materialize(<<g, 1>>),
         UNCHANGED <<fencing, leaseOwner, commits, worker>>
  PROVE  Inv'
<1> DEFINE p == <<g, 1>>
<1>1. p \in Processes /\ p[2] = 1 BY ProcessPairs, FirstValues
<1>2. CASE procStatus[p] # "absent"
  BY <1>2, RowsUntouched DEF Materialize
<1>3. CASE procStatus[p] = "absent"
  <2>1. procStatus' = [procStatus EXCEPT ![p] = "ready"] BY <1>3 DEF Materialize
  <2> HIDE DEF p
  <2> USE <1>1, <1>3, <2>1 DEF Inv, TypeOK, ProcessRowsOK, LeaseRowsOK
  <2>2. RowsAdvance
    <3>1. \A t \in Steps : ~(t < p[2]) BY DEF Steps
    <3> QED BY <3>1 DEF RowsAdvance
  <2>3. FencesAdvance BY DEF FencesAdvance
  <2>4. LeaseDiscipline' BY DEF LeaseDiscipline, Leased
  <2>5. EffectOnce' BY DEF EffectOnce
  <2>6. ClaimsKept BY DEF ClaimsKept
  <2> QED BY <2>2, <2>3, <2>4, <2>5, <2>6, QuietStep
<1> QED BY <1>2, <1>3

\* Accepting an outcome under a fence that holds.
LEMMA AcceptStep ==
  ASSUME Inv, TypeOK', NEW w \in Workers, AcceptOutcome(w)
  PROVE  Inv'
<1> DEFINE p == worker[w].proc
<1>1. p \in Processes BY DEF Inv, TypeOK, WorkersOK
<1>2. procStatus[p] = "running" BY DEF AcceptOutcome, FenceHolds
<1>3. ClaimsKept
  BY DEF AcceptOutcome, Submitting, ClaimsKept, Idle, Moved, Inv, TypeOK, WorkersOK
<1>4. CASE SucceedAndRoute(p) BY <1>1, <1>2, <1>3, <1>4, SucceedStep
<1>5. CASE RetryOrFail(p) BY <1>1, <1>2, <1>3, <1>5, RetryStep
<1>6. CASE FailAndRoute(p) BY <1>1, <1>2, <1>3, <1>6, FailStep
<1> QED BY <1>4, <1>5, <1>6 DEF AcceptOutcome

\* Starting a claimed Process, or finding its fence lost.
LEMMA StartStep ==
  ASSUME Inv, TypeOK', NEW w \in Workers, MarkRunning(w)
  PROVE  Inv'
<1> DEFINE p == worker[w].proc
<1>1. p \in Processes BY DEF Inv, TypeOK, WorkersOK
<1>2. CASE /\ procStatus[p] = "claimed"
           /\ procStatus' = [procStatus EXCEPT ![p] = "running"]
           /\ worker' = [worker EXCEPT ![w] = Moved(w, "run", "failed")]
  <2> USE <1>1, <1>2 DEF Inv, MarkRunning, leaseVars, TypeOK, ProcessRowsOK, LeaseRowsOK
  <2>1. RowsAdvance BY DEF RowsAdvance
  <2>2. FencesAdvance BY DEF FencesAdvance
  <2>3. LeaseDiscipline' BY DEF LeaseDiscipline, Leased
  <2>4. EffectOnce' BY DEF EffectOnce
  <2>5. ClaimsKept BY DEF ClaimsKept, Moved, WorkersOK
  <2> QED BY <2>1, <2>2, <2>3, <2>4, <2>5, QuietStep
<1>3. CASE worker' = [worker EXCEPT ![w] = Idle] /\ UNCHANGED procStatus
  <2>1. worker[w].pc # "idle" /\ UNCHANGED <<procStatus, fencing, leaseOwner, commits>>
    BY <1>3 DEF MarkRunning, leaseVars
  <2>2. "run" \in {"run", "submit", "fallback"} /\ "failed" \in Outcomes BY DEF Outcomes
  <2> QED BY <1>3, <2>1, <2>2, WorkerMoves
<1> QED BY <1>2, <1>3 DEF MarkRunning

\* Every step keeps the invariant.
LEMMA InvStep ==
  ASSUME Inv, [Next]_vars
  PROVE  Inv'
<1>0. TypeOK' BY TypeStep DEF Inv
<1> USE <1>0
<1>1. ASSUME NEW k \in WakeKinds, NEW g \in Generations, DeliverWake(k, g) PROVE Inv'
  <2>1. UNCHANGED <<fencing, leaseOwner, commits, worker>> BY <1>1 DEF DeliverWake, leaseVars
  <2>2. CASE Materialize(<<g, 1>>) BY <2>1, <2>2, MaterializeStep
  <2>3. CASE UNCHANGED procStatus BY <2>1, <2>3, RowsUntouched
  <2> QED BY <1>1, <2>2, <2>3 DEF DeliverWake
<1>2. ASSUME NEW g \in Generations, DeliverCancel(g) PROVE Inv'
  <2>1. UNCHANGED <<leaseOwner, commits, worker>> BY <1>2 DEF DeliverCancel, leaseVars
  <2>2. CASE CancelTree(g) BY <2>1, <2>2, FenceStep DEF CancelTree
  <2>3. CASE UNCHANGED <<procStatus, fencing>> BY <2>1, <2>3, RowsUntouched
  <2> QED BY <1>2, <2>2, <2>3 DEF DeliverCancel
<1>3. ASSUME NEW m \in Messages, CompleteOutbox(m) PROVE Inv'
  BY <1>3, RowsUntouched DEF CompleteOutbox, procVars, leaseVars
<1>4. CASE TaskCancel
  <2> USE <1>4 DEF Inv, TaskCancel, leaseVars, TypeOK, ProcessRowsOK, LeaseRowsOK
  <2>1. RowsAdvance BY DEF RowsAdvance
  <2>2. FencesAdvance BY DEF FencesAdvance
  <2>3. LeaseDiscipline' BY DEF LeaseDiscipline, Leased
  <2>4. EffectOnce' BY DEF EffectOnce
  <2>5. ClaimsKept BY DEF ClaimsKept
  <2> QED BY <2>1, <2>2, <2>3, <2>4, <2>5, QuietStep
<1>5. CASE TaskRetry \/ SoftDelete \/ DeadlinePasses
  BY <1>5, RowsUntouched DEF TaskRetry, SoftDelete, DeadlinePasses, procVars, leaseVars
<1>6. ASSUME NEW w \in Workers, NEW p \in Processes, Claim(w, p) PROVE Inv'
  BY <1>6, ClaimStep
<1>7. ASSUME NEW w \in Workers, MarkRunning(w) PROVE Inv'
  BY <1>7, StartStep
<1>8. ASSUME NEW w \in Workers, NEW outcome \in Outcomes, Finish(w, outcome) PROVE Inv'
  <2>1. worker[w].pc # "idle" /\ UNCHANGED <<procStatus, fencing, leaseOwner, commits>>
    BY <1>8 DEF Finish, procVars, leaseVars
  <2> QED BY <1>8, <2>1, WorkerMoves DEF Finish
<1>9. ASSUME NEW w \in Workers, AcceptOutcome(w) PROVE Inv'
  BY <1>9, AcceptStep
<1>10. ASSUME NEW w \in Workers, OutcomeFenced(w) \/ OutcomeAborted(w) \/ Crash(w) PROVE Inv'
  <2>1. worker[w].pc # "idle" /\ UNCHANGED <<procStatus, fencing, leaseOwner, commits>>
    BY <1>10 DEF OutcomeFenced, Submitting, OutcomeAborted, Crash, procVars, leaseVars
  <2>2. "retryable" \in Outcomes /\ "failed" \in Outcomes BY DEF Outcomes
  <2>3. \/ worker' = [worker EXCEPT ![w] = Idle]
        \/ worker' = [worker EXCEPT ![w] = Moved(w, "fallback", "retryable")]
        \/ worker' = [worker EXCEPT ![w] = Moved(w, "fallback", "failed")]
    BY <1>10 DEF OutcomeFenced, OutcomeAborted, Crash
  <2> QED BY <2>1, <2>2, <2>3, WorkerMoves
<1>11. ASSUME NEW p \in Processes, FailExpiredReady(p) PROVE Inv'
  <2>1. ClaimsKept BY <1>11 DEF FailExpiredReady, ClaimsKept
  <2> QED BY <1>11, <2>1, FailStep DEF FailExpiredReady, Claimable
<1>12. ASSUME NEW p \in Processes, LeaseExpires(p) PROVE Inv'
  BY <1>12, RowsUntouched DEF LeaseExpires
<1>13. ASSUME NEW p \in Processes, PromoteRetry(p) PROVE Inv'
  <2> USE <1>13 DEF Inv, PromoteRetry, leaseVars, TypeOK, ProcessRowsOK, LeaseRowsOK
  <2>1. RowsAdvance BY DEF RowsAdvance
  <2>2. FencesAdvance BY DEF FencesAdvance
  <2>3. LeaseDiscipline' BY DEF LeaseDiscipline, Leased
  <2>4. EffectOnce' BY DEF EffectOnce
  <2>5. ClaimsKept BY DEF ClaimsKept
  <2> QED BY <2>1, <2>2, <2>3, <2>4, <2>5, QuietStep
<1>14. ASSUME NEW p \in Processes, Recover(p) PROVE Inv'
  BY <1>14, RecoverStep
<1>15. CASE RepairScan
  <2>1. FenceProcesses({g \in Generations : execStatus[g] = "cancelling"})
    BY <1>15 DEF RepairScan
  <2>2. UNCHANGED <<leaseOwner, commits, worker>> BY <1>15 DEF RepairScan, leaseVars
  <2> QED BY <2>1, <2>2, FenceStep
<1>16. CASE UNCHANGED vars
  BY <1>16, RowsUntouched DEF vars, procVars, leaseVars
<1> QED BY <1>1, <1>2, <1>3, <1>4, <1>5, <1>6, <1>7, <1>8, <1>9, <1>10, <1>11, <1>12,
           <1>13, <1>14, <1>15, <1>16 DEF Next

\* The initial state satisfies the invariant.
LEMMA InvInit ==
  ASSUME Init
  PROVE  Inv
<1>1. TypeOK BY TypeInit
<1>2. PipelineOrder BY ProcessPairs DEF Init, PipelineOrder
<1>3. LeaseDiscipline BY DEF Init, LeaseDiscipline, Leased
<1>4. FenceOwnership BY DEF Init, FenceOwnership, Idle
<1>5. EffectOnce BY DEF Init, EffectOnce
<1> QED BY <1>1, <1>2, <1>3, <1>4, <1>5 DEF Inv

\* Claims, heartbeats, crashes, recovery and cancellation never give two
\* workers the same fence of a Process, nor a current fence to a worker that the
\* lease does not name: what claim_next and recover_expired_leases rely on.
THEOREM FencesOwned == Spec => []FenceOwnership
<1>1. Init => Inv BY InvInit
<1>2. Inv /\ [Next]_vars => Inv' BY InvStep
<1>3. Inv => FenceOwnership BY DEF Inv
<1> QED BY <1>1, <1>2, <1>3, PTL DEF Spec

\* A lease owner is on the row exactly while the Process is leased, so that
\* recover_expired_leases misses no leased row and fences no other.
THEOREM LeasesDisciplined == Spec => []LeaseDiscipline
<1>1. Init => Inv BY InvInit
<1>2. Inv /\ [Next]_vars => Inv' BY InvStep
<1>3. Inv => LeaseDiscipline BY DEF Inv
<1> QED BY <1>1, <1>2, <1>3, PTL DEF Spec

\* The outcome committer of a Process takes effect at most once, and exactly
\* when accept_outcome leaves the Process succeeded.
THEOREM EffectsOnce == Spec => []EffectOnce
<1>1. Init => Inv BY InvInit
<1>2. Inv /\ [Next]_vars => Inv' BY InvStep
<1>3. Inv => EffectOnce BY DEF Inv
<1> QED BY <1>1, <1>2, <1>3, PTL DEF Spec

\* Routing materializes a step only behind a succeeded prefix of its route.
THEOREM StepsOrdered == Spec => []PipelineOrder
<1>1. Init => Inv BY InvInit
<1>2. Inv /\ [Next]_vars => Inv' BY InvStep
<1>3. Inv => PipelineOrder BY DEF Inv
<1> QED BY <1>1, <1>2, <1>3, PTL DEF Spec
=============================================================================
