------------------------ MODULE OperatorControlProofs ------------------------
(***************************************************************************)
(* What stop_execution, restart_process, dead letters and their requeue    *)
(* cannot break, for every value of the constants.  They are not steps of  *)
(* the engine, so the theorems about Spec say nothing of them; the same    *)
(* inductive invariant is kept by each of them because each raises the     *)
(* fence of every row it takes away from a worker.  That a commit is still *)
(* the owner's, under a running Task, needs one more invariant (Current):  *)
(* what the lifecycle invariant of the engine says of every Execution now  *)
(* holds only of those that have not ended.                                *)
(***************************************************************************)
EXTENDS OperatorControl, WorkflowFencingProofs

\* An operator's step keeps every row typed.
LEMMA OperatorTypeStep ==
  ASSUME TypeOK, Stop \/ Restart \/ DeadLetters
  PROVE  TypeOK'
<1> USE DEF TypeOK
<1>1. ASSUME NEW g \in Generations, StopExecution(g) PROVE TypeOK'
  <2>1. CancelTree(g) /\ deadlinePassed' = deadlinePassed BY <1>1 DEF StopExecution
  <2>2. ProcessRowsOK'
    BY <1>1, <2>1, FenceProcessesType DEF StopExecution, CancelTree, ProcessRowsOK
  <2>3. CASE Terminalize(g, "cancelled")
    <3>1. TaskRowOK' /\ ExecutionRowsOK' BY <2>1, <2>3, TerminalizeType DEF Terminal
    <3> QED BY <1>1, <2>2, <3>1 DEF StopExecution, LeaseRowsOK, OutboxRowsOK, WorkersOK, leaseVars
  <2>4. CASE /\ execStatus' = [execStatus EXCEPT ![g] = "cancelling"]
             /\ UNCHANGED <<waitingRef, currentProcess, summary, taskVars>>
    <3>1. TaskRowOK' /\ ExecutionRowsOK'
      BY <2>1, <2>4 DEF TaskRowOK, ExecutionRowsOK, ExecutionStatus, taskVars
    <3> QED BY <1>1, <2>2, <3>1 DEF StopExecution, LeaseRowsOK, OutboxRowsOK, WorkersOK, leaseVars
  <2> QED BY <2>1, <2>3, <2>4 DEF CancelTree
<1>2. ASSUME NEW p \in Processes, RestartProcess(p) PROVE TypeOK'
  <2>1. LeaseRowsOK' BY <1>2, ReleaseType DEF RestartProcess
  <2>2. ProcessRowsOK' BY <1>2 DEF RestartProcess, ProcessRowsOK, ProcessStatus, Active
  <2>3. TaskRowOK' /\ ExecutionRowsOK' /\ OutboxRowsOK' /\ WorkersOK'
    BY <1>2 DEF RestartProcess, TaskRowOK, ExecutionRowsOK, OutboxRowsOK, WorkersOK,
                taskVars, execVars
  <2> QED BY <2>1, <2>2, <2>3
<1>3. ASSUME NEW m \in Messages, DeadLetter(m) PROVE TypeOK'
  <2>1. m[2] \in Generations BY DEF Messages
  <2>2. OutboxRowsOK' BY <1>3 DEF DeadLetter, OutboxRowsOK
  <2>3. ProjectedTask(m[2], "failed") \in TaskStatus BY ProjectedType DEF Terminal
  <2>4. TaskRowOK' /\ ExecutionRowsOK'
    BY <1>3, <2>1, <2>3 DEF DeadLetter, TaskRowOK, ExecutionRowsOK, ExecutionStatus, Terminal
  <2>5. LeaseRowsOK' /\ ProcessRowsOK' /\ WorkersOK'
    BY <1>3 DEF DeadLetter, LeaseRowsOK, ProcessRowsOK, WorkersOK, procVars, leaseVars
  <2> QED BY <2>2, <2>4, <2>5
<1>4. ASSUME NEW m \in Messages, RequeueOutbox(m) PROVE TypeOK'
  BY <1>4 DEF RequeueOutbox, OutboxRowsOK, TaskRowOK, ExecutionRowsOK, LeaseRowsOK,
              ProcessRowsOK, WorkersOK, taskVars, execVars, procVars, leaseVars
<1> QED BY <1>1, <1>2, <1>3, <1>4 DEF Stop, Restart, DeadLetters

\* Restarting a Process that a worker holds fences that worker.
LEMMA RestartStep ==
  ASSUME Inv, TypeOK', NEW p \in Processes, RestartProcess(p)
  PROVE  Inv'
<1> USE DEF Inv, RestartProcess, ReleaseLease, TypeOK, ProcessRowsOK, LeaseRowsOK
<1>1. RowsAdvance BY DEF RowsAdvance
<1>2. FencesAdvance BY DEF FencesAdvance
<1>3. LeaseDiscipline' BY DEF LeaseDiscipline, Leased
<1>4. EffectOnce' BY DEF EffectOnce
<1>5. ClaimsKept BY DEF ClaimsKept
<1> QED BY <1>1, <1>2, <1>3, <1>4, <1>5, QuietStep

\* Every step of the engine and of the operator keeps the invariant.
LEMMA OperatorInvStep ==
  ASSUME Inv, [Next \/ Stop \/ Restart \/ DeadLetters]_vars
  PROVE  Inv'
<1>1. CASE [Next]_vars BY <1>1, InvStep
<1>2. CASE Stop \/ Restart \/ DeadLetters
  <2>0. TypeOK' BY <1>2, OperatorTypeStep DEF Inv
  <2> USE <2>0
  <2>1. ASSUME NEW g \in Generations, StopExecution(g) PROVE Inv'
    <3>1. FenceProcesses({g}) /\ UNCHANGED <<leaseOwner, commits, worker>>
      BY <2>1 DEF StopExecution, CancelTree, leaseVars
    <3> QED BY <3>1, FenceStep
  <2>2. ASSUME NEW p \in Processes, RestartProcess(p) PROVE Inv'
    BY <2>2, RestartStep
  <2>3. ASSUME NEW m \in Messages, DeadLetter(m) \/ RequeueOutbox(m) PROVE Inv'
    BY <2>3, RowsUntouched DEF DeadLetter, RequeueOutbox, procVars, leaseVars
  <2> QED BY <1>2, <2>1, <2>2, <2>3 DEF Stop, Restart, DeadLetters
<1> QED BY <1>1, <1>2

\* The invariant of the engine survives the operator and the dead letters.
LEMMA OperatorInvariant == OperatorSpec => []Inv
<1>1. Init => Inv BY InvInit
<1>2. Inv /\ [Next \/ Stop \/ Restart \/ DeadLetters]_vars => Inv' BY OperatorInvStep
<1> QED BY <1>1, <1>2, PTL DEF OperatorSpec

\* stop_execution and restart_process under a running worker never leave two
\* workers with the same fence of a Process, nor the current fence with a worker
\* that the lease does not name.
THEOREM OperatorFencesOwned == OperatorSpec => []FenceOwnership
<1>1. Inv => FenceOwnership BY DEF Inv
<1> QED BY <1>1, OperatorInvariant, PTL

\* A restarted or stopped Process never keeps a stale lease owner, and none is
\* left leased without one, which recovery would not find.
THEOREM OperatorLeases == OperatorSpec => []LeaseDiscipline
<1>1. Inv => LeaseDiscipline BY DEF Inv
<1> QED BY <1>1, OperatorInvariant, PTL

\* However often the operator restarts a Process while its worker is about to
\* submit, its outcome is committed at most once, and a committed row is final.
THEOREM OperatorEffectsOnce == OperatorSpec => []EffectOnce
<1>1. Inv => EffectOnce BY DEF Inv
<1> QED BY <1>1, OperatorInvariant, PTL

\* No stop, restart or dead letter makes a later step start before the earlier
\* ones have succeeded.
THEOREM OperatorStepsOrdered == OperatorSpec => []PipelineOrder
<1>1. Inv => PipelineOrder BY DEF Inv
<1> QED BY <1>1, OperatorInvariant, PTL

-----------------------------------------------------------------------------
(* Commits.  A dead letter ends an Execution over a running Process and a  *)
(* stop ends one without its Task, so RunningOK of the engine is lost; for *)
(* Executions that have not ended it still holds.                          *)

OpenStatus == {"ready", "running", "waiting"}

\* Only the current generation is open, and only under a live Task; an open
\* Execution runs its Process under a running Task.
OpenIsCurrent ==
  /\ \A g \in Generations : execStatus[g] \in OpenStatus => g = taskRoot /\ taskStatus \in {"queued", "running"}
  /\ \A p \in Processes :
       procStatus[p] = "running" /\ execStatus[p[1]] \in OpenStatus => taskStatus = "running"

\* Generations exist up to the current one, and have Processes only there.
GenerationsExist ==
  /\ \A g \in Generations : g <= taskRoot => execStatus[g] # "absent"
  /\ \A p \in Processes : procStatus[p] # "absent" => p[1] <= taskRoot

Current == OpenIsCurrent /\ GenerationsExist /\ FallbackOK

\* What every step but a retry and the start of a Process does: no Execution
\* opens, no Process starts running, new Processes are of existing generations,
\* and the Task row moves only when its Execution is not open.
Settles ==
  /\ taskRoot' = taskRoot
  /\ \A p \in Processes : procStatus'[p] = "running" => procStatus[p] = "running"
  /\ \A p \in Processes : procStatus'[p] # "absent" => procStatus[p] # "absent" \/ p[1] <= taskRoot
  /\ \A g \in Generations : execStatus'[g] \in OpenStatus => execStatus[g] \in OpenStatus
  /\ \A g \in Generations : execStatus'[g] = "absent" => execStatus[g] = "absent"
  /\ taskStatus' = taskStatus \/ execStatus'[taskRoot] \notin OpenStatus

\* Such a step keeps the invariant.
LEMMA SettlesKeeps ==
  ASSUME Inv, Current, Settles, FallbackOK'
  PROVE  Current'
<1>1. taskRoot \in Generations BY DEF Inv, TypeOK, TaskRowOK
<1>2. \A p \in Processes : p[1] \in Generations BY ProcessPairs
<1>3. GenerationsExist' BY <1>2 DEF Current, GenerationsExist, Settles
<1>4. OpenIsCurrent'
  <2>1. CASE taskStatus' = taskStatus
    BY <2>1, <1>2 DEF Current, OpenIsCurrent, Settles
  <2>2. CASE execStatus'[taskRoot] \notin OpenStatus
    BY <2>2, <1>2 DEF Current, OpenIsCurrent, Settles
  <2> QED BY <2>1, <2>2 DEF Settles
<1> QED BY <1>3, <1>4 DEF Current

\* Terminalizing an Execution opens none, and moves the Task row only with its
\* own Execution.
LEMMA TerminalizeSettles ==
  ASSUME Inv, NEW g \in Generations, NEW status \in Terminal, Terminalize(g, status)
  PROVE  /\ taskRoot' = taskRoot
         /\ \A h \in Generations : execStatus'[h] \in OpenStatus => execStatus[h] \in OpenStatus
         /\ \A h \in Generations : execStatus'[h] = "absent" => execStatus[h] = "absent"
         /\ taskStatus' = taskStatus \/ execStatus'[taskRoot] \notin OpenStatus
<1>1. CASE execStatus[g] \in Terminal
  BY <1>1 DEF Terminalize, execVars, taskVars
<1>2. CASE execStatus[g] \notin Terminal
  <2>1. execStatus \in [Generations -> ExecutionStatus] /\ taskRoot \in Generations
    BY DEF Inv, TypeOK, ExecutionRowsOK, TaskRowOK
  <2>2. /\ execStatus' = [execStatus EXCEPT ![g] = status] /\ taskRoot' = taskRoot
        /\ taskStatus' = ProjectedTask(g, status)
    BY <1>2 DEF Terminalize
  <2>3. status \notin OpenStatus /\ status # "absent" BY DEF Terminal, OpenStatus
  <2> QED BY <2>1, <2>2, <2>3 DEF ProjectedTask
<1> QED BY <1>1, <1>2

\* Converging a cancellation does no more.
LEMMA ConvergeSettles ==
  ASSUME Inv, NEW g \in Generations, NEW ps, Converge(g, ps)
  PROVE  /\ taskRoot' = taskRoot
         /\ \A h \in Generations : execStatus'[h] \in OpenStatus => execStatus[h] \in OpenStatus
         /\ \A h \in Generations : execStatus'[h] = "absent" => execStatus[h] = "absent"
         /\ taskStatus' = taskStatus \/ execStatus'[taskRoot] \notin OpenStatus
<1>1. CASE Terminalize(g, "cancelled") BY <1>1, TerminalizeSettles DEF Terminal
<1>2. CASE UNCHANGED <<execVars, taskVars>> BY <1>2 DEF execVars, taskVars
<1> QED BY <1>1, <1>2 DEF Converge

\* Fencing starts and creates nothing.
LEMMA FencedSettles ==
  ASSUME Inv, NEW G, FenceProcesses(G)
  PROVE  /\ \A p \in Processes : procStatus'[p] = "running" => procStatus[p] = "running"
         /\ \A p \in Processes : procStatus'[p] # "absent" => procStatus[p] # "absent"
BY DEF FenceProcesses, FencedStatus

\* Cancelling a tree settles it.
LEMMA CancelTreeSettles ==
  ASSUME Inv, NEW g \in Generations, CancelTree(g)
  PROVE  Settles
<1>1. /\ \A p \in Processes : procStatus'[p] = "running" => procStatus[p] = "running"
      /\ \A p \in Processes : procStatus'[p] # "absent" => procStatus[p] # "absent"
  BY FencedSettles DEF CancelTree
<1>2. CASE Terminalize(g, "cancelled")
  BY <1>1, <1>2, TerminalizeSettles DEF Settles, Terminal
<1>3. CASE /\ execStatus' = [execStatus EXCEPT ![g] = "cancelling"]
           /\ UNCHANGED <<waitingRef, currentProcess, summary, taskVars>>
  <2>1. execStatus \in [Generations -> ExecutionStatus] BY DEF Inv, TypeOK, ExecutionRowsOK
  <2> QED BY <1>1, <1>3, <2>1 DEF Settles, taskVars, OpenStatus
<1> QED BY <1>2, <1>3 DEF CancelTree

\* Failing a Process settles its Execution.
LEMMA FailSettles ==
  ASSUME Inv, NEW p \in Processes, FailAndRoute(p)
  PROVE  /\ \A q \in Processes : procStatus'[q] = "running" => procStatus[q] = "running"
         /\ \A q \in Processes : procStatus'[q] # "absent" => procStatus[q] # "absent" \/ q = p
         /\ taskRoot' = taskRoot
         /\ \A h \in Generations : execStatus'[h] \in OpenStatus => execStatus[h] \in OpenStatus
         /\ \A h \in Generations : execStatus'[h] = "absent" => execStatus[h] = "absent"
         /\ taskStatus' = taskStatus \/ execStatus'[taskRoot] \notin OpenStatus
<1>1. procStatus' = [procStatus EXCEPT ![p] = "failed"] /\ Terminalize(p[1], "failed")
  BY DEF FailAndRoute
<1>2. procStatus \in [Processes -> ProcessStatus] BY DEF Inv, TypeOK, ProcessRowsOK
<1>3. p[1] \in Generations BY ProcessPairs
<1> QED BY <1>1, <1>2, <1>3, TerminalizeSettles DEF Terminal

\* Deliveries of the outbox.
LEMMA DeliveriesKeep ==
  ASSUME Inv, Current, NEW g \in Generations,
         DeliverCancel(g) \/ \E k \in WakeKinds : DeliverWake(k, g)
  PROVE  Current'
<1>1. worker' = worker BY DEF DeliverCancel, DeliverWake
<1>2. FallbackOK' BY <1>1 DEF Current, FallbackOK
<1>3. execStatus \in [Generations -> ExecutionStatus] /\ procStatus \in [Processes -> ProcessStatus]
      /\ <<g, 1>> \in Processes /\ taskRoot \in Nat
  BY ProcessPairs, FirstValues, GenerationAssumption
     DEF Inv, TypeOK, ExecutionRowsOK, ProcessRowsOK, TaskRowOK, Generations
<1>4. CASE UNCHANGED <<procStatus, execVars, taskVars>>
  <2>1. Settles BY <1>4 DEF Settles, execVars, taskVars
  <2> QED BY <2>1, <1>2, SettlesKeeps
<1>5. CASE CancelTree(g)
  BY <1>2, <1>5, CancelTreeSettles, SettlesKeeps
<1>6. CASE Converge(g, procStatus) /\ UNCHANGED procStatus
  <2>1. Settles BY <1>6, ConvergeSettles DEF Settles
  <2> QED BY <2>1, <1>2, SettlesKeeps
<1>7. CASE execStatus[g] \in {"ready", "running"} /\ Materialize(<<g, 1>>)
  <2>1. g = taskRoot BY <1>7 DEF Current, OpenIsCurrent, OpenStatus
  <2>2. CASE procStatus[<<g, 1>>] = "absent"
    <3>1. /\ procStatus' = [procStatus EXCEPT ![<<g, 1>>] = "ready"]
          /\ execStatus' = [execStatus EXCEPT ![g] = "ready"] /\ UNCHANGED taskVars
      BY <1>7, <2>2 DEF Materialize
    <3>2. \A p \in Processes : procStatus'[p] # "absent" => procStatus[p] # "absent" \/ p[1] <= taskRoot
      BY <1>3, <2>1, <3>1
    <3>3. Settles BY <1>3, <1>7, <3>1, <3>2 DEF Settles, taskVars, OpenStatus
    <3> QED BY <3>3, <1>2, SettlesKeeps
  <2>3. CASE procStatus[<<g, 1>>] # "absent"
    BY <1>4, <1>7, <2>3 DEF Materialize
  <2> QED BY <2>2, <2>3
<1> QED BY <1>4, <1>5, <1>6, <1>7 DEF DeliverCancel, DeliverWake

\* The Task's commands.
LEMMA CommandsKeep ==
  ASSUME Inv, Current, TaskCancel \/ TaskRetry
  PROVE  Current'
<1>1. worker' = worker BY DEF TaskCancel, TaskRetry
<1>2. FallbackOK' BY <1>1 DEF Current, FallbackOK
<1>3. execStatus \in [Generations -> ExecutionStatus] /\ procStatus \in [Processes -> ProcessStatus]
      /\ taskRoot \in Generations
  BY DEF Inv, TypeOK, ExecutionRowsOK, ProcessRowsOK, TaskRowOK
<1>4. CASE TaskCancel
  <2>1. /\ execStatus' = IF execStatus[taskRoot] \in Terminal THEN execStatus
                         ELSE [execStatus EXCEPT ![taskRoot] = "cancelling"]
        /\ taskRoot' = taskRoot
    BY <1>4 DEF TaskCancel
  <2>2. /\ \A p \in Processes : procStatus'[p] = "running" => procStatus[p] = "running"
        /\ \A p \in Processes : procStatus'[p] # "absent" => procStatus[p] # "absent"
    BY <1>4 DEF TaskCancel
  <2>3. Settles BY <1>3, <2>1, <2>2 DEF Settles, Terminal, OpenStatus
  <2> QED BY <2>3, <1>2, SettlesKeeps
<1>5. CASE TaskRetry
  <2>1. /\ taskStatus \in {"failed", "cancelled"} /\ taskRoot < MaxGenerations
        /\ taskRoot' = taskRoot + 1 /\ taskStatus' = "queued" /\ procStatus' = procStatus
        /\ execStatus' = [execStatus EXCEPT ![taskRoot + 1] = "ready"]
    BY <1>5 DEF TaskRetry, procVars
  <2>2. taskRoot \in Nat /\ taskRoot + 1 \in Generations /\ Generations \subseteq Nat
    BY <1>3, <2>1, GenerationAssumption DEF Generations
  <2>3. \A g \in Generations : execStatus'[g] \in OpenStatus => g = taskRoot + 1
    BY <1>3, <2>1, <2>2 DEF Current, OpenIsCurrent
  <2>4. \A p \in Processes : p[1] \in Generations /\ (procStatus[p] # "absent" => p[1] <= taskRoot)
    BY ProcessPairs DEF Current, GenerationsExist
  <2>5. \A p \in Processes : procStatus'[p] = "running" => p[1] # taskRoot + 1
    BY <2>1, <2>2, <2>4
  <2>6. OpenIsCurrent' BY <2>1, <2>3, <2>4, <2>5 DEF OpenIsCurrent
  <2>7. GenerationsExist'
    <3>1. \A g \in Generations : g <= taskRoot + 1 => execStatus'[g] # "absent"
      <4> SUFFICES ASSUME NEW g \in Generations, g <= taskRoot + 1 PROVE execStatus'[g] # "absent"
        OBVIOUS
      <4>1. CASE g = taskRoot + 1 BY <1>3, <2>1, <2>2, <4>1
      <4>2. CASE g # taskRoot + 1
        <5>1. g <= taskRoot BY <2>2, <4>2
        <5> QED BY <1>3, <2>1, <4>2, <5>1 DEF Current, GenerationsExist
      <4> QED BY <4>1, <4>2
    <3>2. ASSUME NEW p \in Processes, procStatus[p] # "absent" PROVE p[1] <= taskRoot + 1
      <4>1. p[1] \in Nat /\ p[1] <= taskRoot BY <2>2, <2>4, <3>2
      <4> QED BY <2>2, <4>1
    <3> QED BY <2>1, <3>1, <3>2 DEF GenerationsExist
  <2> QED BY <2>6, <2>7, <1>2 DEF Current
<1> QED BY <1>4, <1>5

\* mark_running starts the Process and, of a queued Task, the Task.
LEMMA StartKeeps ==
  ASSUME Inv, Current, NEW w \in Workers, MarkRunning(w)
  PROVE  Current'
<1>1. FallbackOK'
  BY DEF MarkRunning, Moved, Idle, Current, FallbackOK, Inv, TypeOK, WorkersOK
<1>2. PICK p \in Processes : p = worker[w].proc BY DEF Inv, TypeOK, WorkersOK
<1>3. execStatus \in [Generations -> ExecutionStatus] /\ procStatus \in [Processes -> ProcessStatus]
      /\ p[1] \in Generations /\ taskRoot' = taskRoot
  BY ProcessPairs DEF Inv, TypeOK, ExecutionRowsOK, ProcessRowsOK, MarkRunning
<1>4. CASE UNCHANGED <<procStatus, execStatus, taskStatus>>
  <2>1. Settles BY <1>3, <1>4 DEF Settles
  <2> QED BY <2>1, <1>1, SettlesKeeps
<1>5. CASE ~UNCHANGED <<procStatus, execStatus, taskStatus>>
  <2>1. /\ procStatus[p] = "claimed" /\ procStatus' = [procStatus EXCEPT ![p] = "running"]
        /\ execStatus' = IF execStatus[p[1]] = "ready"
                         THEN [execStatus EXCEPT ![p[1]] = "running"] ELSE execStatus
        /\ taskStatus' = ProjectedTask(p[1], "running")
    BY <1>2, <1>5 DEF MarkRunning
  <2>2. /\ \A g \in Generations : execStatus'[g] \in OpenStatus => execStatus[g] \in OpenStatus
        /\ \A g \in Generations : execStatus'[g] = "absent" => execStatus[g] = "absent"
    BY <1>3, <2>1 DEF OpenStatus
  <2>3. taskStatus' = taskStatus \/ (p[1] = taskRoot /\ taskStatus' = "running")
    BY <2>1 DEF ProjectedTask
  <2>4. GenerationsExist' BY <1>3, <2>1, <2>2 DEF Current, GenerationsExist
  <2>5. execStatus'[p[1]] \in OpenStatus => taskStatus' = "running"
    <3>1. execStatus[p[1]] \in OpenStatus => p[1] = taskRoot /\ taskStatus \in {"queued", "running"}
      BY <1>3 DEF Current, OpenIsCurrent
    <3> QED BY <1>3, <2>1, <2>2, <3>1 DEF ProjectedTask, Projections
  <2>6. \A q \in Processes : q # p /\ procStatus'[q] = "running" /\ execStatus'[q[1]] \in OpenStatus
          => taskStatus' = "running"
    <3>1. \A q \in Processes : q[1] \in Generations BY ProcessPairs
    <3> QED BY <1>3, <2>1, <2>2, <2>3, <3>1 DEF Current, OpenIsCurrent
  <2>7. OpenIsCurrent'
    BY <1>3, <2>2, <2>3, <2>5, <2>6 DEF Current, OpenIsCurrent
  <2> QED BY <1>1, <2>4, <2>7 DEF Current
<1> QED BY <1>4, <1>5

\* accept_outcome: only an open Execution takes an outcome.
LEMMA OutcomeKeeps ==
  ASSUME Inv, Current, NEW w \in Workers, AcceptOutcome(w)
  PROVE  Current'
<1>1. FallbackOK'
  BY DEF AcceptOutcome, Moved, Idle, Current, FallbackOK, Inv, TypeOK, WorkersOK
<1>2. PICK p \in Processes : p = worker[w].proc BY DEF Inv, TypeOK, WorkersOK
<1>3. execStatus \in [Generations -> ExecutionStatus] /\ procStatus \in [Processes -> ProcessStatus]
      /\ p[1] \in Generations /\ p[2] \in Steps /\ taskRoot \in Generations /\ Generations \subseteq Nat
  BY ProcessPairs, GenerationAssumption
     DEF Inv, TypeOK, ExecutionRowsOK, ProcessRowsOK, TaskRowOK, Generations
<1>4. procStatus[p] = "running" /\ execStatus[p[1]] \notin Terminal \cup {"cancelling"}
  BY <1>2 DEF AcceptOutcome, FenceHolds
<1>5. p[1] <= taskRoot BY <1>4 DEF Current, GenerationsExist
<1>6. execStatus[p[1]] \in OpenStatus
  BY <1>3, <1>4, <1>5 DEF Current, GenerationsExist, ExecutionStatus, OpenStatus
<1>7. SucceedAndRoute(p) \/ RetryOrFail(p) \/ FailAndRoute(p) BY <1>2 DEF AcceptOutcome
<1>8. CASE FailAndRoute(p)
  <2>1. Settles BY <1>4, <1>8, FailSettles DEF Settles
  <2> QED BY <1>1, <2>1, SettlesKeeps
<1>9. CASE RetryOrFail(p) /\ ~FailAndRoute(p)
  <2>1. /\ procStatus' = [procStatus EXCEPT ![p] = "retry_wait"]
        /\ execStatus' = [execStatus EXCEPT ![p[1]] = "waiting"] /\ UNCHANGED taskVars
    BY <1>9 DEF RetryOrFail
  <2>2. Settles BY <1>3, <1>4, <1>6, <2>1 DEF Settles, OpenStatus, taskVars
  <2> QED BY <1>1, <2>2, SettlesKeeps
<1>10. CASE SucceedAndRoute(p)
  <2>1. CASE p[2] = StepCount
    <3>1. procStatus' = [procStatus EXCEPT ![p] = "succeeded"] /\ Terminalize(p[1], "succeeded")
      BY <1>10, <2>1, StepAssumption DEF SucceedAndRoute
    <3>2. Settles BY <1>3, <1>4, <3>1, TerminalizeSettles DEF Settles, Terminal
    <3> QED BY <1>1, <3>2, SettlesKeeps
  <2>2. CASE p[2] # StepCount
    <3>1. PICK next : next = <<p[1], p[2] + 1>> OBVIOUS
    <3>2. /\ procStatus' = [procStatus EXCEPT ![p] = "succeeded", ![next] = "ready"]
          /\ execStatus' = [execStatus EXCEPT ![p[1]] = "ready"] /\ UNCHANGED taskVars
      BY <1>10, <2>2, <3>1 DEF SucceedAndRoute
    <3>3. next[1] = p[1] BY <3>1
    <3>4. /\ \A q \in Processes : procStatus'[q] = "running" => procStatus[q] = "running"
          /\ \A q \in Processes : procStatus'[q] # "absent" => procStatus[q] # "absent" \/ q[1] <= taskRoot
      BY <1>3, <1>4, <1>5, <3>2, <3>3
    <3>5. Settles BY <1>3, <1>6, <3>2, <3>4 DEF Settles, OpenStatus, taskVars
    <3> QED BY <1>1, <3>5, SettlesKeeps
  <2> QED BY <2>1, <2>2
<1> QED BY <1>7, <1>8, <1>9, <1>10

\* The other steps of a worker.
LEMMA WorkerKeeps ==
  ASSUME Inv, Current, NEW w \in Workers,
         \/ \E p \in Processes : Claim(w, p)
         \/ \E outcome \in Outcomes : Finish(w, outcome)
         \/ OutcomeFenced(w) \/ OutcomeAborted(w) \/ Crash(w)
  PROVE  Current'
<1>1. FallbackOK'
  BY DEF Claim, Finish, OutcomeFenced, OutcomeAborted, Crash, Moved, Idle, Current, FallbackOK,
         Inv, TypeOK, WorkersOK
<1>2. ASSUME NEW p \in Processes, Claim(w, p) PROVE Settles
  <2>1. procStatus \in [Processes -> ProcessStatus] BY DEF Inv, TypeOK, ProcessRowsOK
  <2>2. /\ procStatus[p] = "ready" /\ procStatus' = [procStatus EXCEPT ![p] = "claimed"]
        /\ UNCHANGED <<taskVars, execVars>>
    BY <1>2 DEF Claim, Claimable
  <2> QED BY <2>1, <2>2 DEF Settles, taskVars, execVars
<1>3. CASE \/ \E outcome \in Outcomes : Finish(w, outcome)
           \/ OutcomeFenced(w) \/ OutcomeAborted(w) \/ Crash(w)
  <2>1. UNCHANGED <<taskVars, execVars, procVars>>
    BY <1>3 DEF Finish, OutcomeFenced, OutcomeAborted, Crash
  <2>2. Settles BY <2>1 DEF Settles, taskVars, execVars, procVars
  <2> QED BY <1>1, <2>2, SettlesKeeps
<1> QED BY <1>1, <1>2, <1>3, SettlesKeeps

\* The supervisor on one row.
LEMMA SupervisorKeeps ==
  ASSUME Inv, Current, NEW p \in Processes,
         FailExpiredReady(p) \/ LeaseExpires(p) \/ PromoteRetry(p) \/ Recover(p)
  PROVE  Current'
<1>1. worker' = worker BY DEF FailExpiredReady, LeaseExpires, PromoteRetry, Recover
<1>2. FallbackOK' BY <1>1 DEF Current, FallbackOK
<1>3. execStatus \in [Generations -> ExecutionStatus] /\ procStatus \in [Processes -> ProcessStatus]
      /\ p[1] \in Generations
  BY ProcessPairs DEF Inv, TypeOK, ExecutionRowsOK, ProcessRowsOK
<1>4. CASE FailExpiredReady(p) \/ (Recover(p) /\ RecoverFailing(p))
  <2>1. procStatus[p] # "absent" /\ FailAndRoute(p)
    BY <1>4 DEF FailExpiredReady, Claimable, Recover, RecoverFailing, Leased
  <2>2. Settles BY <2>1, FailSettles DEF Settles
  <2> QED BY <1>2, <2>2, SettlesKeeps
<1>5. CASE LeaseExpires(p)
  <2>1. Settles BY <1>5 DEF LeaseExpires, Settles, taskVars, execVars
  <2> QED BY <1>2, <2>1, SettlesKeeps
<1>6. CASE PromoteRetry(p)
  <2>1. procStatus[p] = "retry_wait" /\ procStatus' = [procStatus EXCEPT ![p] = "ready"] /\ UNCHANGED taskVars
    BY <1>6 DEF PromoteRetry
  <2>2. \/ execStatus' = execStatus
        \/ execStatus[p[1]] = "waiting" /\ execStatus' = [execStatus EXCEPT ![p[1]] = "ready"]
    BY <1>6 DEF PromoteRetry
  <2>3. Settles BY <1>3, <2>1, <2>2 DEF Settles, OpenStatus, taskVars
  <2> QED BY <1>2, <2>3, SettlesKeeps
<1>7. CASE Recover(p) /\ RecoverCancelling(p)
  <2>1. /\ \A q \in Processes : procStatus'[q] = "running" => procStatus[q] = "running"
        /\ \A q \in Processes : procStatus'[q] # "absent" => procStatus[q] # "absent"
    BY <1>3, <1>7 DEF RecoverCancelling
  <2>2. PICK ps : ps = procStatus' /\ Converge(p[1], ps) BY <1>7 DEF RecoverCancelling
  <2>3. Settles BY <1>3, <2>1, <2>2, ConvergeSettles DEF Settles
  <2> QED BY <1>2, <2>3, SettlesKeeps
<1>8. CASE Recover(p) /\ RecoverReplaying(p)
  <2>1. /\ procStatus[p] # "absent" /\ procStatus' = [procStatus EXCEPT ![p] = "ready"]
        /\ UNCHANGED <<taskVars, execVars>>
    BY <1>8 DEF Recover, Leased, RecoverReplaying
  <2>2. Settles BY <1>3, <2>1 DEF Settles, taskVars, execVars
  <2> QED BY <1>2, <2>2, SettlesKeeps
<1> QED BY <1>4, <1>5, <1>6, <1>7, <1>8 DEF Recover

\* The scan of repair_once.
LEMMA RepairKeeps ==
  ASSUME Inv, Current, RepairScan
  PROVE  Current'
<1>1. worker' = worker /\ taskRoot' = taskRoot BY DEF RepairScan
<1>2. FallbackOK' BY <1>1 DEF Current, FallbackOK
<1>3. execStatus \in [Generations -> ExecutionStatus] /\ taskRoot \in Generations
  BY DEF Inv, TypeOK, ExecutionRowsOK, TaskRowOK
<1>4. PICK G : FenceProcesses(G) BY DEF RepairScan
<1>5. \A g \in Generations : execStatus'[g] \in {"cancelled", "failed", execStatus[g]}
  BY <1>3 DEF RepairScan
<1>6. taskStatus' = taskStatus \/ execStatus'[taskRoot] \in Terminal BY DEF RepairScan
<1>7. Settles
  BY <1>1, <1>3, <1>4, <1>5, <1>6, FencedSettles DEF Settles, Terminal, OpenStatus
<1> QED BY <1>2, <1>7, SettlesKeeps

\* The operator's commands, dead letters and their requeue.
LEMMA OperatorKeeps ==
  ASSUME Inv, Current, Stop \/ Restart \/ DeadLetters
  PROVE  Current'
<1>1. worker' = worker
  BY DEF Stop, Restart, DeadLetters, StopExecution, RestartProcess, DeadLetter, RequeueOutbox
<1>2. FallbackOK' BY <1>1 DEF Current, FallbackOK
<1>3. execStatus \in [Generations -> ExecutionStatus] /\ procStatus \in [Processes -> ProcessStatus]
      /\ taskRoot \in Generations
  BY DEF Inv, TypeOK, ExecutionRowsOK, ProcessRowsOK, TaskRowOK
<1>4. ASSUME NEW g \in Generations, StopExecution(g) PROVE Settles
  BY <1>4, CancelTreeSettles DEF StopExecution
<1>5. ASSUME NEW p \in Processes, RestartProcess(p) PROVE Settles
  <2>1. /\ procStatus[p] # "absent" /\ procStatus' = [procStatus EXCEPT ![p] = "ready"]
        /\ UNCHANGED <<taskVars, execVars>>
    BY <1>5 DEF RestartProcess
  <2> QED BY <1>3, <2>1 DEF Settles, taskVars, execVars
<1>6. ASSUME NEW m \in Messages, DeadLetter(m) PROVE Settles
  <2>1. m[2] \in Generations BY DEF Messages
  <2>2. procStatus' = procStatus /\ taskRoot' = taskRoot BY <1>6 DEF DeadLetter, procVars
  <2>3. CASE UNCHANGED <<execStatus, taskStatus>> BY <2>2, <2>3 DEF Settles
  <2>4. CASE ~UNCHANGED <<execStatus, taskStatus>>
    <3>1. /\ execStatus' = [execStatus EXCEPT ![m[2]] = "failed"]
          /\ taskStatus' = ProjectedTask(m[2], "failed")
      BY <1>6, <2>4 DEF DeadLetter
    <3> QED BY <1>3, <2>1, <2>2, <3>1 DEF Settles, ProjectedTask, OpenStatus
  <2> QED BY <2>3, <2>4
<1>7. ASSUME NEW m \in Messages, RequeueOutbox(m) PROVE Settles
  BY <1>7 DEF RequeueOutbox, Settles, taskVars, execVars, procVars
<1>8. Settles BY <1>4, <1>5, <1>6, <1>7 DEF Stop, Restart, DeadLetters
<1> QED BY <1>2, <1>8, SettlesKeeps

\* Every step keeps the invariant.
LEMMA CurrentStep ==
  ASSUME Inv, Current, [Next \/ Stop \/ Restart \/ DeadLetters]_vars
  PROVE  Current'
<1>1. CASE \/ \E m \in Messages : CompleteOutbox(m)
           \/ SoftDelete \/ DeadlinePasses \/ UNCHANGED vars
  <2>1. UNCHANGED <<taskStatus, taskRoot, execVars, procVars, worker>>
    BY <1>1 DEF CompleteOutbox, SoftDelete, DeadlinePasses, vars, taskVars
  <2>2. Settles /\ FallbackOK' BY <2>1 DEF Settles, execVars, procVars, Current, FallbackOK
  <2> QED BY <2>2, SettlesKeeps
<1>2. CASE Stop \/ Restart \/ DeadLetters BY <1>2, OperatorKeeps
<1>3. CASE TaskCancel \/ TaskRetry BY <1>3, CommandsKeep
<1>4. CASE RepairScan BY <1>4, RepairKeeps
<1>5. CASE \E g \in Generations : DeliverCancel(g) \/ \E k \in WakeKinds : DeliverWake(k, g)
  BY <1>5, DeliveriesKeep
<1>6. CASE \E p \in Processes : FailExpiredReady(p) \/ LeaseExpires(p) \/ PromoteRetry(p) \/ Recover(p)
  BY <1>6, SupervisorKeeps
<1>7. ASSUME NEW w \in Workers,
             \/ \E p \in Processes : Claim(w, p)
             \/ MarkRunning(w)
             \/ \E outcome \in Outcomes : Finish(w, outcome)
             \/ AcceptOutcome(w) \/ OutcomeFenced(w) \/ OutcomeAborted(w) \/ Crash(w)
      PROVE  Current'
  BY <1>7, WorkerKeeps, StartKeeps, OutcomeKeeps
<1> QED BY <1>1, <1>2, <1>3, <1>4, <1>5, <1>6, <1>7 DEF Next

\* The invariant of commits under operator commands.
LEMMA CurrentInvariant == OperatorSpec => [](Inv /\ Current)
<1>1. Init => Inv /\ Current
  <2>1. Init => Inv BY InvInit
  <2>2. ASSUME Init PROVE Current
    <3>1. \A p \in Processes : p[1] \in Generations BY ProcessPairs
    <3>2. \A g \in Generations : g <= 1 => g = 1 BY GenerationAssumption DEF Generations
    <3> QED BY <2>2, <3>1, <3>2 DEF Init, Idle, Current, OpenIsCurrent, GenerationsExist, FallbackOK, OpenStatus
  <2> QED BY <2>1, <2>2
<1>2. Inv /\ Current /\ [Next \/ Stop \/ Restart \/ DeadLetters]_vars => (Inv /\ Current)'
  BY OperatorInvStep, CurrentStep
<1> QED BY <1>1, <1>2, PTL DEF OperatorSpec

\* Only an accepted success commits.
LEMMA OnlySuccessCommits ==
  ASSUME [Next \/ Stop \/ Restart \/ DeadLetters]_vars, commits' # commits
  PROVE  \E w \in Workers : /\ AcceptOutcome(w) /\ worker[w].outcome = "succeeded"
                            /\ commits' = [commits EXCEPT ![worker[w].proc] = @ + 1]
<1>1. ~(Stop \/ Restart \/ DeadLetters)
  BY DEF Stop, Restart, DeadLetters, StopExecution, RestartProcess, DeadLetter, RequeueOutbox
<1>2. ~(\E g \in Generations : DeliverCancel(g) \/ \E k \in WakeKinds : DeliverWake(k, g))
  BY DEF DeliverCancel, DeliverWake
<1>3. /\ ~(\E m \in Messages : CompleteOutbox(m))
      /\ ~(TaskCancel \/ TaskRetry \/ SoftDelete \/ DeadlinePasses \/ RepairScan \/ UNCHANGED vars)
  BY DEF CompleteOutbox, TaskCancel, TaskRetry, SoftDelete, DeadlinePasses, RepairScan, vars
<1>4. \A p : FailAndRoute(p) => commits' = commits BY DEF FailAndRoute
<1>5. ~(\E p \in Processes : FailExpiredReady(p) \/ LeaseExpires(p) \/ PromoteRetry(p) \/ Recover(p))
  BY <1>4 DEF FailExpiredReady, LeaseExpires, PromoteRetry, Recover, RecoverCancelling,
              RecoverFailing, RecoverReplaying
<1>6. \A w \in Workers :
        ~(\/ \E p \in Processes : Claim(w, p)
          \/ MarkRunning(w)
          \/ \E outcome \in Outcomes : Finish(w, outcome)
          \/ OutcomeFenced(w) \/ OutcomeAborted(w) \/ Crash(w))
  BY DEF Claim, MarkRunning, Finish, OutcomeFenced, OutcomeAborted, Crash
<1>7. PICK w \in Workers : AcceptOutcome(w)
  BY <1>1, <1>2, <1>3, <1>5, <1>6 DEF Next
<1>8. worker[w].outcome = "succeeded" /\ SucceedAndRoute(worker[w].proc)
  BY <1>4, <1>7 DEF AcceptOutcome, RetryOrFail
<1> QED BY <1>7, <1>8 DEF SucceedAndRoute

\* Whatever an operator stops, restarts or requeues and whatever message dies,
\* accept_outcome runs the committer only for the worker the lease names, under
\* its current fence and the running Task's current generation.
THEOREM OperatorCommitsByOwner == OperatorSpec => CommitByOwner
<1>1. ASSUME Inv /\ Current, [Next \/ Stop \/ Restart \/ DeadLetters]_vars
      PROVE  [\A p \in Processes : commits'[p] # commits[p] =>
                /\ \E w \in Workers : /\ leaseOwner[p] = w /\ worker[w].proc = p
                                       /\ worker[w].fence = fencing[p] /\ worker[w].pc = "submit"
                /\ p[1] = taskRoot /\ taskStatus = "running"]_vars
  <2> SUFFICES ASSUME NEW p \in Processes, commits'[p] # commits[p]
               PROVE  /\ \E w \in Workers : /\ leaseOwner[p] = w /\ worker[w].proc = p
                                            /\ worker[w].fence = fencing[p] /\ worker[w].pc = "submit"
                      /\ p[1] = taskRoot /\ taskStatus = "running"
    OBVIOUS
  <2>1. PICK w \in Workers : /\ AcceptOutcome(w) /\ worker[w].outcome = "succeeded"
                             /\ commits' = [commits EXCEPT ![worker[w].proc] = @ + 1]
    BY <1>1, OnlySuccessCommits
  <2>2. p = worker[w].proc
    BY <1>1, <2>1 DEF Inv, TypeOK, ProcessRowsOK, WorkersOK
  <2>3. /\ fencing[p] = worker[w].fence /\ procStatus[p] = "running"
        /\ execStatus[p[1]] \notin Terminal \cup {"cancelling"}
        /\ worker[w].pc \in {"submit", "fallback"}
    BY <2>1, <2>2 DEF AcceptOutcome, FenceHolds, Submitting
  <2>4. worker[w].pc = "submit" BY <1>1, <2>1, <2>3 DEF Current, FallbackOK
  <2>5. leaseOwner[p] = w BY <1>1, <2>2, <2>3, <2>4 DEF Inv, FenceOwnership
  <2>6. execStatus[p[1]] \in OpenStatus /\ p[1] \in Generations
    <3>1. p[1] \in Generations /\ execStatus \in [Generations -> ExecutionStatus]
      BY <1>1, ProcessPairs DEF Inv, TypeOK, ExecutionRowsOK
    <3>2. execStatus[p[1]] # "absent"
      BY <1>1, <2>3, <3>1 DEF Current, GenerationsExist
    <3> QED BY <2>3, <3>1, <3>2 DEF ExecutionStatus, OpenStatus
  <2>7. p[1] = taskRoot /\ taskStatus = "running"
    BY <1>1, <2>3, <2>6 DEF Current, OpenIsCurrent
  <2> QED BY <2>2, <2>3, <2>4, <2>5, <2>7
<1> QED BY <1>1, CurrentInvariant, PTL DEF OperatorSpec, CommitByOwner
=============================================================================
