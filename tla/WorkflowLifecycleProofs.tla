----------------------- MODULE WorkflowLifecycleProofs -----------------------
(***************************************************************************)
(* The life of Executions and of the Task in WorkflowEngine, for every     *)
(* value of its constants: nothing is stranded or stalled, the Task is a   *)
(* projection of its root, a terminal Execution is frozen, a cancellation  *)
(* is final, commits belong to the lease owner, and the engine implements  *)
(* TaskLifecycle.                                                          *)
(*                                                                         *)
(* NotStranded is not inductive: that a wake is pending for an Execution   *)
(* without Processes needs to know which generations have a message at     *)
(* all, that a retry wait is triggered needs current_process_uuid, and     *)
(* that a cancellation reaches the Task needs to know which Execution a    *)
(* cancel message may still refer to.  LifeInv adds those facts.           *)
(***************************************************************************)
EXTENDS WorkflowFencingProofs

Live == {"ready", "claimed", "running"}

\* The rows of a generation that has no Process yet.
Blank(g) == \A s \in Steps : procStatus[<<g, s>>] = "absent"

\* An open Execution: its first wake is still to be handled, or its current
\* Process can be claimed or is leased.
Open(g) ==
  \/ Blank(g) /\ currentProcess[g] = 0 /\ outbox[<<"wake", g>>] = "pending"
  \/ currentProcess[g] \in Steps /\ procStatus[<<g, currentProcess[g]>>] \in Live

\* A waiting Execution: its current Process waits for its backoff.
Parked(g) ==
  /\ currentProcess[g] \in Steps /\ waitingRef[g] = currentProcess[g]
  /\ procStatus[<<g, currentProcess[g]>>] = "retry_wait"

\* What the status of an Execution says of its Processes and its summary.
ExecutionOK(g) ==
  /\ execStatus[g] \in {"ready", "running"} => Open(g)
  /\ execStatus[g] = "waiting" => Parked(g)
  /\ execStatus[g] = "cancelling" =>
       \A s \in Steps : procStatus[<<g, s>>] \notin {"claimed", "running"}
  /\ execStatus[g] \in Terminal => Quiescent(g, procStatus)
  /\ execStatus[g] = "absent" => Blank(g) /\ currentProcess[g] = 0
  /\ execStatus[g] \in Terminal <=> g \in summary

\* What the messages of a generation say of its Execution.
MessagesOK(g) ==
  /\ outbox[<<"cancel", g>>] # "absent" => execStatus[g] \in Terminal \cup {"cancelling"}
  /\ execStatus[g] = "absent" => \A m \in Messages : m[2] = g => outbox[m] = "absent"

\* What is marked for cleanup is terminal and out of reach.
CleanupOK ==
  \A p \in eligible :
    /\ execStatus[p[1]] \in Terminal
    /\ \A m \in Messages : m[2] = p[1] => outbox[m] \notin Undelivered

\* The Task row against its generations: earlier ones ended without success,
\* later ones do not exist, and the current one carries the Task's status.
TaskOK ==
  /\ taskStatus \in Terminal \cup {"cancelling"} => execStatus[taskRoot] = taskStatus
  /\ taskStatus \in {"queued", "running"} => execStatus[taskRoot] \in {"ready", "running", "waiting"}
  /\ \A g \in Generations : g < taskRoot => execStatus[g] \in {"failed", "cancelled"}
  /\ \A g \in Generations : g > taskRoot => execStatus[g] = "absent"

\* A Process runs only under the running Task's current generation.
RunningOK == \A p \in Processes : procStatus[p] = "running" => p[1] = taskRoot /\ taskStatus = "running"

\* The inductive invariant.
LifeInv ==
  /\ Inv
  /\ \A g \in Generations : ExecutionOK(g) /\ MessagesOK(g)
  /\ CleanupOK /\ TaskOK /\ RunningOK /\ FallbackOK

-----------------------------------------------------------------------------
(* What the invariant says of a row. *)

\* At most one Process of a generation is active.
LEMMA OneActive ==
  ASSUME Inv, NEW g \in Generations, NEW s \in Steps, NEW t \in Steps,
         procStatus[<<g, s>>] \in Active, procStatus[<<g, t>>] \in Active
  PROVE  s = t
<1>1. s < t \/ t < s \/ s = t BY DEF Steps
<1>2. ~(s < t) BY DEF Inv, PipelineOrder, Active
<1>3. ~(t < s) BY DEF Inv, PipelineOrder, Active
<1> QED BY <1>1, <1>2, <1>3

\* An Execution that is neither terminal nor absent is the Task's root.
LEMMA AtRoot ==
  ASSUME LifeInv, NEW g \in Generations, execStatus[g] \notin Terminal \cup {"absent"}
  PROVE  /\ g = taskRoot
         /\ execStatus[g] = "cancelling" => taskStatus = "cancelling"
         /\ execStatus[g] # "cancelling" => taskStatus \in {"queued", "running"}
<1>1. taskRoot \in Generations /\ taskStatus \in TaskStatus BY DEF LifeInv, Inv, TypeOK, TaskRowOK
<1>2. g < taskRoot \/ g > taskRoot \/ g = taskRoot BY <1>1 DEF Generations
<1>3. g = taskRoot BY <1>2 DEF LifeInv, TaskOK, Terminal
<1> QED BY <1>1, <1>3 DEF LifeInv, TaskOK, TaskStatus, Terminal

\* An active Process belongs to an Execution that is not closed.
LEMMA ActiveRow ==
  ASSUME LifeInv, NEW p \in Processes, procStatus[p] \in Active
  PROVE  /\ p[1] \in Generations /\ p[2] \in Steps /\ p = <<p[1], p[2]>>
         /\ execStatus[p[1]] \in {"ready", "running", "waiting", "cancelling"}
<1>1. p[1] \in Generations /\ p[2] \in Steps /\ p = <<p[1], p[2]>> BY ProcessPairs
<1>2. execStatus[p[1]] \in ExecutionStatus BY <1>1 DEF LifeInv, Inv, TypeOK, ExecutionRowsOK
<1>3. ExecutionOK(p[1]) BY <1>1 DEF LifeInv
<1>4. procStatus[<<p[1], p[2]>>] \in Active /\ procStatus[<<p[1], p[2]>>] # "absent"
  BY <1>1 DEF Active
<1>5. ~Quiescent(p[1], procStatus) /\ ~Blank(p[1])
  BY <1>1, <1>4 DEF Quiescent, Blank
<1> QED BY <1>1, <1>2, <1>3, <1>5 DEF ExecutionOK, ExecutionStatus

\* The active Process of an Execution that is not cancelled is its current one.
LEMMA CurrentIs ==
  ASSUME LifeInv, NEW p \in Processes, procStatus[p] \in Active,
         execStatus[p[1]] # "cancelling"
  PROVE  /\ currentProcess[p[1]] = p[2]
         /\ procStatus[p] \in Live \cup {"retry_wait"}
         /\ procStatus[p] \in Live => execStatus[p[1]] \in {"ready", "running"}
         /\ procStatus[p] = "retry_wait" => execStatus[p[1]] = "waiting" /\ waitingRef[p[1]] = p[2]
<1> DEFINE g == p[1]
<1>1. g \in Generations /\ p[2] \in Steps /\ p = <<g, p[2]>>
      /\ execStatus[g] \in {"ready", "running", "waiting"}
  BY ActiveRow
<1>2. ExecutionOK(g) BY <1>1 DEF LifeInv
<1>3. procStatus[<<g, p[2]>>] \in Active /\ procStatus[<<g, p[2]>>] # "absent"
  BY <1>1 DEF Active
<1>4. ~Blank(g) BY <1>1, <1>3 DEF Blank
<1> HIDE DEF g
<1>5. /\ currentProcess[g] \in Steps
      /\ procStatus[<<g, currentProcess[g]>>] \in Live \cup {"retry_wait"}
      /\ execStatus[g] = "waiting" => /\ waitingRef[g] = currentProcess[g]
                                      /\ procStatus[<<g, currentProcess[g]>>] = "retry_wait"
      /\ execStatus[g] # "waiting" => procStatus[<<g, currentProcess[g]>>] \in Live
  BY <1>1, <1>2, <1>4 DEF ExecutionOK, Open, Parked
<1>6. procStatus[<<g, currentProcess[g]>>] \in Active BY <1>5 DEF Live, Active
<1>7. currentProcess[g] = p[2]
  BY <1>1, <1>3, <1>5, <1>6, OneActive DEF LifeInv
<1>8. procStatus[<<g, currentProcess[g]>>] = procStatus[p] BY <1>1, <1>7
<1> QED BY <1>1, <1>5, <1>7, <1>8 DEF g, Live

-----------------------------------------------------------------------------
(* What a step may do, and what that keeps. *)

\* A terminal status is final and a cancellation ends only in cancelled.
ExecFinal ==
  \A g \in Generations :
    /\ execStatus[g] \in Terminal => execStatus'[g] = execStatus[g]
    /\ execStatus[g] = "cancelling" => execStatus'[g] \in {"cancelling", "cancelled"}

\* Besides, no Execution comes or goes.
ExecAdvance ==
  /\ ExecFinal
  /\ \A g \in Generations : execStatus'[g] = "absent" <=> execStatus[g] = "absent"

\* Messages are only handled and completed.
OutboxAdvance ==
  \A m \in Messages : \/ outbox'[m] = outbox[m]
                      \/ outbox[m] \in Undelivered /\ outbox'[m] \in {"in_flight", "done"}

\* Generation h is left alone, and its first wake is not taken.
Same(h) ==
  /\ execStatus'[h] = execStatus[h] /\ waitingRef'[h] = waitingRef[h]
  /\ currentProcess'[h] = currentProcess[h]
  /\ h \in summary' <=> h \in summary
  /\ \A s \in Steps : procStatus'[<<h, s>>] = procStatus[<<h, s>>]
  /\ outbox[<<"wake", h>>] = "pending" => outbox'[<<"wake", h>>] = "pending"

\* The Task row carries the status of its root.
RootOK ==
  /\ taskStatus \in Terminal \cup {"cancelling"} => execStatus[taskRoot] = taskStatus
  /\ taskStatus \in {"queued", "running"} => execStatus[taskRoot] \in {"ready", "running", "waiting"}

\* A generation that is left alone stays as its status says.
LEMMA SameKeeps ==
  ASSUME NEW h \in Generations, ExecutionOK(h), Same(h)
  PROVE  ExecutionOK(h)'
<1>1. Blank(h)' <=> Blank(h) BY DEF Same, Blank
<1>2. Quiescent(h, procStatus)' <=> Quiescent(h, procStatus) BY DEF Same, Quiescent
<1>3. Open(h) => Open(h)' BY <1>1 DEF Same, Open
<1>4. Parked(h) => Parked(h)' BY DEF Same, Parked
<1> QED BY <1>1, <1>2, <1>3, <1>4 DEF Same, ExecutionOK

\* Messages that are only handled keep pointing at the Executions they may.
LEMMA MessagesKept ==
  ASSUME LifeInv, TypeOK', ExecAdvance, OutboxAdvance, eligible' = eligible
  PROVE  (\A g \in Generations : MessagesOK(g)') /\ CleanupOK'
<1>1. \A m \in Messages : /\ outbox'[m] # "absent" => outbox[m] # "absent"
                          /\ outbox'[m] \in Undelivered => outbox[m] \in Undelivered
  BY DEF OutboxAdvance, Undelivered
<1>2. \A g \in Generations : <<"cancel", g>> \in Messages BY DEF Messages
<1>3. ASSUME NEW g \in Generations PROVE MessagesOK(g)'
  <2>1. MessagesOK(g) BY DEF LifeInv
  <2>2. outbox'[<<"cancel", g>>] # "absent" => execStatus[g] \in Terminal \cup {"cancelling"}
    BY <1>1, <1>2, <2>1 DEF MessagesOK
  <2>3. outbox'[<<"cancel", g>>] # "absent" => execStatus'[g] \in Terminal \cup {"cancelling"}
    BY <2>2 DEF ExecAdvance, ExecFinal, Terminal
  <2>4. execStatus'[g] = "absent" => \A m \in Messages : m[2] = g => outbox'[m] = "absent"
    BY <1>1, <2>1 DEF ExecAdvance, ExecFinal, MessagesOK
  <2> QED BY <2>3, <2>4 DEF MessagesOK
<1>4. CleanupOK'
  <2> SUFFICES ASSUME NEW p \in eligible
               PROVE  /\ execStatus'[p[1]] \in Terminal
                      /\ \A m \in Messages : m[2] = p[1] => outbox'[m] \notin Undelivered
    BY DEF CleanupOK
  <2>1. p \in Processes /\ p[1] \in Generations
    BY ProcessPairs DEF LifeInv, Inv, TypeOK, ProcessRowsOK
  <2> QED BY <1>1, <2>1 DEF LifeInv, CleanupOK, ExecAdvance, ExecFinal
<1> QED BY <1>3, <1>4

\* A step that advances Executions and keeps the root in line keeps TaskOK.
LEMMA TaskKept ==
  ASSUME LifeInv, ExecAdvance, taskRoot' = taskRoot, RootOK'
  PROVE  TaskOK'
<1>1. \A g \in Generations : g < taskRoot => execStatus'[g] \in {"failed", "cancelled"}
  BY DEF LifeInv, TaskOK, ExecAdvance, ExecFinal, Terminal
<1>2. \A g \in Generations : g > taskRoot => execStatus'[g] = "absent"
  BY DEF LifeInv, TaskOK, ExecAdvance, ExecFinal
<1> QED BY <1>1, <1>2 DEF TaskOK, RootOK

\* A step on one generation keeps the invariant if it leaves that generation
\* as its new status says.
LEMMA StepKeeps ==
  ASSUME LifeInv, Inv', ExecAdvance, OutboxAdvance, eligible' = eligible,
         taskRoot' = taskRoot, RootOK', RunningOK', FallbackOK',
         NEW g \in Generations, ExecutionOK(g)',
         \A h \in Generations : h # g => Same(h)
  PROVE  LifeInv' /\ ExecFinal
<1>1. \A h \in Generations : ExecutionOK(h)'
  BY SameKeeps DEF LifeInv
<1>2. (\A h \in Generations : MessagesOK(h)') /\ CleanupOK' BY MessagesKept DEF Inv
<1>3. TaskOK' BY TaskKept
<1> QED BY <1>1, <1>2, <1>3 DEF LifeInv, ExecAdvance

-----------------------------------------------------------------------------
(* The steps of the engine. *)

\* Writing one Process row.
LEMMA OneRow ==
  ASSUME TypeOK, NEW p \in Processes, NEW x, procStatus' = [procStatus EXCEPT ![p] = x]
  PROVE  /\ \A h \in Generations : h # p[1] =>
              \A s \in Steps : procStatus'[<<h, s>>] = procStatus[<<h, s>>]
         /\ \A s \in Steps : procStatus'[<<p[1], s>>] =
              IF s = p[2] THEN x ELSE procStatus[<<p[1], s>>]
         /\ procStatus'[p] = x
         /\ \A q \in Processes : q # p => procStatus'[q] = procStatus[q]
<1>1. p[1] \in Generations /\ p[2] \in Steps /\ p = <<p[1], p[2]>> BY ProcessPairs
<1>2. \A h \in Generations, s \in Steps : <<h, s>> \in Processes BY ProcessPairs
<1>3. \A q \in Processes : procStatus'[q] = IF q = p THEN x ELSE procStatus[q]
  BY DEF TypeOK, ProcessRowsOK
<1>4. \A h \in Generations, s \in Steps : h # p[1] => <<h, s>> # p BY <1>1
<1>5. \A s \in Steps : <<p[1], s>> = p <=> s = p[2] BY <1>1
<1> QED BY <1>1, <1>2, <1>3, <1>4, <1>5

\* An Execution that ends, with its Processes, keeps the invariant: it is the
\* root, so that the Task ends with it.
LEMMA CloseStep ==
  ASSUME LifeInv, Inv', NEW g \in Generations, NEW status \in Terminal,
         execStatus[g] \notin Terminal \cup {"absent"}, Terminalize(g, status),
         status = "cancelled" <=> execStatus[g] = "cancelling",
         status = "succeeded" => taskStatus = "running",
         \A s \in Steps : procStatus'[<<g, s>>] \notin Active,
         \A h \in Generations : h # g => \A s \in Steps : procStatus'[<<h, s>>] = procStatus[<<h, s>>],
         \A h \in Generations : h # g /\ outbox[<<"wake", h>>] = "pending"
                                  => outbox'[<<"wake", h>>] = "pending",
         OutboxAdvance, eligible' = eligible, FallbackOK'
  PROVE  LifeInv' /\ ExecFinal
<1>1. /\ g = taskRoot
      /\ execStatus[g] = "cancelling" => taskStatus = "cancelling"
      /\ execStatus[g] # "cancelling" => taskStatus \in {"queued", "running"}
  BY AtRoot
<1>2. /\ execStatus' = [execStatus EXCEPT ![g] = status]
      /\ waitingRef' = [waitingRef EXCEPT ![g] = 0]
      /\ currentProcess' = [currentProcess EXCEPT ![g] = 0]
      /\ summary' = summary \cup {g}
      /\ taskStatus' = ProjectedTask(g, status)
      /\ taskRoot' = taskRoot
  BY DEF Terminalize
<1>3. <<taskStatus, status>> \in Projections
  BY <1>1 DEF Terminal, Projections
<1>4. taskStatus' = status BY <1>1, <1>2, <1>3 DEF ProjectedTask
<1>5. execStatus \in [Generations -> ExecutionStatus] /\ waitingRef \in [Generations -> Steps \cup {0}]
      /\ currentProcess \in [Generations -> Steps \cup {0}] /\ taskRoot \in Generations
  BY DEF LifeInv, Inv, TypeOK, ExecutionRowsOK, TaskRowOK
<1>6. execStatus'[g] = status /\ \A h \in Generations : h # g => execStatus'[h] = execStatus[h]
  BY <1>2, <1>5
<1>7. ExecAdvance BY <1>6 DEF ExecAdvance, ExecFinal, Terminal
<1>8. RootOK' BY <1>1, <1>2, <1>4, <1>6 DEF RootOK, Terminal
<1>9. RunningOK'
  <2> SUFFICES ASSUME NEW p \in Processes, procStatus'[p] = "running" PROVE FALSE
    BY DEF RunningOK
  <2>1. p[1] \in Generations /\ p[2] \in Steps /\ p = <<p[1], p[2]>> BY ProcessPairs
  <2>2. p[1] # g
    <3>1. ASSUME p[1] = g PROVE FALSE
      <4>1. procStatus'[<<g, p[2]>>] = "running" BY <2>1, <3>1
      <4> QED BY <2>1, <4>1 DEF Active
    <3> QED BY <3>1
  <2>3. procStatus[p] = "running" BY <2>1, <2>2
  <2> QED BY <1>1, <2>2, <2>3 DEF LifeInv, RunningOK
<1>10. ExecutionOK(g)'
  <2>1. Quiescent(g, procStatus') BY DEF Quiescent
  <2>2. g \in summary' /\ execStatus'[g] \in Terminal BY <1>2, <1>6
  <2> QED BY <2>1, <2>2 DEF ExecutionOK, Terminal
<1>11. ASSUME NEW h \in Generations, h # g PROVE Same(h)
  BY <1>2, <1>5, <1>6, <1>11 DEF Same
<1> QED BY <1>2, <1>7, <1>8, <1>9, <1>10, <1>11, StepKeeps

\* A step that touches no Execution and no Process row, and takes the first
\* wake only of an Execution that has its Process or is not open.
LEMMA CalmStep ==
  ASSUME LifeInv, Inv', UNCHANGED <<taskStatus, taskRoot, execVars, procStatus>>,
         OutboxAdvance, eligible' = eligible, FallbackOK',
         \A h \in Generations :
           \/ outbox[<<"wake", h>>] = "pending" => outbox'[<<"wake", h>>] = "pending"
           \/ ~Blank(h)
           \/ execStatus[h] \notin {"ready", "running"}
  PROVE  LifeInv' /\ ExecFinal
<1>1. ExecAdvance BY DEF ExecAdvance, ExecFinal, execVars, Terminal
<1>2. RootOK' BY DEF LifeInv, TaskOK, RootOK, execVars
<1>3. RunningOK' BY DEF LifeInv, RunningOK
<1>4. ASSUME NEW h \in Generations PROVE ExecutionOK(h)'
  <2>1. ExecutionOK(h) BY DEF LifeInv
  <2>2. Blank(h)' <=> Blank(h) BY DEF Blank
  <2>3. Quiescent(h, procStatus)' <=> Quiescent(h, procStatus) BY DEF Quiescent
  <2>4. Parked(h)' <=> Parked(h) BY DEF Parked, execVars
  <2>5. execStatus[h] \in {"ready", "running"} /\ Open(h) => Open(h)'
    BY <2>2 DEF Open, execVars
  <2> QED BY <2>1, <2>2, <2>3, <2>4, <2>5 DEF ExecutionOK, execVars
<1>5. (\A h \in Generations : MessagesOK(h)') /\ CleanupOK' BY <1>1, MessagesKept DEF Inv
<1>6. TaskOK' BY <1>1, <1>2, TaskKept
<1> QED BY <1>1, <1>3, <1>4, <1>5, <1>6 DEF LifeInv, ExecAdvance

\* The other Processes of the generation of an active Process are not active.
LEMMA OthersIdle ==
  ASSUME LifeInv, NEW p \in Processes, procStatus[p] \in Active
  PROVE  \A s \in Steps : s # p[2] => procStatus[<<p[1], s>>] \notin Active
<1>1. p[1] \in Generations /\ p[2] \in Steps /\ p = <<p[1], p[2]>> BY ProcessPairs
<1>2. procStatus[<<p[1], p[2]>>] \in Active BY <1>1
<1>3. Inv BY DEF LifeInv
<1> QED BY <1>1, <1>2, <1>3, OneActive

\* A Process that ends and routes to a terminal ends its Execution.
LEMMA EndStep ==
  ASSUME LifeInv, Inv', NEW p \in Processes, procStatus[p] \in Active,
         execStatus[p[1]] # "cancelling", NEW x \in {"succeeded", "failed"},
         x = "succeeded" => procStatus[p] = "running",
         procStatus' = [procStatus EXCEPT ![p] = x], Terminalize(p[1], x),
         outbox' = outbox, eligible' = eligible, FallbackOK'
  PROVE  LifeInv' /\ ExecFinal
<1> DEFINE g == p[1]
<1>1. g \in Generations /\ execStatus[g] \notin Terminal \cup {"absent"}
  BY ActiveRow DEF Terminal
<1>2. TypeOK BY DEF LifeInv, Inv
<1>3. /\ \A h \in Generations : h # g => \A s \in Steps : procStatus'[<<h, s>>] = procStatus[<<h, s>>]
      /\ \A s \in Steps : procStatus'[<<g, s>>] = IF s = p[2] THEN x ELSE procStatus[<<g, s>>]
  BY <1>2, OneRow
<1>4. \A s \in Steps : procStatus'[<<g, s>>] \notin Active
  BY <1>3, OthersIdle DEF Active
<1>5. OutboxAdvance BY DEF OutboxAdvance
<1>6. x = "succeeded" => taskStatus = "running" BY DEF LifeInv, RunningOK
<1>7. x \in Terminal BY DEF Terminal
<1>8. x = "cancelled" <=> execStatus[g] = "cancelling" OBVIOUS
<1> HIDE DEF g
<1>9. Terminalize(g, x) BY DEF g
<1> QED BY <1>1, <1>3, <1>4, <1>5, <1>6, <1>7, <1>8, <1>9, CloseStep

\* A Process that stays claimable or leased keeps its Execution open.
LEMMA LiveStep ==
  ASSUME LifeInv, Inv', NEW p \in Processes, procStatus[p] \in Live,
         execStatus[p[1]] # "cancelling", NEW x \in Live,
         procStatus' = [procStatus EXCEPT ![p] = x],
         execStatus'[p[1]] \in {"ready", "running"},
         \A h \in Generations : h # p[1] => execStatus'[h] = execStatus[h],
         UNCHANGED <<waitingRef, currentProcess, summary, taskRoot, outbox, eligible>>,
         taskStatus' = taskStatus \/ (taskStatus = "queued" /\ taskStatus' = "running"),
         x = "running" => taskStatus' = "running",
         FallbackOK'
  PROVE  LifeInv' /\ ExecFinal
<1> DEFINE g == p[1]
<1>1. g \in Generations /\ p[2] \in Steps /\ p = <<g, p[2]>> /\ procStatus[p] \in Active
  BY ProcessPairs DEF Live, Active
<1>2. currentProcess[g] = p[2] /\ execStatus[g] \in {"ready", "running"}
  BY <1>1, CurrentIs
<1>3. g = taskRoot /\ taskStatus \in {"queued", "running"}
  BY <1>1, <1>2, AtRoot DEF Terminal
<1>4. TypeOK BY DEF LifeInv, Inv
<1>5. /\ \A h \in Generations : h # g => \A s \in Steps : procStatus'[<<h, s>>] = procStatus[<<h, s>>]
      /\ \A s \in Steps : procStatus'[<<g, s>>] = IF s = p[2] THEN x ELSE procStatus[<<g, s>>]
      /\ procStatus'[p] = x
      /\ \A q \in Processes : q # p => procStatus'[q] = procStatus[q]
  BY <1>4, OneRow
<1> HIDE DEF g
<1>6. ExecAdvance BY <1>1, <1>2 DEF ExecAdvance, ExecFinal, Terminal, g
<1>7. OutboxAdvance BY DEF OutboxAdvance
<1>8. RootOK' BY <1>2, <1>3 DEF RootOK, g, Terminal
<1>9. RunningOK'
  <2> SUFFICES ASSUME NEW q \in Processes, procStatus'[q] = "running"
               PROVE  q[1] = taskRoot /\ taskStatus' = "running"
    BY DEF RunningOK
  <2>1. CASE q = p BY <1>3, <1>5, <2>1 DEF g
  <2>2. CASE q # p BY <1>3, <1>5, <2>2 DEF LifeInv, RunningOK
  <2> QED BY <2>1, <2>2
<1>10. ExecutionOK(g)'
  <2>1. Open(g)' BY <1>1, <1>2, <1>5 DEF Open
  <2>2. execStatus[g] \notin Terminal /\ execStatus'[g] \in {"ready", "running"}
    BY <1>2 DEF Terminal, g
  <2>3. g \notin summary BY <1>1, <2>2 DEF LifeInv, ExecutionOK
  <2> QED BY <2>1, <2>2, <2>3 DEF ExecutionOK, Terminal
<1>11. ASSUME NEW h \in Generations, h # g PROVE Same(h)
  BY <1>5, <1>11 DEF Same, g
<1> QED BY <1>1, <1>6, <1>7, <1>8, <1>9, <1>10, <1>11, StepKeeps

\* claim_next leases a ready Process.
LEMMA ClaimLife ==
  ASSUME LifeInv, Inv', NEW w \in Workers, NEW p \in Processes, Claim(w, p)
  PROVE  LifeInv' /\ ExecFinal
<1>1. p[1] \in Generations BY ProcessPairs
<1>2. FallbackOK'
  BY DEF Claim, LifeInv, FallbackOK, Inv, TypeOK, WorkersOK
<1>3. procStatus[p] \in Live /\ "claimed" \in Live /\ execStatus[p[1]] \in {"ready", "running"}
  BY DEF Claim, Claimable, Live
<1>4. /\ procStatus' = [procStatus EXCEPT ![p] = "claimed"] /\ execStatus' = execStatus
      /\ UNCHANGED <<waitingRef, currentProcess, summary, taskRoot, taskStatus, outbox, eligible>>
  BY DEF Claim, execVars, taskVars
<1>5. execStatus[p[1]] # "cancelling" /\ execStatus'[p[1]] \in {"ready", "running"}
  BY <1>3, <1>4
<1> QED BY <1>2, <1>3, <1>4, <1>5, LiveStep

\* mark_running starts the Execution and the Task with the Process.
LEMMA StartLife ==
  ASSUME LifeInv, Inv', NEW w \in Workers, MarkRunning(w)
  PROVE  LifeInv' /\ ExecFinal
<1> DEFINE p == worker[w].proc
<1>1. p \in Processes /\ p[1] \in Generations BY ProcessPairs DEF LifeInv, Inv, TypeOK, WorkersOK
<1>2. FallbackOK'
  BY DEF MarkRunning, Moved, Idle, LifeInv, FallbackOK, Inv, TypeOK, WorkersOK
<1>3. outbox' = outbox /\ eligible' = eligible BY DEF MarkRunning
<1>4. CASE UNCHANGED <<procStatus, execStatus, taskStatus>>
  <2>1. UNCHANGED <<taskStatus, taskRoot, execVars, procStatus>>
    BY <1>4 DEF MarkRunning, execVars
  <2>2. OutboxAdvance BY <1>3 DEF OutboxAdvance
  <2> QED BY <1>2, <1>3, <2>1, <2>2, CalmStep
<1>5. CASE /\ procStatus[p] = "claimed" /\ procStatus' = [procStatus EXCEPT ![p] = "running"]
           /\ execStatus' = IF execStatus[p[1]] = "ready"
                            THEN [execStatus EXCEPT ![p[1]] = "running"] ELSE execStatus
           /\ taskStatus' = ProjectedTask(p[1], "running")
  <2> HIDE DEF p
  <2>1. procStatus[p] \in Active /\ procStatus[p] \in Live /\ "running" \in Live
    BY <1>5 DEF Active, Live
  <2>2. UNCHANGED <<waitingRef, currentProcess, summary, taskRoot>> BY DEF MarkRunning
  <2>3. execStatus \in [Generations -> ExecutionStatus] BY DEF LifeInv, Inv, TypeOK, ExecutionRowsOK
  <2>4. CASE execStatus[p[1]] = "cancelling"
    <3>1. p[2] \in Steps /\ p = <<p[1], p[2]>> BY <1>1, ProcessPairs
    <3>2. procStatus[<<p[1], p[2]>>] = "claimed" BY <1>5, <3>1
    <3> QED BY <1>1, <2>4, <3>1, <3>2 DEF LifeInv, ExecutionOK
  <2>5. CASE execStatus[p[1]] # "cancelling"
    <3>1. execStatus[p[1]] \in {"ready", "running"} BY <1>1, <2>1, <2>5, CurrentIs
    <3>2. p[1] = taskRoot /\ taskStatus \in {"queued", "running"}
      BY <1>1, <3>1, AtRoot DEF Terminal
    <3>3. taskStatus' = "running"
      BY <1>5, <3>2 DEF ProjectedTask, Projections
    <3>4. execStatus'[p[1]] \in {"ready", "running"} /\ \A h \in Generations : h # p[1] => execStatus'[h] = execStatus[h]
      BY <1>1, <1>5, <2>3, <3>1
    <3> QED BY <1>1, <1>2, <1>3, <1>5, <2>1, <2>2, <2>5, <3>2, <3>3, <3>4, LiveStep
  <2> QED BY <2>4, <2>5
<1> QED BY <1>4, <1>5 DEF MarkRunning

\* An open Execution whose current Process becomes a new ready row.
LEMMA OpenStep ==
  ASSUME LifeInv, Inv', NEW g \in Generations, NEW n \in Steps,
         execStatus[g] \in {"ready", "running"},
         procStatus'[<<g, n>>] = "ready",
         \A q \in Processes : procStatus'[q] = "running" => procStatus[q] = "running",
         \A h \in Generations : h # g => \A s \in Steps : procStatus'[<<h, s>>] = procStatus[<<h, s>>],
         execStatus' = [execStatus EXCEPT ![g] = "ready"],
         waitingRef' = [waitingRef EXCEPT ![g] = 0],
         currentProcess' = [currentProcess EXCEPT ![g] = n],
         UNCHANGED <<summary, taskStatus, taskRoot, eligible>>,
         \A h \in Generations : h # g /\ outbox[<<"wake", h>>] = "pending"
                                  => outbox'[<<"wake", h>>] = "pending",
         OutboxAdvance, FallbackOK'
  PROVE  LifeInv' /\ ExecFinal
<1>1. execStatus \in [Generations -> ExecutionStatus] /\ waitingRef \in [Generations -> Steps \cup {0}]
      /\ currentProcess \in [Generations -> Steps \cup {0}]
  BY DEF LifeInv, Inv, TypeOK, ExecutionRowsOK
<1>2. execStatus'[g] = "ready" /\ currentProcess'[g] = n
      /\ \A h \in Generations : h # g => execStatus'[h] = execStatus[h]
  BY <1>1
<1>3. g = taskRoot /\ taskStatus \in {"queued", "running"} BY AtRoot DEF Terminal
<1>4. ExecAdvance BY <1>2 DEF ExecAdvance, ExecFinal, Terminal
<1>5. RootOK' BY <1>2, <1>3 DEF RootOK, Terminal
<1>6. RunningOK' BY DEF LifeInv, RunningOK
<1>7. ExecutionOK(g)'
  <2>1. Open(g)' BY <1>2 DEF Open, Live
  <2>2. g \notin summary BY DEF LifeInv, ExecutionOK, Terminal
  <2> QED BY <1>2, <2>1, <2>2 DEF ExecutionOK, Terminal
<1>8. ASSUME NEW h \in Generations, h # g PROVE Same(h)
  BY <1>1, <1>2, <1>8 DEF Same
<1> QED BY <1>4, <1>5, <1>6, <1>7, <1>8, StepKeeps

\* A retryable failure parks the Execution behind its Process.
LEMMA ParkStep ==
  ASSUME LifeInv, Inv', NEW p \in Processes, procStatus[p] = "running",
         execStatus[p[1]] # "cancelling",
         procStatus' = [procStatus EXCEPT ![p] = "retry_wait"],
         execStatus' = [execStatus EXCEPT ![p[1]] = "waiting"],
         waitingRef' = [waitingRef EXCEPT ![p[1]] = p[2]],
         UNCHANGED <<currentProcess, summary, taskStatus, taskRoot, outbox, eligible>>, FallbackOK'
  PROVE  LifeInv' /\ ExecFinal
<1> DEFINE g == p[1]
<1>1. g \in Generations /\ p[2] \in Steps /\ p = <<g, p[2]>> BY ProcessPairs
<1>2. currentProcess[g] = p[2] /\ execStatus[g] \in {"ready", "running"}
  BY CurrentIs DEF Active, Live
<1>3. g = taskRoot /\ taskStatus \in {"queued", "running"} BY <1>1, <1>2, AtRoot DEF Terminal
<1>4. TypeOK BY DEF LifeInv, Inv
<1>5. /\ \A h \in Generations : h # g => \A s \in Steps : procStatus'[<<h, s>>] = procStatus[<<h, s>>]
      /\ procStatus'[p] = "retry_wait"
      /\ \A q \in Processes : q # p => procStatus'[q] = procStatus[q]
  BY <1>4, OneRow
<1>6. execStatus \in [Generations -> ExecutionStatus] /\ waitingRef \in [Generations -> Steps \cup {0}]
  BY <1>4 DEF TypeOK, ExecutionRowsOK
<1>7. execStatus'[g] = "waiting" /\ waitingRef'[g] = p[2]
      /\ \A h \in Generations : h # g => execStatus'[h] = execStatus[h] /\ waitingRef'[h] = waitingRef[h]
  BY <1>1, <1>6
<1> HIDE DEF g
<1>8. ExecAdvance BY <1>2, <1>7 DEF ExecAdvance, ExecFinal, Terminal
<1>9. OutboxAdvance BY DEF OutboxAdvance
<1>10. RootOK' BY <1>3, <1>7 DEF RootOK, Terminal
<1>11. RunningOK' BY <1>5 DEF LifeInv, RunningOK
<1>12. ExecutionOK(g)'
  <2>1. Parked(g)' BY <1>1, <1>2, <1>5, <1>7 DEF Parked
  <2>2. g \notin summary BY <1>1, <1>2 DEF LifeInv, ExecutionOK, Terminal
  <2> QED BY <1>7, <2>1, <2>2 DEF ExecutionOK, Terminal
<1>13. ASSUME NEW h \in Generations, h # g PROVE Same(h)
  BY <1>5, <1>7, <1>13 DEF Same
<1> QED BY <1>1, <1>8, <1>9, <1>10, <1>11, <1>12, <1>13, StepKeeps

\* promote_due_retries reopens the Execution that waits for its Process.
LEMMA PromoteLife ==
  ASSUME LifeInv, Inv', NEW p \in Processes, PromoteRetry(p)
  PROVE  LifeInv' /\ ExecFinal
<1> DEFINE g == p[1]
<1>1. g \in Generations /\ p[2] \in Steps /\ p = <<g, p[2]>> BY ProcessPairs
<1>2. procStatus[p] = "retry_wait" /\ execStatus[g] # "cancelling" BY DEF PromoteRetry
<1>3. currentProcess[g] = p[2] /\ execStatus[g] = "waiting" /\ waitingRef[g] = p[2]
  BY <1>2, CurrentIs DEF Active
<1>4. g = taskRoot /\ taskStatus \in {"queued", "running"} BY <1>1, <1>3, AtRoot DEF Terminal
<1>5. TypeOK BY DEF LifeInv, Inv
<1>6. /\ procStatus' = [procStatus EXCEPT ![p] = "ready"]
      /\ execStatus' = [execStatus EXCEPT ![g] = "ready"]
      /\ waitingRef' = [waitingRef EXCEPT ![g] = 0]
      /\ UNCHANGED <<currentProcess, summary, taskStatus, taskRoot, outbox, eligible, worker>>
  BY <1>3 DEF PromoteRetry, taskVars
<1>7. /\ \A h \in Generations : h # g => \A s \in Steps : procStatus'[<<h, s>>] = procStatus[<<h, s>>]
      /\ procStatus'[p] = "ready"
      /\ \A q \in Processes : q # p => procStatus'[q] = procStatus[q]
  BY <1>5, <1>6, OneRow
<1>8. execStatus \in [Generations -> ExecutionStatus] /\ waitingRef \in [Generations -> Steps \cup {0}]
  BY <1>5 DEF TypeOK, ExecutionRowsOK
<1> HIDE DEF g
<1>9. execStatus'[g] = "ready"
      /\ \A h \in Generations : h # g => execStatus'[h] = execStatus[h] /\ waitingRef'[h] = waitingRef[h]
  BY <1>1, <1>6, <1>8
<1>10. ExecAdvance BY <1>3, <1>9 DEF ExecAdvance, ExecFinal, Terminal
<1>11. OutboxAdvance BY <1>6 DEF OutboxAdvance
<1>12. RootOK' BY <1>4, <1>6, <1>9 DEF RootOK, Terminal
<1>13. RunningOK' BY <1>6, <1>7 DEF LifeInv, RunningOK
<1>14. ExecutionOK(g)'
  <2>1. Open(g)' BY <1>1, <1>3, <1>6, <1>7 DEF Open, Live
  <2>2. g \notin summary BY <1>1, <1>3 DEF LifeInv, ExecutionOK, Terminal
  <2> QED BY <1>6, <1>9, <2>1, <2>2 DEF ExecutionOK, Terminal
<1>15. ASSUME NEW h \in Generations, h # g PROVE Same(h)
  BY <1>6, <1>7, <1>9, <1>15 DEF Same
<1>16. FallbackOK' BY <1>6 DEF LifeInv, FallbackOK
<1> QED BY <1>1, <1>6, <1>10, <1>11, <1>12, <1>13, <1>14, <1>15, <1>16, StepKeeps

\* accept_outcome: the route of a success, a retry or a failure.
LEMMA AcceptLife ==
  ASSUME LifeInv, Inv', NEW w \in Workers, AcceptOutcome(w)
  PROVE  LifeInv' /\ ExecFinal
<1> DEFINE p == worker[w].proc
<1>1. p \in Processes /\ p[1] \in Generations /\ p[2] \in Steps
  BY ProcessPairs DEF LifeInv, Inv, TypeOK, WorkersOK
<1>2. procStatus[p] = "running" /\ execStatus[p[1]] # "cancelling" BY DEF AcceptOutcome, FenceHolds
<1>3. FallbackOK'
  BY DEF AcceptOutcome, Moved, Idle, LifeInv, FallbackOK, Inv, TypeOK, WorkersOK
<1>4. outbox' = outbox /\ eligible' = eligible BY DEF AcceptOutcome
<1>5. SucceedAndRoute(p) \/ RetryOrFail(p) \/ FailAndRoute(p) BY DEF AcceptOutcome
<1> HIDE DEF p
<1>6. procStatus[p] \in Active BY <1>2 DEF Active
<1>7. CASE FailAndRoute(p)
  <2>1. procStatus' = [procStatus EXCEPT ![p] = "failed"] /\ Terminalize(p[1], "failed")
    BY <1>7 DEF FailAndRoute
  <2> QED BY <1>1, <1>2, <1>3, <1>4, <1>6, <2>1, EndStep
<1>8. CASE RetryOrFail(p) /\ ~FailAndRoute(p)
  <2>1. /\ procStatus' = [procStatus EXCEPT ![p] = "retry_wait"]
        /\ execStatus' = [execStatus EXCEPT ![p[1]] = "waiting"]
        /\ waitingRef' = [waitingRef EXCEPT ![p[1]] = p[2]]
        /\ UNCHANGED <<currentProcess, summary, taskStatus, taskRoot>>
    BY <1>8 DEF RetryOrFail, taskVars
  <2> QED BY <1>1, <1>2, <1>3, <1>4, <2>1, ParkStep
<1>9. CASE SucceedAndRoute(p)
  <2>1. CASE procStatus' = [procStatus EXCEPT ![p] = "succeeded"] /\ Terminalize(p[1], "succeeded")
    BY <1>1, <1>2, <1>3, <1>4, <1>6, <2>1, EndStep
  <2>2. CASE /\ p[2] < StepCount
             /\ procStatus' = [procStatus EXCEPT ![p] = "succeeded", ![<<p[1], p[2] + 1>>] = "ready"]
             /\ execStatus' = [execStatus EXCEPT ![p[1]] = "ready"]
             /\ waitingRef' = [waitingRef EXCEPT ![p[1]] = 0]
             /\ currentProcess' = [currentProcess EXCEPT ![p[1]] = p[2] + 1]
             /\ UNCHANGED <<summary, taskVars>>
    <3> DEFINE n == p[2] + 1
               next == <<p[1], n>>
    <3>1. next \in Processes /\ next # p BY <1>1, <1>2, <2>2, NextIsAbsent DEF LifeInv, Inv
    <3>2. n \in Steps BY <3>1, ProcessPairs, <1>1, <2>2, StepAssumption DEF Steps
    <3>3. procStatus \in [Processes -> ProcessStatus] BY DEF LifeInv, Inv, TypeOK, ProcessRowsOK
    <3>4. procStatus' = [procStatus EXCEPT ![p] = "succeeded", ![next] = "ready"] BY <2>2
    <3> HIDE DEF next
    <3>5. \A q \in Processes : procStatus'[q] = IF q = next THEN "ready" ELSE
                                                IF q = p THEN "succeeded" ELSE procStatus[q]
      BY <1>1, <3>1, <3>3, <3>4
    <3>6. \A h \in Generations : h # p[1] =>
            \A s \in Steps : procStatus'[<<h, s>>] = procStatus[<<h, s>>]
      <4> SUFFICES ASSUME NEW h \in Generations, h # p[1], NEW s \in Steps
                   PROVE  procStatus'[<<h, s>>] = procStatus[<<h, s>>]
        OBVIOUS
      <4>1. <<h, s>> \in Processes /\ <<h, s>>[1] = h BY ProcessPairs
      <4>2. <<h, s>> # p /\ <<h, s>> # next BY <4>1 DEF next
      <4> QED BY <3>5, <4>1, <4>2
    <3>7. procStatus'[<<p[1], n>>] = "ready" BY <3>1, <3>5 DEF next
    <3>8. \A q \in Processes : procStatus'[q] = "running" => procStatus[q] = "running" BY <3>5
    <3>9. execStatus[p[1]] \in {"ready", "running"} BY <1>1, <1>2, <1>6, CurrentIs DEF Live
    <3>10. currentProcess' = [currentProcess EXCEPT ![p[1]] = n] BY <2>2
    <3>11. UNCHANGED <<summary, taskStatus, taskRoot, eligible>> BY <1>4, <2>2 DEF taskVars
    <3>12. OutboxAdvance BY <1>4 DEF OutboxAdvance
    <3> HIDE DEF n
    <3> QED BY <1>1, <1>3, <1>4, <2>2, <3>2, <3>6, <3>7, <3>8, <3>9, <3>10, <3>11, <3>12, OpenStep
  <2> QED BY <1>9, <2>1, <2>2 DEF SucceedAndRoute
<1> QED BY <1>5, <1>7, <1>8, <1>9

\* claim_next fails a ready Process whose deadline has passed.
LEMMA ExpireLife ==
  ASSUME LifeInv, Inv', NEW p \in Processes, FailExpiredReady(p)
  PROVE  LifeInv' /\ ExecFinal
<1>1. procStatus[p] \in Active /\ execStatus[p[1]] # "cancelling"
  BY DEF FailExpiredReady, Claimable, Active
<1>2. /\ procStatus' = [procStatus EXCEPT ![p] = "failed"] /\ Terminalize(p[1], "failed")
      /\ outbox' = outbox /\ eligible' = eligible
  BY DEF FailExpiredReady, FailAndRoute
<1>3. FallbackOK' BY DEF FailExpiredReady, LifeInv, FallbackOK
<1> QED BY <1>1, <1>2, <1>3, EndStep

\* A cancelling Execution converges once its Processes are closed.
LEMMA ConvergeStep ==
  ASSUME LifeInv, Inv', NEW g \in Generations, execStatus[g] = "cancelling", Converge(g, procStatus'),
         \A s \in Steps : procStatus'[<<g, s>>] \notin {"claimed", "running"},
         \A h \in Generations : h # g => \A s \in Steps : procStatus'[<<h, s>>] = procStatus[<<h, s>>],
         \A h \in Generations : h # g /\ outbox[<<"wake", h>>] = "pending"
                                  => outbox'[<<"wake", h>>] = "pending",
         OutboxAdvance, eligible' = eligible, FallbackOK'
  PROVE  LifeInv' /\ ExecFinal
<1>1. CASE Quiescent(g, procStatus')
  <2>1. \A s \in Steps : procStatus'[<<g, s>>] \notin Active BY <1>1 DEF Quiescent
  <2>2. Terminalize(g, "cancelled") BY <1>1 DEF Converge
  <2>3. "cancelled" \in Terminal /\ execStatus[g] \notin Terminal \cup {"absent"} BY DEF Terminal
  <2> QED BY <2>1, <2>2, <2>3, CloseStep
<1>2. CASE ~Quiescent(g, procStatus')
  <2>1. UNCHANGED <<execVars, taskVars>> BY <1>2 DEF Converge
  <2> USE <2>1
  <2>2. ExecAdvance BY DEF ExecAdvance, ExecFinal, execVars, Terminal
  <2>3. RootOK' BY DEF LifeInv, TaskOK, RootOK, execVars, taskVars
  <2>4. RunningOK'
    <3> SUFFICES ASSUME NEW p \in Processes, procStatus'[p] = "running" PROVE procStatus[p] = "running"
      BY DEF RunningOK, LifeInv, taskVars
    <3>1. p[1] \in Generations /\ p[2] \in Steps /\ p = <<p[1], p[2]>> BY ProcessPairs
    <3>2. procStatus'[<<p[1], p[2]>>] = "running" BY <3>1
    <3>3. p[1] # g BY <3>1, <3>2
    <3> QED BY <3>1, <3>3
  <2>5. ExecutionOK(g)'
    <3>1. g \notin summary BY DEF LifeInv, ExecutionOK, Terminal
    <3> QED BY <3>1 DEF ExecutionOK, execVars, Terminal
  <2>6. ASSUME NEW h \in Generations, h # g PROVE Same(h)
    BY <2>6 DEF Same, execVars
  <2> QED BY <2>2, <2>3, <2>4, <2>5, <2>6, StepKeeps DEF taskVars
<1> QED BY <1>1, <1>2

\* recover_expired_leases: convergence, failure or replay.
LEMMA RecoverLife ==
  ASSUME LifeInv, Inv', NEW p \in Processes, Recover(p)
  PROVE  LifeInv' /\ ExecFinal
<1>1. outbox' = outbox /\ eligible' = eligible /\ worker' = worker BY DEF Recover
<1>2. FallbackOK' BY <1>1 DEF LifeInv, FallbackOK
<1>3. procStatus[p] \in {"claimed", "running", "cancelling"} /\ procStatus[p] \in Active
  BY DEF Recover, Leased, Active
<1>4. p[1] \in Generations /\ p[2] \in Steps /\ p = <<p[1], p[2]>> BY ProcessPairs
<1>5. TypeOK BY DEF LifeInv, Inv
<1>6. OutboxAdvance BY <1>1 DEF OutboxAdvance
<1>7. CASE RecoverCancelling(p)
  <2>1. execStatus[p[1]] = "cancelling" BY <1>3, <1>7, CurrentIs DEF RecoverCancelling, Live
  <2>2. \A s \in Steps : procStatus[<<p[1], s>>] \notin {"claimed", "running"}
    BY <1>4, <2>1 DEF LifeInv, ExecutionOK
  <2>3. procStatus[<<p[1], p[2]>>] \notin {"claimed", "running"} BY <1>4, <2>2
  <2>4. procStatus[p] = "cancelling" BY <1>3, <1>4, <2>3
  <2>5. procStatus' = [procStatus EXCEPT ![p] = "cancelled"] /\ Converge(p[1], procStatus')
    BY <1>7, <2>4 DEF RecoverCancelling
  <2>6. /\ \A h \in Generations : h # p[1] =>
             \A s \in Steps : procStatus'[<<h, s>>] = procStatus[<<h, s>>]
        /\ \A s \in Steps : procStatus'[<<p[1], s>>] =
             IF s = p[2] THEN "cancelled" ELSE procStatus[<<p[1], s>>]
    BY <1>5, <2>5, OneRow
  <2>7. \A s \in Steps : procStatus'[<<p[1], s>>] \notin {"claimed", "running"} BY <2>2, <2>6
  <2> QED BY <1>1, <1>2, <1>4, <1>6, <2>1, <2>5, <2>6, <2>7, ConvergeStep
<1>8. CASE RecoverFailing(p)
  <2>1. /\ procStatus' = [procStatus EXCEPT ![p] = "failed"] /\ Terminalize(p[1], "failed")
        /\ execStatus[p[1]] # "cancelling"
    BY <1>8 DEF RecoverFailing, FailAndRoute
  <2> QED BY <1>1, <1>2, <1>3, <2>1, EndStep
<1>9. CASE RecoverReplaying(p)
  <2>1. /\ procStatus[p] \in Live /\ "ready" \in Live /\ execStatus[p[1]] # "cancelling"
        /\ procStatus' = [procStatus EXCEPT ![p] = "ready"]
        /\ UNCHANGED <<execStatus, waitingRef, currentProcess, summary, taskRoot, taskStatus>>
    BY <1>3, <1>9 DEF RecoverReplaying, Live, execVars, taskVars
  <2>2. execStatus'[p[1]] \in {"ready", "running"} BY <1>3, <2>1, CurrentIs
  <2> QED BY <1>1, <1>2, <2>1, <2>2, LiveStep
<1> QED BY <1>7, <1>8, <1>9 DEF Recover

\* Handling a message touches no other message.
LEMMA HandledAdvances ==
  ASSUME LifeInv, NEW m \in Messages, Handled(m)
  PROVE  /\ OutboxAdvance
         /\ \A n \in Messages : n # m => outbox'[n] = outbox[n]
         /\ \A h \in Generations : <<"wake", h>> \in Messages
BY DEF LifeInv, Inv, TypeOK, OutboxRowsOK, Handled, OutboxAdvance, Messages, WakeKinds

\* materialize_root on a wake: the first Process, convergence, or nothing.
LEMMA WakeLife ==
  ASSUME LifeInv, Inv', NEW k \in WakeKinds, NEW g \in Generations, DeliverWake(k, g)
  PROVE  LifeInv' /\ ExecFinal
<1>1. <<k, g>> \in Messages /\ Handled(<<k, g>>) BY DEF DeliverWake, Messages
<1>2. OutboxAdvance BY <1>1, HandledAdvances
<1>3. \A h \in Generations : h # g => outbox'[<<"wake", h>>] = outbox[<<"wake", h>>]
  <2>1. \A h \in Generations : h # g => <<"wake", h>> # <<k, g>> OBVIOUS
  <2> QED BY <1>1, <2>1, HandledAdvances
<1>4. eligible' = eligible /\ worker' = worker BY DEF DeliverWake
<1>5. FallbackOK' BY <1>4 DEF LifeInv, FallbackOK
<1>6. CASE execStatus[g] \in {"ready", "running"} /\ Materialize(<<g, 1>>)
  <2>1. 1 \in Steps /\ <<g, 1>> \in Processes /\ <<g, 1>>[1] = g /\ <<g, 1>>[2] = 1
    BY FirstValues, ProcessPairs
  <2>2. CASE procStatus[<<g, 1>>] # "absent"
    <3>1. UNCHANGED <<taskStatus, taskRoot, execVars, procStatus>>
      BY <1>6, <2>2 DEF Materialize, taskVars
    <3>2. ~Blank(g) BY <2>1, <2>2 DEF Blank
    <3> QED BY <1>2, <1>3, <1>4, <1>5, <3>1, <3>2, CalmStep
  <2>3. CASE procStatus[<<g, 1>>] = "absent"
    <3>1. /\ procStatus' = [procStatus EXCEPT ![<<g, 1>>] = "ready"]
          /\ execStatus' = [execStatus EXCEPT ![g] = "ready"]
          /\ waitingRef' = [waitingRef EXCEPT ![g] = 0]
          /\ currentProcess' = [currentProcess EXCEPT ![g] = 1]
          /\ UNCHANGED <<summary, taskStatus, taskRoot, eligible>>
      BY <1>4, <1>6, <2>1, <2>3 DEF Materialize, taskVars
    <3>2. TypeOK BY DEF LifeInv, Inv
    <3>3. /\ \A h \in Generations : h # g =>
               \A s \in Steps : procStatus'[<<h, s>>] = procStatus[<<h, s>>]
          /\ procStatus'[<<g, 1>>] = "ready"
          /\ \A q \in Processes : q # <<g, 1>> => procStatus'[q] = procStatus[q]
      BY <2>1, <3>1, <3>2, OneRow
    <3>4. \A q \in Processes : procStatus'[q] = "running" => procStatus[q] = "running" BY <3>3
    <3> QED BY <1>2, <1>3, <1>5, <1>6, <2>1, <3>1, <3>3, <3>4, OpenStep
  <2> QED BY <2>2, <2>3
<1>7. CASE execStatus[g] = "cancelling" /\ Converge(g, procStatus) /\ UNCHANGED procStatus
  <2>1. \A s \in Steps : procStatus'[<<g, s>>] \notin {"claimed", "running"}
    BY <1>7 DEF LifeInv, ExecutionOK
  <2>2. Converge(g, procStatus') BY <1>7
  <2> QED BY <1>2, <1>3, <1>4, <1>5, <1>7, <2>1, <2>2, ConvergeStep
<1>8. CASE execStatus[g] \in Terminal \cup {"waiting"} /\ UNCHANGED <<procStatus, execVars, taskVars>>
  <2>1. UNCHANGED <<taskStatus, taskRoot, execVars, procStatus>> BY <1>8 DEF taskVars
  <2>2. execStatus[g] \notin {"ready", "running"} BY <1>8 DEF Terminal
  <2> QED BY <1>2, <1>3, <1>4, <1>5, <2>1, <2>2, CalmStep
<1> QED BY <1>6, <1>7, <1>8 DEF DeliverWake

\* Fencing the rows of cancelled roots leaves none of them claimed or running.
LEMMA FencedRows ==
  ASSUME LifeInv, NEW roots, FenceProcesses(roots)
  PROVE  \A g \in Generations : \A s \in Steps :
           /\ g \notin roots => procStatus'[<<g, s>>] = procStatus[<<g, s>>]
           /\ g \in roots => procStatus'[<<g, s>>] \notin {"claimed", "running"}
<1> SUFFICES ASSUME NEW g \in Generations, NEW s \in Steps
             PROVE  /\ g \notin roots => procStatus'[<<g, s>>] = procStatus[<<g, s>>]
                    /\ g \in roots => procStatus'[<<g, s>>] \notin {"claimed", "running"}
  OBVIOUS
<1>1. <<g, s>> \in Processes /\ <<g, s>>[1] = g BY ProcessPairs
<1>2. procStatus'[<<g, s>>] = IF g \in roots THEN FencedStatus(<<g, s>>) ELSE procStatus[<<g, s>>]
  BY <1>1 DEF FenceProcesses
<1>3. FencedStatus(<<g, s>>) \notin {"claimed", "running"} BY DEF FencedStatus
<1> QED BY <1>2, <1>3

\* request_cancellation on a cancel message: only a cancelling root is fenced.
LEMMA CancelLife ==
  ASSUME LifeInv, Inv', NEW g \in Generations, DeliverCancel(g)
  PROVE  LifeInv' /\ ExecFinal
<1>1. <<"cancel", g>> \in Messages /\ Handled(<<"cancel", g>>) BY DEF DeliverCancel, Messages
<1>2. OutboxAdvance BY <1>1, HandledAdvances
<1>3. \A h \in Generations : outbox'[<<"wake", h>>] = outbox[<<"wake", h>>]
  <2>1. \A h \in Generations : <<"wake", h>> # <<"cancel", g>> OBVIOUS
  <2> QED BY <1>1, <2>1, HandledAdvances
<1>4. eligible' = eligible /\ worker' = worker BY DEF DeliverCancel
<1>5. FallbackOK' BY <1>4 DEF LifeInv, FallbackOK
<1>6. outbox[<<"cancel", g>>] # "absent" BY <1>1 DEF Handled, Undelivered
<1>7. execStatus[g] \in Terminal \cup {"cancelling"} BY <1>6 DEF LifeInv, MessagesOK
<1>8. CASE UNCHANGED <<procStatus, fencing, execVars, taskVars>>
  <2>1. UNCHANGED <<taskStatus, taskRoot, execVars, procStatus>> BY <1>8 DEF taskVars
  <2> QED BY <1>2, <1>3, <1>4, <1>5, <2>1, CalmStep
<1>9. CASE execStatus[g] \notin Terminal /\ CancelTree(g)
  <2>1. execStatus[g] = "cancelling" BY <1>7, <1>9
  <2>2. FenceProcesses({g}) BY <1>9 DEF CancelTree
  <2>3. /\ \A s \in Steps : procStatus'[<<g, s>>] \notin {"claimed", "running"}
        /\ \A h \in Generations : h # g => \A s \in Steps : procStatus'[<<h, s>>] = procStatus[<<h, s>>]
    BY <2>2, FencedRows
  <2>4. execStatus \in [Generations -> ExecutionStatus] BY DEF LifeInv, Inv, TypeOK, ExecutionRowsOK
  <2>5. [execStatus EXCEPT ![g] = "cancelling"] = execStatus BY <2>1, <2>4
  <2>6. Converge(g, procStatus') BY <1>9, <2>1, <2>5 DEF CancelTree, Converge, execVars
  <2> QED BY <1>2, <1>3, <1>4, <1>5, <2>1, <2>3, <2>6, ConvergeStep
<1> QED BY <1>8, <1>9 DEF DeliverCancel

\* TaskService.cancel: Task, root and leased Processes turn cancelling at once.
LEMMA TaskCancelLife ==
  ASSUME LifeInv, Inv', TaskCancel
  PROVE  LifeInv' /\ ExecFinal
<1> DEFINE r == taskRoot
<1>1. r \in Generations /\ taskStatus \in TaskStatus BY DEF LifeInv, Inv, TypeOK, TaskRowOK
<1>2. execStatus[r] \in {"ready", "running", "waiting", "cancelling"}
  BY <1>1 DEF TaskCancel, TaskStatus, LifeInv, TaskOK
<1>3. execStatus \in [Generations -> ExecutionStatus] /\ outbox \in [Messages -> {"absent", "pending", "in_flight", "done", "dead"}]
  BY DEF LifeInv, Inv, TypeOK, ExecutionRowsOK, OutboxRowsOK
<1>4. /\ execStatus' = [execStatus EXCEPT ![r] = "cancelling"]
      /\ outbox' = [outbox EXCEPT ![<<"cancel", r>>] = "pending"]
      /\ taskStatus' = "cancelling"
      /\ UNCHANGED <<taskRoot, waitingRef, currentProcess, summary, eligible, worker>>
  BY <1>2 DEF TaskCancel, Terminal
<1>5. \A q \in Processes : procStatus'[q] = IF q[1] = r /\ procStatus[q] \in {"claimed", "running"}
                                           THEN "cancelling" ELSE procStatus[q]
  BY DEF TaskCancel
<1> HIDE DEF r
<1>6. execStatus'[r] = "cancelling" /\ \A h \in Generations : h # r => execStatus'[h] = execStatus[h]
  BY <1>1, <1>3, <1>4
<1>7. \A m \in Messages : m[2] # r => outbox'[m] = outbox[m]
  BY <1>3, <1>4
<1>8. \A h \in Generations : /\ <<"wake", h>> \in Messages /\ outbox'[<<"wake", h>>] = outbox[<<"wake", h>>]
                             /\ <<"cancel", h>> \in Messages /\ <<"cancel", h>>[2] = h
  BY <1>3, <1>4 DEF Messages, WakeKinds
<1>9. ASSUME NEW h \in Generations PROVE ExecutionOK(h)'
  <2>1. CASE h = r
    <3>1. \A s \in Steps : procStatus'[<<h, s>>] \notin {"claimed", "running"}
      <4> SUFFICES ASSUME NEW s \in Steps PROVE procStatus'[<<h, s>>] \notin {"claimed", "running"}
        OBVIOUS
      <4>1. <<h, s>> \in Processes /\ <<h, s>>[1] = h BY ProcessPairs
      <4> QED BY <1>5, <2>1, <4>1
    <3>2. h \notin summary BY <1>2, <2>1 DEF LifeInv, ExecutionOK, Terminal
    <3> QED BY <1>4, <1>6, <2>1, <3>1, <3>2 DEF ExecutionOK, Terminal
  <2>2. CASE h # r
    <3>1. \A s \in Steps : procStatus'[<<h, s>>] = procStatus[<<h, s>>]
      <4> SUFFICES ASSUME NEW s \in Steps PROVE procStatus'[<<h, s>>] = procStatus[<<h, s>>]
        OBVIOUS
      <4>1. <<h, s>> \in Processes /\ <<h, s>>[1] = h BY ProcessPairs
      <4> QED BY <1>5, <2>2, <4>1
    <3>2. Same(h) BY <1>4, <1>6, <1>8, <2>2, <3>1 DEF Same
    <3> QED BY <3>2, SameKeeps DEF LifeInv
  <2> QED BY <2>1, <2>2
<1>10. ASSUME NEW h \in Generations PROVE MessagesOK(h)'
  <2>1. CASE h = r BY <1>6, <2>1 DEF MessagesOK
  <2>2. CASE h # r
    <3>1. outbox'[<<"cancel", h>>] = outbox[<<"cancel", h>>] BY <1>7, <1>8, <2>2
    <3> QED BY <1>6, <1>7, <2>2, <3>1 DEF LifeInv, MessagesOK
  <2> QED BY <2>1, <2>2
<1>11. CleanupOK'
  <2> SUFFICES ASSUME NEW p \in eligible
               PROVE  /\ execStatus'[p[1]] \in Terminal
                      /\ \A m \in Messages : m[2] = p[1] => outbox'[m] \notin Undelivered
    BY <1>4 DEF CleanupOK
  <2>1. p[1] \in Generations BY ProcessPairs DEF LifeInv, Inv, TypeOK, ProcessRowsOK
  <2>2. execStatus[p[1]] \in Terminal BY DEF LifeInv, CleanupOK
  <2>3. p[1] # r BY <1>2, <2>2 DEF Terminal
  <2> QED BY <1>6, <1>7, <2>1, <2>2, <2>3 DEF LifeInv, CleanupOK
<1>12. ExecAdvance BY <1>2, <1>6 DEF ExecAdvance, ExecFinal, Terminal
<1>13. RootOK' BY <1>4, <1>6 DEF RootOK, r
<1>14. TaskOK' BY <1>4, <1>12, <1>13, TaskKept
<1>15. RunningOK' BY <1>5 DEF LifeInv, RunningOK, r
<1>16. FallbackOK' BY <1>4 DEF LifeInv, FallbackOK
<1> QED BY <1>9, <1>10, <1>11, <1>12, <1>14, <1>15, <1>16 DEF LifeInv, ExecAdvance

\* TaskService.retry: the next generation appears with its first wake.
LEMMA TaskRetryLife ==
  ASSUME LifeInv, Inv', TaskRetry
  PROVE  LifeInv' /\ ExecFinal
<1> DEFINE n == taskRoot + 1
<1>1. taskRoot \in Generations BY DEF LifeInv, Inv, TypeOK, TaskRowOK
<1>2. /\ n \in Generations /\ n > taskRoot
      /\ \A g \in Generations : g < n <=> g < taskRoot \/ g = taskRoot
      /\ \A g \in Generations : g > n => g > taskRoot
  BY <1>1, GenerationAssumption DEF TaskRetry, Generations
<1>3. execStatus \in [Generations -> ExecutionStatus]
      /\ outbox \in [Messages -> {"absent", "pending", "in_flight", "done", "dead"}]
  BY DEF LifeInv, Inv, TypeOK, ExecutionRowsOK, OutboxRowsOK
<1>4. /\ execStatus' = [execStatus EXCEPT ![n] = "ready"]
      /\ outbox' = [outbox EXCEPT ![<<"wake", n>>] = "pending"]
      /\ taskStatus \in {"failed", "cancelled"} /\ taskStatus' = "queued" /\ taskRoot' = n
      /\ UNCHANGED <<waitingRef, currentProcess, summary, procStatus, eligible, worker>>
  BY DEF TaskRetry, procVars
<1> HIDE DEF n
<1>5. execStatus[n] = "absent" BY <1>2 DEF LifeInv, TaskOK
<1>6. execStatus'[n] = "ready" /\ \A h \in Generations : h # n => execStatus'[h] = execStatus[h]
  BY <1>2, <1>3, <1>4
<1>7. <<"wake", n>> \in Messages /\ outbox'[<<"wake", n>>] = "pending"
  BY <1>2, <1>3, <1>4 DEF Messages, WakeKinds
<1>8. \A m \in Messages : m[2] # n => outbox'[m] = outbox[m] BY <1>3, <1>4
<1>9. \A h \in Generations : /\ <<"wake", h>> \in Messages /\ <<"wake", h>>[2] = h
                             /\ <<"cancel", h>> \in Messages /\ <<"cancel", h>>[2] = h
                             /\ outbox'[<<"cancel", h>>] = outbox[<<"cancel", h>>]
  BY <1>3, <1>4 DEF Messages, WakeKinds
<1>10. ASSUME NEW h \in Generations PROVE ExecutionOK(h)'
  <2>1. CASE h = n
    <3>1. Blank(h) /\ currentProcess[h] = 0 /\ h \notin summary
      BY <1>2, <1>5, <2>1 DEF LifeInv, ExecutionOK, Terminal
    <3>2. Open(h)' BY <1>4, <1>7, <2>1, <3>1 DEF Open, Blank
    <3> QED BY <1>4, <1>6, <2>1, <3>1, <3>2 DEF ExecutionOK, Terminal
  <2>2. CASE h # n
    <3>1. Same(h) BY <1>4, <1>6, <1>8, <1>9, <2>2 DEF Same
    <3> QED BY <3>1, SameKeeps DEF LifeInv
  <2> QED BY <2>1, <2>2
<1>11. ASSUME NEW h \in Generations PROVE MessagesOK(h)'
  <2>1. CASE h = n
    <3>1. MessagesOK(n) BY <1>2 DEF LifeInv
    <3>2. <<"cancel", n>> \in Messages /\ <<"cancel", n>>[2] = n BY <1>2, <1>9
    <3>3. outbox[<<"cancel", n>>] = "absent" BY <1>5, <3>1, <3>2 DEF MessagesOK
    <3>4. outbox'[<<"cancel", n>>] = "absent" BY <1>2, <1>9, <3>3
    <3> QED BY <1>6, <2>1, <3>4 DEF MessagesOK
  <2>2. CASE h # n BY <1>6, <1>8, <1>9, <2>2 DEF LifeInv, MessagesOK
  <2> QED BY <2>1, <2>2
<1>12. CleanupOK'
  <2> SUFFICES ASSUME NEW p \in eligible
               PROVE  /\ execStatus'[p[1]] \in Terminal
                      /\ \A m \in Messages : m[2] = p[1] => outbox'[m] \notin Undelivered
    BY <1>4 DEF CleanupOK
  <2>1. p[1] \in Generations BY ProcessPairs DEF LifeInv, Inv, TypeOK, ProcessRowsOK
  <2>2. execStatus[p[1]] \in Terminal BY DEF LifeInv, CleanupOK
  <2>3. p[1] # n BY <1>5, <2>2 DEF Terminal
  <2> QED BY <1>6, <1>8, <2>1, <2>2, <2>3 DEF LifeInv, CleanupOK
<1>13. TaskOK'
  <2>1. execStatus[taskRoot] \in {"failed", "cancelled"} BY <1>4 DEF LifeInv, TaskOK, Terminal
  <2>2. \A g \in Generations : g < n => execStatus'[g] \in {"failed", "cancelled"}
    BY <1>2, <1>5, <1>6, <2>1 DEF LifeInv, TaskOK
  <2>3. \A g \in Generations : g > n => execStatus'[g] = "absent"
    BY <1>2, <1>6 DEF LifeInv, TaskOK, Generations
  <2> QED BY <1>4, <1>6, <2>2, <2>3 DEF TaskOK, Terminal
<1>14. RunningOK' BY <1>4 DEF LifeInv, RunningOK
<1>15. FallbackOK' BY <1>4 DEF LifeInv, FallbackOK
<1>16. ExecFinal BY <1>5, <1>6 DEF ExecFinal, Terminal
<1> QED BY <1>10, <1>11, <1>12, <1>13, <1>14, <1>15, <1>16 DEF LifeInv

\* The scan of repair_once: it condemns nothing, closes only a cancelling root
\* whose Processes are closed, and sends wakes only to ready Executions.
LEMMA RepairLife ==
  ASSUME LifeInv, Inv', RepairScan
  PROVE  LifeInv' /\ ExecFinal
<1> DEFINE cancelling == {g \in Generations : execStatus[g] = "cancelling"}
           converged == {g \in cancelling : Quiescent(g, procStatus')}
<1>1. \A g \in Generations : execStatus[g] = "waiting" => RetryTriggered(g)
  BY DEF LifeInv, ExecutionOK, Parked, RetryTriggered
<1>2. FenceProcesses(cancelling) BY DEF RepairScan
<1>3. \A g \in Generations : \A s \in Steps :
        /\ g \notin cancelling => procStatus'[<<g, s>>] = procStatus[<<g, s>>]
        /\ g \in cancelling => procStatus'[<<g, s>>] \notin {"claimed", "running"}
  BY <1>2, FencedRows
<1>4. \A g \in Generations : execStatus'[g] = IF g \in converged THEN "cancelled" ELSE execStatus[g]
  BY <1>1 DEF RepairScan
<1>5. summary' = summary \cup converged BY <1>1 DEF RepairScan
<1>6. \A g \in Generations :
        /\ waitingRef'[g] = IF g \in converged THEN 0 ELSE waitingRef[g]
        /\ currentProcess'[g] = IF execStatus'[g] \in Terminal THEN 0 ELSE currentProcess[g]
  BY DEF RepairScan
<1>7. taskStatus' = IF execStatus'[taskRoot] \in Terminal
                    THEN ProjectedTask(taskRoot, execStatus'[taskRoot]) ELSE taskStatus
  BY DEF RepairScan
<1>8. taskRoot' = taskRoot /\ worker' = worker BY DEF RepairScan
<1>9. \A m \in Messages : \/ outbox'[m] = outbox[m]
                          \/ m[1] = "repair_wake" /\ m[2] \in Generations /\ execStatus[m[2]] = "ready"
  BY DEF RepairScan
<1>10. \A p \in eligible' : \/ p \in eligible
                            \/ p \in Processes /\ CleanupEligible(p)
  BY DEF RepairScan
<1>11. \A g \in Generations : /\ <<"wake", g>> \in Messages /\ outbox'[<<"wake", g>>] = outbox[<<"wake", g>>]
                              /\ <<"cancel", g>> \in Messages /\ outbox'[<<"cancel", g>>] = outbox[<<"cancel", g>>]
  BY <1>9 DEF Messages, WakeKinds
<1>12. taskRoot \in Generations /\ taskStatus \in TaskStatus BY DEF LifeInv, Inv, TypeOK, TaskRowOK
<1>13. \A g \in Generations : execStatus[g] = "cancelling" => g = taskRoot /\ taskStatus = "cancelling"
  BY AtRoot DEF Terminal
<1>14. \A g \in Generations : g \in cancelling <=> execStatus[g] = "cancelling" OBVIOUS
<1>15. \A g \in Generations : g \in converged <=> execStatus[g] = "cancelling" /\ Quiescent(g, procStatus')
  OBVIOUS
<1> HIDE DEF cancelling, converged
<1>16. ExecAdvance BY <1>4, <1>15 DEF ExecAdvance, ExecFinal, Terminal
<1>17. RootOK'
  <2>1. CASE taskRoot \in converged
    <3>1. taskStatus = "cancelling" /\ execStatus'[taskRoot] = "cancelled" BY <1>4, <1>12, <1>13, <1>15, <2>1
    <3>2. taskStatus' = "cancelled" BY <1>7, <3>1 DEF Terminal, ProjectedTask, Projections
    <3> QED BY <1>8, <3>1, <3>2 DEF RootOK, Terminal
  <2>2. CASE taskRoot \notin converged
    <3>1. execStatus'[taskRoot] = execStatus[taskRoot] BY <1>4, <1>12, <2>2
    <3>2. taskStatus' = taskStatus
      <4>1. CASE execStatus[taskRoot] \in Terminal
        <5>1. taskStatus = execStatus[taskRoot]
          BY <1>12, <4>1 DEF LifeInv, TaskOK, TaskStatus, Terminal
        <5> QED BY <1>7, <3>1, <4>1, <5>1 DEF ProjectedTask
      <4>2. CASE execStatus[taskRoot] \notin Terminal BY <1>7, <3>1, <4>2
      <4> QED BY <4>1, <4>2
    <3> QED BY <1>8, <3>1, <3>2 DEF LifeInv, TaskOK, RootOK
  <2> QED BY <2>1, <2>2
<1>18. TaskOK' BY <1>8, <1>16, <1>17, TaskKept
<1>19. RunningOK'
  <2> SUFFICES ASSUME NEW p \in Processes, procStatus'[p] = "running"
               PROVE  p[1] = taskRoot /\ taskStatus' = "running"
    BY <1>8 DEF RunningOK
  <2>1. p[1] \in Generations /\ p[2] \in Steps /\ p = <<p[1], p[2]>> BY ProcessPairs
  <2>2. procStatus'[<<p[1], p[2]>>] = "running" BY <2>1
  <2>3. p[1] \notin cancelling /\ procStatus[<<p[1], p[2]>>] = "running" BY <1>3, <2>1, <2>2
  <2>4. p[1] = taskRoot /\ taskStatus = "running" BY <2>1, <2>3 DEF LifeInv, RunningOK
  <2>5. execStatus[taskRoot] \in {"ready", "running", "waiting"} BY <2>4 DEF LifeInv, TaskOK
  <2>6. execStatus'[taskRoot] \notin Terminal BY <1>4, <1>12, <1>15, <2>5 DEF Terminal
  <2> QED BY <1>7, <2>4, <2>6
<1>20. ASSUME NEW g \in Generations PROVE ExecutionOK(g)'
  <2>1. CASE g \in converged
    <3>1. Quiescent(g, procStatus') /\ execStatus'[g] = "cancelled" /\ g \in summary'
      BY <1>4, <1>5, <1>15, <2>1
    <3> QED BY <3>1 DEF ExecutionOK, Terminal
  <2>2. CASE g \in cancelling /\ g \notin converged
    <3>1. execStatus'[g] = "cancelling" BY <1>4, <1>14, <2>2
    <3>2. g \notin summary' BY <1>5, <1>14, <2>2 DEF LifeInv, ExecutionOK, Terminal
    <3> QED BY <1>3, <2>2, <3>1, <3>2 DEF ExecutionOK, Terminal
  <2>3. CASE g \notin cancelling
    <3>1. /\ execStatus'[g] = execStatus[g]
          /\ waitingRef'[g] = waitingRef[g]
          /\ g \in summary' <=> g \in summary
          /\ execStatus[g] \notin Terminal => currentProcess'[g] = currentProcess[g]
      BY <1>4, <1>5, <1>6, <1>14, <1>15, <2>3
    <3>2. \A s \in Steps : procStatus'[<<g, s>>] = procStatus[<<g, s>>] BY <1>3, <2>3
    <3>3. CASE execStatus[g] \notin Terminal
      <4>1. Same(g) BY <1>11, <3>1, <3>2, <3>3 DEF Same
      <4> QED BY <4>1, SameKeeps DEF LifeInv
    <3>4. CASE execStatus[g] \in Terminal
      <4>1. Quiescent(g, procStatus) /\ g \in summary BY <3>4 DEF LifeInv, ExecutionOK
      <4>2. Quiescent(g, procStatus') BY <3>2, <4>1 DEF Quiescent
      <4> QED BY <3>1, <3>4, <4>1, <4>2 DEF ExecutionOK, Terminal
    <3> QED BY <3>3, <3>4
  <2> QED BY <2>1, <2>2, <2>3
<1>21. ASSUME NEW g \in Generations PROVE MessagesOK(g)'
  <2>1. MessagesOK(g) BY DEF LifeInv
  <2>2. outbox'[<<"cancel", g>>] # "absent" => execStatus'[g] \in Terminal \cup {"cancelling"}
    BY <1>11, <1>16, <2>1 DEF MessagesOK, ExecAdvance, ExecFinal, Terminal
  <2>3. execStatus'[g] = "absent" => \A m \in Messages : m[2] = g => outbox'[m] = "absent"
    BY <1>9, <1>16, <2>1 DEF MessagesOK, ExecAdvance, ExecFinal
  <2> QED BY <2>2, <2>3 DEF MessagesOK
<1>22. CleanupOK'
  <2> SUFFICES ASSUME NEW p \in eligible'
               PROVE  /\ execStatus'[p[1]] \in Terminal
                      /\ \A m \in Messages : m[2] = p[1] => outbox'[m] \notin Undelivered
    BY DEF CleanupOK
  <2>1. CASE p \in Processes /\ CleanupEligible(p) BY <2>1 DEF CleanupEligible
  <2>2. CASE p \in eligible
    <3>1. p[1] \in Generations BY <2>2, ProcessPairs DEF LifeInv, Inv, TypeOK, ProcessRowsOK
    <3>2. execStatus[p[1]] \in Terminal /\ \A m \in Messages : m[2] = p[1] => outbox[m] \notin Undelivered
      BY <2>2 DEF LifeInv, CleanupOK
    <3>3. execStatus[p[1]] # "ready" BY <3>2 DEF Terminal
    <3> QED BY <1>9, <1>16, <3>1, <3>2, <3>3 DEF ExecAdvance, ExecFinal
  <2> QED BY <1>10, <2>1, <2>2
<1>23. FallbackOK' BY <1>8 DEF LifeInv, FallbackOK
<1> QED BY <1>16, <1>18, <1>19, <1>20, <1>21, <1>22, <1>23 DEF LifeInv, ExecAdvance

\* Every step keeps the invariant, and terminal and cancelling Executions keep
\* their course.
LEMMA LifeStep ==
  ASSUME LifeInv, [Next]_vars
  PROVE  LifeInv' /\ ExecFinal
<1>0. Inv' BY InvStep DEF LifeInv
<1> USE <1>0
<1> DEFINE Goal == LifeInv' /\ ExecFinal
<1>1. ASSUME NEW k \in WakeKinds, NEW g \in Generations, DeliverWake(k, g) PROVE Goal
  BY <1>1, WakeLife
<1>2. ASSUME NEW g \in Generations, DeliverCancel(g) PROVE Goal
  BY <1>2, CancelLife
<1>3. ASSUME NEW m \in Messages, CompleteOutbox(m) PROVE Goal
  <2>1. outbox \in [Messages -> {"absent", "pending", "in_flight", "done", "dead"}]
    BY DEF LifeInv, Inv, TypeOK, OutboxRowsOK
  <2>2. OutboxAdvance BY <1>3, <2>1 DEF CompleteOutbox, OutboxAdvance, Undelivered
  <2>3. \A h \in Generations : outbox[<<"wake", h>>] = "pending" => outbox'[<<"wake", h>>] = "pending"
    BY <1>3, <2>1 DEF CompleteOutbox, Messages, WakeKinds
  <2>4. UNCHANGED <<taskStatus, taskRoot, execVars, procStatus, eligible, worker>>
    BY <1>3 DEF CompleteOutbox, taskVars, procVars
  <2>5. FallbackOK' BY <2>4 DEF LifeInv, FallbackOK
  <2> QED BY <2>2, <2>3, <2>4, <2>5, CalmStep
<1>4. CASE TaskCancel BY <1>4, TaskCancelLife
<1>5. CASE TaskRetry BY <1>5, TaskRetryLife
<1>6. ASSUME UNCHANGED <<taskStatus, taskRoot, execVars, procStatus, outbox, eligible>>, FallbackOK'
      PROVE  Goal
  <2>1. OutboxAdvance BY <1>6 DEF OutboxAdvance
  <2> QED BY <1>6, <2>1, CalmStep
<1>7. CASE SoftDelete \/ DeadlinePasses \/ UNCHANGED vars
  <2>1. UNCHANGED <<taskStatus, taskRoot, execVars, procStatus, outbox, eligible, worker>>
    BY <1>7 DEF SoftDelete, DeadlinePasses, vars, taskVars, procVars
  <2>2. FallbackOK' BY <2>1 DEF LifeInv, FallbackOK
  <2> QED BY <1>6, <2>1, <2>2
<1>8. ASSUME NEW w \in Workers, NEW p \in Processes, Claim(w, p) PROVE Goal
  BY <1>8, ClaimLife
<1>9. ASSUME NEW w \in Workers, MarkRunning(w) PROVE Goal
  BY <1>9, StartLife
<1>10. ASSUME NEW w \in Workers, NEW outcome \in Outcomes,
              Finish(w, outcome) \/ OutcomeFenced(w) \/ OutcomeAborted(w) \/ Crash(w)
       PROVE  Goal
  <2>1. UNCHANGED <<taskStatus, taskRoot, execVars, procStatus, outbox, eligible>>
    BY <1>10 DEF Finish, OutcomeFenced, OutcomeAborted, Crash, taskVars, procVars
  <2>2. \/ worker' = [worker EXCEPT ![w] = Idle]
        \/ worker' = [worker EXCEPT ![w] = Moved(w, "submit", outcome)]
        \/ worker' = [worker EXCEPT ![w] = Moved(w, "fallback", "retryable")]
        \/ worker' = [worker EXCEPT ![w] = Moved(w, "fallback", "failed")]
    BY <1>10 DEF Finish, OutcomeFenced, OutcomeAborted, Crash
  <2>3. FallbackOK'
    BY <2>2 DEF LifeInv, FallbackOK, Inv, TypeOK, WorkersOK, Idle, Moved
  <2> QED BY <1>6, <2>1, <2>3
<1>11. ASSUME NEW w \in Workers, AcceptOutcome(w) PROVE Goal
  BY <1>11, AcceptLife
<1>12. ASSUME NEW p \in Processes, FailExpiredReady(p) PROVE Goal
  BY <1>12, ExpireLife
<1>13. ASSUME NEW p \in Processes, LeaseExpires(p) PROVE Goal
  <2>1. UNCHANGED <<taskStatus, taskRoot, execVars, procStatus, outbox, eligible, worker>>
    BY <1>13 DEF LeaseExpires, taskVars
  <2>2. FallbackOK' BY <2>1 DEF LifeInv, FallbackOK
  <2> QED BY <1>6, <2>1, <2>2
<1>14. ASSUME NEW p \in Processes, PromoteRetry(p) PROVE Goal
  BY <1>14, PromoteLife
<1>15. ASSUME NEW p \in Processes, Recover(p) PROVE Goal
  BY <1>15, RecoverLife
<1>16. CASE RepairScan BY <1>16, RepairLife
<1>17. "failed" \in Outcomes BY DEF Outcomes
<1> QED
  BY <1>1, <1>2, <1>3, <1>4, <1>5, <1>7, <1>8, <1>9, <1>10, <1>11, <1>12, <1>13, <1>14, <1>15,
     <1>16, <1>17 DEF Next

\* The initial state satisfies the invariant.
LEMMA LifeInit ==
  ASSUME Init
  PROVE  LifeInv
<1>1. Inv BY InvInit
<1>2. 1 \in Generations BY FirstValues
<1>3. ASSUME NEW g \in Generations PROVE ExecutionOK(g)
  <2>1. Blank(g) BY ProcessPairs DEF Init, Blank
  <2>2. currentProcess[g] = 0 /\ g \notin summary
        /\ execStatus[g] = IF g = 1 THEN "ready" ELSE "absent"
    BY DEF Init
  <2>3. <<"wake", g>> \in Messages BY DEF Messages, WakeKinds
  <2>4. g = 1 => outbox[<<"wake", g>>] = "pending" BY <2>3 DEF Init
  <2> QED BY <2>1, <2>2, <2>4 DEF ExecutionOK, Open, Terminal
<1>4. ASSUME NEW g \in Generations PROVE MessagesOK(g)
  <2>1. <<"cancel", g>> \in Messages /\ <<"cancel", g>> # <<"wake", 1>> BY DEF Messages
  <2>2. \A m \in Messages : m[2] = g /\ g # 1 => outbox[m] = "absent"
    BY DEF Init
  <2> QED BY <2>1, <2>2 DEF Init, MessagesOK
<1>5. CleanupOK BY DEF Init, CleanupOK
<1>6. TaskOK
  BY <1>2 DEF Init, TaskOK, Terminal, Generations
<1>7. RunningOK BY DEF Init, RunningOK
<1>8. FallbackOK BY DEF Init, FallbackOK, Idle
<1> QED BY <1>1, <1>3, <1>4, <1>5, <1>6, <1>7, <1>8 DEF LifeInv

\* The invariant of the life of Executions and of the Task holds throughout.
LEMMA LifeInvariant == Spec => []LifeInv
<1>1. Init => LifeInv BY LifeInit
<1>2. LifeInv /\ [Next]_vars => LifeInv' BY LifeStep
<1> QED BY <1>1, <1>2, PTL DEF Spec

-----------------------------------------------------------------------------
(* Invariants. *)

\* However wakes are lost, repeated or late, workers crash and leases lapse, a
\* nonterminal Execution keeps something that drives it on, and a terminal one
\* keeps no active Process.
THEOREM NothingStranded == Spec => []NotStranded
<1>1. ASSUME LifeInv PROVE NotStranded
  <2> SUFFICES ASSUME NEW g \in Generations
               PROVE  /\ execStatus[g] \in {"ready", "running"} =>
                           \/ \E s \in Steps : procStatus[<<g, s>>] \in {"ready", "claimed", "running"}
                           \/ \E k \in WakeKinds : outbox[<<k, g>>] = "pending"
                      /\ execStatus[g] = "waiting" => RetryTriggered(g)
                      /\ execStatus[g] \in Terminal \cup {"absent"} => Quiescent(g, procStatus)
    BY DEF NotStranded
  <2>1. ExecutionOK(g) BY <1>1 DEF LifeInv
  <2>2. Open(g) => \/ \E s \in Steps : procStatus[<<g, s>>] \in {"ready", "claimed", "running"}
                   \/ \E k \in WakeKinds : outbox[<<k, g>>] = "pending"
    BY DEF Open, Live, WakeKinds
  <2>3. Parked(g) => RetryTriggered(g) BY DEF Parked, RetryTriggered
  <2>4. Blank(g) => Quiescent(g, procStatus) BY DEF Blank, Quiescent, Active
  <2> QED BY <2>1, <2>2, <2>3, <2>4 DEF ExecutionOK
<1> QED BY <1>1, LifeInvariant, PTL

\* The current Process of an open Execution is never a closed one: every path
\* that closes a Process routes in the same transaction.
THEOREM NothingStalled == Spec => []NeverStalled
<1>1. ASSUME LifeInv PROVE NeverStalled
  <2> SUFFICES ASSUME NEW g \in Generations, NEW s \in Steps,
                      execStatus[g] \in {"ready", "running"}, currentProcess[g] = s
               PROVE  procStatus[<<g, s>>] \in {"ready", "claimed", "running"}
    BY DEF NeverStalled
  <2>1. Open(g) BY <1>1 DEF LifeInv, ExecutionOK
  <2>2. s # 0 BY DEF Steps
  <2> QED BY <2>1, <2>2 DEF Open, Live
<1> QED BY <1>1, LifeInvariant, PTL

\* The Task row agrees with its current root whatever stale message, worker or
\* scan writes last, and every earlier tree is closed and summarised.
THEOREM TaskProjectsRoot == Spec => []TaskMatchesRoot
<1>1. ASSUME LifeInv PROVE TaskMatchesRoot
  BY <1>1 DEF LifeInv, TaskOK, ExecutionOK, TaskMatchesRoot
<1> QED BY <1>1, LifeInvariant, PTL

\* What the scan of repair_once marks for cleanup stays out of reach of every
\* message: none is sent to a terminal Execution afterwards.
THEOREM CleanupQuiescent == Spec => []CleanupIsQuiescent
<1>1. ASSUME LifeInv PROVE CleanupIsQuiescent
  BY <1>1 DEF LifeInv, CleanupOK, CleanupIsQuiescent
<1> QED BY <1>1, LifeInvariant, PTL

-----------------------------------------------------------------------------
(* Action properties. *)

\* A business commit: an accepted success of the worker that holds the fence.
Committing(w) ==
  AcceptOutcome(w) /\ worker[w].outcome = "succeeded" /\ SucceedAndRoute(worker[w].proc)

\* A move of the Task row by projection, other than to success.
Projecting ==
  \/ taskStatus' = taskStatus
  \/ \E target \in {"running", "failed", "cancelled"} :
       <<taskStatus, target>> \in Projections /\ taskStatus' = target

\* Projecting a status other than success is such a move.
LEMMA ProjectionMoves ==
  ASSUME NEW g, NEW target \in {"running", "failed", "cancelled"},
         taskStatus' = ProjectedTask(g, target)
  PROVE  Projecting
BY DEF ProjectedTask, Projecting

\* So is terminalizing an Execution without success.
LEMMA TerminalizeMoves ==
  ASSUME NEW g, NEW status \in {"failed", "cancelled"}, Terminalize(g, status)
  PROVE  taskRoot' = taskRoot /\ Projecting
<1>1. CASE execStatus[g] \in Terminal BY <1>1 DEF Terminalize, taskVars, Projecting
<1>2. CASE execStatus[g] \notin Terminal BY <1>2, ProjectionMoves DEF Terminalize
<1> QED BY <1>1, <1>2

\* And convergence.
LEMMA ConvergeMoves ==
  ASSUME NEW g, NEW ps, Converge(g, ps)
  PROVE  taskRoot' = taskRoot /\ Projecting
<1>1. CASE UNCHANGED taskVars BY <1>1 DEF taskVars, Projecting
<1>2. CASE Terminalize(g, "cancelled") BY <1>2, TerminalizeMoves
<1> QED BY <1>1, <1>2 DEF Converge

\* Every step is a commit, a cancellation, a retry, or moves the Task row only
\* by projection and commits nothing.
LEMMA StepKinds ==
  ASSUME LifeInv, [Next]_vars
  PROVE  \/ \E w \in Workers : Committing(w)
         \/ TaskCancel
         \/ TaskRetry
         \/ taskRoot' = taskRoot /\ commits' = commits /\ Projecting
<1> DEFINE Quiet == taskRoot' = taskRoot /\ commits' = commits /\ Projecting
<1>1. ASSUME NEW k \in WakeKinds, NEW g \in Generations, DeliverWake(k, g) PROVE Quiet
  <2>1. commits' = commits BY <1>1 DEF DeliverWake
  <2>2. CASE UNCHANGED taskVars BY <2>1, <2>2 DEF taskVars, Projecting
  <2>3. CASE Converge(g, procStatus) BY <2>1, <2>3, ConvergeMoves
  <2>4. Materialize(<<g, 1>>) => UNCHANGED taskVars BY DEF Materialize, taskVars
  <2> QED BY <1>1, <2>2, <2>3, <2>4 DEF DeliverWake, taskVars
<1>2. ASSUME NEW g \in Generations, DeliverCancel(g) PROVE Quiet
  <2>1. commits' = commits BY <1>2 DEF DeliverCancel
  <2>2. CASE UNCHANGED taskVars BY <2>1, <2>2 DEF taskVars, Projecting
  <2>3. CASE Terminalize(g, "cancelled") BY <2>1, <2>3, TerminalizeMoves
  <2>4. CancelTree(g) => Terminalize(g, "cancelled") \/ UNCHANGED taskVars
    BY DEF CancelTree, taskVars
  <2> QED BY <1>2, <2>2, <2>3, <2>4 DEF DeliverCancel, taskVars
<1>3. ASSUME NEW m \in Messages, CompleteOutbox(m) PROVE Quiet
  BY <1>3 DEF CompleteOutbox, taskVars, Projecting
<1>4. ASSUME SoftDelete \/ DeadlinePasses \/ UNCHANGED vars PROVE Quiet
  BY <1>4 DEF SoftDelete, DeadlinePasses, vars, taskVars, Projecting
<1>5. ASSUME NEW w \in Workers, NEW p \in Processes, Claim(w, p) PROVE Quiet
  BY <1>5 DEF Claim, taskVars, Projecting
<1>6. ASSUME NEW w \in Workers, MarkRunning(w) PROVE Quiet
  <2>1. taskRoot' = taskRoot /\ commits' = commits BY <1>6 DEF MarkRunning
  <2>2. taskStatus' = taskStatus \/ taskStatus' = ProjectedTask(worker[w].proc[1], "running")
    BY <1>6 DEF MarkRunning
  <2>3. CASE taskStatus' = taskStatus BY <2>1, <2>3 DEF Projecting
  <2>4. CASE taskStatus' = ProjectedTask(worker[w].proc[1], "running") BY <2>1, <2>4, ProjectionMoves
  <2> QED BY <2>2, <2>3, <2>4
<1>7. ASSUME NEW w \in Workers, NEW outcome \in Outcomes,
             Finish(w, outcome) \/ OutcomeFenced(w) \/ OutcomeAborted(w) \/ Crash(w)
      PROVE  Quiet
  BY <1>7 DEF Finish, OutcomeFenced, OutcomeAborted, Crash, taskVars, Projecting
<1>8. ASSUME NEW p, FailAndRoute(p) PROVE Quiet
  <2>1. Terminalize(p[1], "failed") /\ commits' = commits BY <1>8 DEF FailAndRoute
  <2> QED BY <2>1, TerminalizeMoves
<1>9. ASSUME NEW w \in Workers, AcceptOutcome(w) PROVE Committing(w) \/ Quiet
  <2> DEFINE p == worker[w].proc
  <2>1. \/ worker[w].outcome = "succeeded" /\ SucceedAndRoute(p)
        \/ RetryOrFail(p)
        \/ FailAndRoute(p)
    BY <1>9 DEF AcceptOutcome
  <2> HIDE DEF p
  <2>2. RetryOrFail(p) => FailAndRoute(p) \/ (UNCHANGED taskVars /\ commits' = commits)
    BY DEF RetryOrFail, taskVars
  <2>3. CASE UNCHANGED taskVars /\ commits' = commits BY <2>3 DEF taskVars, Projecting
  <2>4. CASE FailAndRoute(p) BY <1>8, <2>4
  <2>5. CASE worker[w].outcome = "succeeded" /\ SucceedAndRoute(p) BY <1>9, <2>5 DEF Committing, p
  <2> QED BY <2>1, <2>2, <2>3, <2>4, <2>5
<1>10. ASSUME NEW p \in Processes, FailExpiredReady(p) PROVE Quiet
  BY <1>8, <1>10 DEF FailExpiredReady
<1>11. ASSUME NEW p \in Processes, LeaseExpires(p) \/ PromoteRetry(p) PROVE Quiet
  BY <1>11 DEF LeaseExpires, PromoteRetry, taskVars, Projecting
<1>12. ASSUME NEW p \in Processes, Recover(p) PROVE Quiet
  <2>1. CASE RecoverCancelling(p)
    <3>1. Converge(p[1], procStatus') /\ commits' = commits BY <2>1 DEF RecoverCancelling
    <3> QED BY <3>1, ConvergeMoves
  <2>2. CASE RecoverFailing(p) BY <1>8, <2>2 DEF RecoverFailing
  <2>3. CASE RecoverReplaying(p) BY <2>3 DEF RecoverReplaying, taskVars, Projecting
  <2> QED BY <1>12, <2>1, <2>2, <2>3 DEF Recover
<1>13. ASSUME RepairScan PROVE Quiet
  <2>1. taskRoot' = taskRoot /\ commits' = commits BY <1>13 DEF RepairScan
  <2>2. taskRoot \in Generations /\ taskStatus \in TaskStatus BY DEF LifeInv, Inv, TypeOK, TaskRowOK
  <2>3. execStatus'[taskRoot] \in {"cancelled", "failed", execStatus[taskRoot]}
    BY <1>13, <2>2 DEF RepairScan
  <2>4. execStatus[taskRoot] = "succeeded" => taskStatus = "succeeded"
    BY <2>2 DEF LifeInv, TaskOK, TaskStatus, Terminal
  <2>5. taskStatus' = IF execStatus'[taskRoot] \in Terminal
                      THEN ProjectedTask(taskRoot, execStatus'[taskRoot]) ELSE taskStatus
    BY <1>13 DEF RepairScan
  <2>6. CASE taskStatus' = taskStatus BY <2>1, <2>6 DEF Projecting
  <2>7. CASE execStatus'[taskRoot] \in {"failed", "cancelled"}
             /\ taskStatus' = ProjectedTask(taskRoot, execStatus'[taskRoot])
    BY <2>1, <2>7, ProjectionMoves
  <2>8. CASE execStatus'[taskRoot] = "succeeded"
    BY <2>1, <2>3, <2>4, <2>5, <2>8 DEF Projecting, ProjectedTask
  <2> QED BY <2>3, <2>5, <2>6, <2>7, <2>8 DEF Terminal
<1>14. "failed" \in Outcomes BY DEF Outcomes
<1> HIDE DEF Quiet
<1>15. ASSUME \A w \in Workers : ~Committing(w), ~TaskCancel, ~TaskRetry PROVE Quiet
  <2>1. ASSUME NEW w \in Workers, AcceptOutcome(w) PROVE Quiet BY <1>9, <1>15, <2>1
  <2> QED BY <1>1, <1>2, <1>3, <1>4, <1>5, <1>6, <1>7, <1>10, <1>11, <1>12, <1>13, <1>14, <1>15,
             <2>1 DEF Next
<1> QED BY <1>15 DEF Quiet

\* What a commit finds: the owner of the lease under the current fence, at its
\* first submission, under the running Task's current generation.
LEMMA CommitFinds ==
  ASSUME LifeInv, NEW w \in Workers, Committing(w)
  PROVE  LET p == worker[w].proc
         IN /\ p \in Processes /\ p[1] \in Generations /\ p[2] \in Steps /\ p = <<p[1], p[2]>>
            /\ procStatus[p] = "running" /\ execStatus[p[1]] # "cancelling"
            /\ worker[w].fence = fencing[p] /\ leaseOwner[p] = w /\ worker[w].pc = "submit"
            /\ p[1] = taskRoot /\ taskStatus = "running"
            /\ commits' = [commits EXCEPT ![p] = @ + 1]
<1> DEFINE p == worker[w].proc
<1>1. p \in Processes BY DEF LifeInv, Inv, TypeOK, WorkersOK
<1>2. p[1] \in Generations /\ p[2] \in Steps /\ p = <<p[1], p[2]>> BY <1>1, ProcessPairs
<1>3. procStatus[p] = "running" /\ worker[w].fence = fencing[p] /\ execStatus[p[1]] # "cancelling"
  BY DEF Committing, AcceptOutcome, FenceHolds
<1>4. worker[w].pc = "submit"
  BY DEF Committing, AcceptOutcome, Submitting, LifeInv, FallbackOK
<1>5. leaseOwner[p] = w BY <1>3, <1>4 DEF LifeInv, Inv, FenceOwnership
<1>6. p[1] = taskRoot /\ taskStatus = "running" BY <1>1, <1>3 DEF LifeInv, RunningOK
<1>7. commits' = [commits EXCEPT ![p] = @ + 1] BY DEF Committing, SucceedAndRoute
<1> QED BY <1>1, <1>2, <1>3, <1>4, <1>5, <1>6, <1>7

\* accept_outcome runs the committer only for the worker that the lease names,
\* under its current fence and the running Task's current generation.
THEOREM CommitsByOwner == Spec => CommitByOwner
<1>1. ASSUME LifeInv, [Next]_vars
      PROVE  [\A p \in Processes : commits'[p] # commits[p] =>
                /\ \E w \in Workers : /\ leaseOwner[p] = w /\ worker[w].proc = p
                                       /\ worker[w].fence = fencing[p] /\ worker[w].pc = "submit"
                /\ p[1] = taskRoot /\ taskStatus = "running"]_vars
  <2> SUFFICES ASSUME NEW p \in Processes, commits'[p] # commits[p]
               PROVE  /\ \E w \in Workers : /\ leaseOwner[p] = w /\ worker[w].proc = p
                                            /\ worker[w].fence = fencing[p] /\ worker[w].pc = "submit"
                      /\ p[1] = taskRoot /\ taskStatus = "running"
    OBVIOUS
  <2>1. commits' # commits OBVIOUS
  <2>2. ~TaskCancel /\ ~TaskRetry BY <2>1 DEF TaskCancel, TaskRetry
  <2>3. PICK w \in Workers : Committing(w) BY <1>1, <2>1, <2>2, StepKinds
  <2>4. commits \in [Processes -> Nat] BY <1>1 DEF LifeInv, Inv, TypeOK, ProcessRowsOK
  <2>5. worker[w].proc \in Processes /\ commits' = [commits EXCEPT ![worker[w].proc] = @ + 1]
    BY <1>1, <2>3, CommitFinds
  <2>6. p = worker[w].proc BY <2>4, <2>5
  <2> QED BY <1>1, <2>3, <2>6, CommitFinds
<1> QED BY <1>1, LifeInvariant, PTL DEF Spec, CommitByOwner

\* Once TaskService.cancel has committed, the Task only ever becomes cancelled,
\* and no worker that still runs or submits commits a result.
THEOREM CancellationFinal == Spec => CancelIsFinal
<1>1. ASSUME LifeInv, [Next]_vars
      PROVE  [taskStatus = "cancelling" => /\ taskStatus' \in {"cancelling", "cancelled"}
                                           /\ commits' = commits]_vars
  <2> SUFFICES ASSUME taskStatus = "cancelling"
               PROVE  taskStatus' \in {"cancelling", "cancelled"} /\ commits' = commits
    OBVIOUS
  <2>1. LifeInv' /\ ExecFinal BY <1>1, LifeStep
  <2>2. \A w \in Workers : ~Committing(w) BY <1>1, CommitFinds
  <2>3. ~TaskRetry BY DEF TaskRetry
  <2>4. CASE TaskCancel BY <2>4 DEF TaskCancel
  <2>5. CASE taskRoot' = taskRoot /\ commits' = commits /\ Projecting
    <3>1. taskStatus' \in {"cancelling", "cancelled", "failed"}
      BY <2>5 DEF Projecting, Projections
    <3>2. taskRoot \in Generations /\ execStatus[taskRoot] = "cancelling"
      BY <1>1 DEF LifeInv, Inv, TypeOK, TaskRowOK, TaskOK
    <3>3. execStatus'[taskRoot] \in {"cancelling", "cancelled"} BY <2>1, <3>2 DEF ExecFinal
    <3>4. taskStatus' = "failed" => execStatus'[taskRoot'] = "failed"
      BY <2>1 DEF LifeInv, TaskOK, Terminal
    <3> QED BY <2>5, <3>1, <3>3, <3>4
  <2> QED BY <1>1, <2>2, <2>3, <2>4, <2>5, StepKinds
<1> QED BY <1>1, LifeInvariant, PTL DEF Spec, CancelIsFinal

\* A step changes a Process row only while the row is active or its Execution
\* is not terminal.
LEMMA RowsFrozen ==
  ASSUME LifeInv, [Next]_vars, NEW q \in Processes, execStatus[q[1]] \in Terminal
  PROVE  procStatus'[q] = procStatus[q] /\ fencing'[q] = fencing[q]
<1> DEFINE Kept == procStatus'[q] = procStatus[q] /\ fencing'[q] = fencing[q]
<1>1. procStatus[q] \notin Active BY ActiveRow DEF Terminal
<1>2. /\ procStatus \in [Processes -> ProcessStatus] /\ fencing \in [Processes -> Nat]
      /\ \A w \in Workers : worker[w].proc \in Processes
  BY DEF LifeInv, Inv, TypeOK, ProcessRowsOK, WorkersOK
<1>3. procStatus[q] \notin {"ready", "claimed", "running", "retry_wait", "cancelling"}
  BY <1>1 DEF Active
<1>4. execStatus[q[1]] \notin {"ready", "running", "waiting", "cancelling", "absent"} BY DEF Terminal
<1>5. q[1] \in Generations BY ProcessPairs
<1>6. ASSUME UNCHANGED <<procStatus, fencing>> PROVE Kept BY <1>6
<1>7. ASSUME NEW roots, FenceProcesses(roots) PROVE Kept
  BY <1>2, <1>3, <1>7 DEF FenceProcesses, FencedStatus, FencedGeneration
<1>8. ASSUME NEW p \in Processes, procStatus[p] \in Active, NEW x,
             procStatus' = [procStatus EXCEPT ![p] = x],
             fencing' = fencing \/ fencing' = [fencing EXCEPT ![p] = @ + 1]
      PROVE  Kept
  <2>1. q # p BY <1>1, <1>8
  <2> QED BY <1>2, <1>8, <2>1
<1>9. ASSUME NEW k \in WakeKinds, NEW g \in Generations, DeliverWake(k, g) PROVE Kept
  <2>1. fencing' = fencing BY <1>9 DEF DeliverWake
  <2>2. CASE UNCHANGED procStatus BY <2>1, <2>2
  <2>3. CASE execStatus[g] \in {"ready", "running"} /\ Materialize(<<g, 1>>)
    <3>1. <<g, 1>> # q BY <1>4, <2>3
    <3>2. procStatus' = procStatus \/ procStatus' = [procStatus EXCEPT ![<<g, 1>>] = "ready"]
      BY <2>3 DEF Materialize
    <3> QED BY <1>2, <2>1, <3>1, <3>2
  <2> QED BY <1>9, <2>2, <2>3 DEF DeliverWake
<1>10. ASSUME NEW g \in Generations, DeliverCancel(g) PROVE Kept
  BY <1>6, <1>7, <1>10 DEF DeliverCancel, CancelTree
<1>11. ASSUME TaskCancel PROVE Kept
  BY <1>2, <1>3, <1>11 DEF TaskCancel
<1>12. ASSUME NEW w \in Workers, NEW p \in Processes, Claim(w, p) PROVE Kept
  <2>1. procStatus[p] \in Active BY <1>12 DEF Claim, Claimable, Active
  <2> QED BY <1>8, <1>12, <2>1 DEF Claim
<1>13. ASSUME NEW w \in Workers, MarkRunning(w) PROVE Kept
  <2>1. fencing' = fencing BY <1>13 DEF MarkRunning
  <2>2. CASE UNCHANGED procStatus BY <2>1, <2>2
  <2>3. CASE /\ procStatus[worker[w].proc] = "claimed"
             /\ procStatus' = [procStatus EXCEPT ![worker[w].proc] = "running"]
    BY <1>2, <1>8, <2>1, <2>3 DEF Active
  <2> QED BY <1>13, <2>2, <2>3 DEF MarkRunning
<1>14. ASSUME NEW p \in Processes, procStatus[p] \in Active, FailAndRoute(p) PROVE Kept
  BY <1>8, <1>14 DEF FailAndRoute
<1>15. ASSUME NEW w \in Workers, AcceptOutcome(w) PROVE Kept
  <2> DEFINE p == worker[w].proc
  <2>1. p \in Processes /\ procStatus[p] = "running" /\ procStatus[p] \in Active
    BY <1>2, <1>15 DEF AcceptOutcome, FenceHolds, Active
  <2>2. SucceedAndRoute(p) \/ RetryOrFail(p) \/ FailAndRoute(p) BY <1>15 DEF AcceptOutcome
  <2> HIDE DEF p
  <2>3. CASE FailAndRoute(p) BY <1>14, <2>1, <2>3
  <2>4. CASE procStatus' = [procStatus EXCEPT ![p] = "retry_wait"] /\ fencing' = fencing
    BY <1>8, <2>1, <2>4
  <2>5. CASE procStatus' = [procStatus EXCEPT ![p] = "succeeded"] /\ fencing' = fencing
    BY <1>8, <2>1, <2>5
  <2>6. CASE /\ procStatus' = [procStatus EXCEPT ![p] = "succeeded", ![<<p[1], p[2] + 1>>] = "ready"]
             /\ fencing' = fencing
    <3>1. execStatus[p[1]] \notin Terminal BY <2>1, ActiveRow DEF Terminal
    <3>2. q # p /\ q # <<p[1], p[2] + 1>> BY <3>1
    <3> QED BY <1>2, <2>1, <2>6, <3>2
  <2> QED BY <2>2, <2>3, <2>4, <2>5, <2>6 DEF SucceedAndRoute, RetryOrFail
<1>16. ASSUME NEW p \in Processes, FailExpiredReady(p) PROVE Kept
  BY <1>14, <1>16 DEF FailExpiredReady, Claimable, Active
<1>17. ASSUME NEW p \in Processes, PromoteRetry(p) PROVE Kept
  BY <1>8, <1>17 DEF PromoteRetry, Active
<1>18. ASSUME NEW p \in Processes, Recover(p) PROVE Kept
  <2>1. procStatus[p] \in Active BY <1>18 DEF Recover, Leased, Active
  <2>2. CASE RecoverCancelling(p) BY <1>6, <1>8, <2>1, <2>2 DEF RecoverCancelling
  <2>3. CASE RecoverFailing(p) BY <1>14, <2>1, <2>3 DEF RecoverFailing
  <2>4. CASE RecoverReplaying(p) BY <1>8, <2>1, <2>4 DEF RecoverReplaying
  <2> QED BY <1>18, <2>2, <2>3, <2>4 DEF Recover
<1>19. ASSUME RepairScan PROVE Kept BY <1>7, <1>19 DEF RepairScan
<1>20. ASSUME NEW m \in Messages, CompleteOutbox(m) PROVE Kept
  BY <1>6, <1>20 DEF CompleteOutbox, procVars
<1>21. ASSUME TaskRetry \/ SoftDelete \/ DeadlinePasses \/ UNCHANGED vars PROVE Kept
  BY <1>6, <1>21 DEF TaskRetry, SoftDelete, DeadlinePasses, vars, procVars
<1>22. ASSUME NEW w \in Workers, NEW outcome \in Outcomes,
              Finish(w, outcome) \/ OutcomeFenced(w) \/ OutcomeAborted(w) \/ Crash(w)
       PROVE  Kept
  BY <1>6, <1>22 DEF Finish, OutcomeFenced, OutcomeAborted, Crash, procVars
<1>23. ASSUME NEW p \in Processes, LeaseExpires(p) PROVE Kept BY <1>6, <1>23 DEF LeaseExpires
<1>24. "failed" \in Outcomes BY DEF Outcomes
<1> HIDE DEF Kept
<1>25. Kept
  BY <1>9, <1>10, <1>11, <1>12, <1>13, <1>15, <1>16, <1>17, <1>18, <1>19, <1>20, <1>21, <1>22,
     <1>23, <1>24 DEF Next
<1> QED BY <1>25 DEF Kept

\* Nothing that a stale worker, a late message or a scan does reaches into a
\* terminal Execution: its status and its Process rows are final.
THEOREM TerminalIsFrozen == Spec => TerminalFrozen
<1>1. ASSUME LifeInv, [Next]_vars
      PROVE  [\A g \in Generations : execStatus[g] \in Terminal =>
                /\ execStatus'[g] = execStatus[g]
                /\ \A s \in Steps : procStatus'[g, s] = procStatus[g, s] /\ fencing'[g, s] = fencing[g, s]]_vars
  <2> SUFFICES ASSUME NEW g \in Generations, execStatus[g] \in Terminal
               PROVE  /\ execStatus'[g] = execStatus[g]
                      /\ \A s \in Steps : procStatus'[<<g, s>>] = procStatus[<<g, s>>]
                                          /\ fencing'[<<g, s>>] = fencing[<<g, s>>]
    OBVIOUS
  <2>1. execStatus'[g] = execStatus[g] BY <1>1, LifeStep DEF ExecFinal
  <2>2. \A s \in Steps : <<g, s>> \in Processes /\ <<g, s>>[1] = g BY ProcessPairs
  <2> QED BY <1>1, <2>1, <2>2, RowsFrozen
<1> QED BY <1>1, LifeInvariant, PTL DEF Spec, TerminalFrozen

-----------------------------------------------------------------------------
(* Refinement of TaskLifecycle. *)

\* The committed steps, read off the commit history.
LEMMA CommittedIs ==
  /\ Committed = {s \in Steps : commits[<<taskRoot, s>>] > 0}
  /\ Committed' = {s \in Steps : commits'[<<taskRoot', s>>] > 0}
BY DEF Committed

\* While a step of the root runs, exactly the steps before it are committed.
LEMMA PrefixCommitted ==
  ASSUME LifeInv, NEW s \in Steps, procStatus[<<taskRoot, s>>] = "running"
  PROVE  \A t \in Steps : commits[<<taskRoot, t>>] = IF t < s THEN 1 ELSE 0
<1> SUFFICES ASSUME NEW t \in Steps
             PROVE  commits[<<taskRoot, t>>] = IF t < s THEN 1 ELSE 0
  OBVIOUS
<1>1. taskRoot \in Generations BY DEF LifeInv, Inv, TypeOK, TaskRowOK
<1>2. <<taskRoot, t>> \in Processes BY <1>1, ProcessPairs
<1>3. commits[<<taskRoot, t>>] = IF procStatus[<<taskRoot, t>>] = "succeeded" THEN 1 ELSE 0
  BY <1>2 DEF LifeInv, Inv, EffectOnce
<1>4. t < s => procStatus[<<taskRoot, t>>] = "succeeded"
  BY <1>1 DEF LifeInv, Inv, PipelineOrder
<1>5. s < t => procStatus[<<taskRoot, t>>] = "absent"
  BY <1>1 DEF LifeInv, Inv, PipelineOrder
<1>6. t < s \/ s < t \/ t = s BY DEF Steps
<1>7. t < s => ~(s < t) BY DEF Steps
<1> QED BY <1>3, <1>4, <1>5, <1>6, <1>7

\* A business commit is the commit of the next step in order.
LEMMA CommitRefines ==
  ASSUME LifeInv, LifeInv', NEW w \in Workers, Committing(w)
  PROVE  \E s \in 1..StepCount : Lifecycle!CommitStep(s)
<1> DEFINE p == worker[w].proc
           s == p[2]
<1>1. /\ p \in Processes /\ p[1] \in Generations /\ s \in Steps /\ p = <<p[1], s>>
      /\ procStatus[p] = "running" /\ execStatus[p[1]] # "cancelling"
      /\ p[1] = taskRoot /\ taskStatus = "running"
      /\ commits' = [commits EXCEPT ![p] = @ + 1]
  BY CommitFinds
<1>2. SucceedAndRoute(p) BY DEF Committing
<1> HIDE DEF p
<1>3. procStatus[<<taskRoot, s>>] = "running" BY <1>1
<1>4. \A t \in Steps : commits[<<taskRoot, t>>] = IF t < s THEN 1 ELSE 0
  BY <1>1, <1>3, PrefixCommitted
<1>5. execStatus[p[1]] \notin Terminal BY <1>1, ActiveRow DEF Active, Terminal
<1>6. taskRoot' = taskRoot /\ taskStatus' = IF s = StepCount THEN "succeeded" ELSE "running"
  <2>1. CASE s = StepCount /\ Terminalize(p[1], "succeeded")
    BY <1>1, <1>5, <2>1 DEF Terminalize, ProjectedTask, Projections
  <2>2. CASE s < StepCount /\ UNCHANGED taskVars
    BY <1>1, <2>2, StepAssumption DEF taskVars, Steps
  <2> QED BY <1>2, <2>1, <2>2 DEF SucceedAndRoute
<1>7. commits \in [Processes -> Nat] BY DEF LifeInv, Inv, TypeOK, ProcessRowsOK
<1>8. \A t \in Steps : commits'[<<taskRoot, t>>] = IF t < s \/ t = s THEN 1 ELSE 0
  <2> SUFFICES ASSUME NEW t \in Steps
               PROVE  commits'[<<taskRoot, t>>] = IF t < s \/ t = s THEN 1 ELSE 0
    OBVIOUS
  <2>1. <<taskRoot, t>> \in Processes BY <1>1, ProcessPairs
  <2>2. <<taskRoot, t>> = p <=> t = s BY <1>1
  <2>3. commits'[<<taskRoot, t>>] = IF t = s THEN commits[<<taskRoot, t>>] + 1 ELSE commits[<<taskRoot, t>>]
    BY <1>1, <1>7, <2>1, <2>2
  <2>4. s \in Nat /\ ~(s < s) BY <1>1 DEF Steps
  <2> QED BY <1>4, <2>3, <2>4
<1> HIDE DEF s
<1>9. Committed = 1..(s - 1)
  <2>1. Committed = {t \in Steps : t < s} BY <1>4, CommittedIs
  <2> QED BY <1>1, <2>1, StepAssumption DEF Steps
<1>10. Committed' = 1..s
  <2>1. Committed' = {t \in Steps : t < s \/ t = s} BY <1>6, <1>8, CommittedIs
  <2> QED BY <1>1, <2>1, StepAssumption DEF Steps
<1>11. s \in 1..StepCount BY <1>1 DEF Steps
<1> QED BY <1>1, <1>6, <1>9, <1>10, <1>11 DEF Lifecycle!CommitStep

\* Every step of the engine is a step of the Task's life, or invisible in it.
LEMMA LifecycleStep ==
  ASSUME LifeInv, [Next]_vars
  PROVE  [Lifecycle!Next]_(Lifecycle!vars)
<1>0. LifeInv' /\ ExecFinal BY LifeStep
<1>1. taskRoot \in Generations /\ taskStatus \in TaskStatus BY DEF LifeInv, Inv, TypeOK, TaskRowOK
<1>2. ASSUME NEW w \in Workers, Committing(w) PROVE Lifecycle!Next
  BY <1>0, <1>2, CommitRefines DEF Lifecycle!Next
<1>3. ASSUME taskRoot' = taskRoot, commits' = commits PROVE Committed' = Committed
  BY <1>3, CommittedIs
<1>4. ASSUME TaskCancel PROVE [Lifecycle!Next]_(Lifecycle!vars)
  <2>1. taskRoot' = taskRoot /\ commits' = commits /\ taskStatus' = "cancelling"
        /\ taskStatus \in {"queued", "running", "cancelling"}
    BY <1>1, <1>4 DEF TaskCancel, TaskStatus
  <2>2. Committed' = Committed BY <1>3, <2>1
  <2>3. CASE taskStatus = "cancelling" BY <2>1, <2>2, <2>3 DEF Lifecycle!vars
  <2>4. CASE taskStatus \in {"queued", "running"}
    <3>1. Lifecycle!Cancel BY <2>1, <2>2, <2>4 DEF Lifecycle!Cancel
    <3> QED BY <3>1 DEF Lifecycle!Next
  <2> QED BY <2>1, <2>3, <2>4
<1>5. ASSUME TaskRetry PROVE Lifecycle!Next
  <2>1. /\ taskRoot' = taskRoot + 1 /\ taskStatus' = "queued" /\ commits' = commits
        /\ taskStatus \in {"failed", "cancelled"} /\ taskRoot < MaxGenerations
    BY <1>5 DEF TaskRetry
  <2> DEFINE n == taskRoot + 1
  <2>2. n \in Generations /\ n > taskRoot
    BY <1>1, <2>1, GenerationAssumption DEF Generations
  <2>3. execStatus[n] = "absent" BY <2>2 DEF LifeInv, TaskOK
  <2>4. Blank(n) BY <2>2, <2>3 DEF LifeInv, ExecutionOK
  <2>5. \A s \in Steps : commits[<<n, s>>] = 0
    <3> SUFFICES ASSUME NEW s \in Steps PROVE commits[<<n, s>>] = 0
      OBVIOUS
    <3>1. <<n, s>> \in Processes BY <2>2, ProcessPairs
    <3>2. procStatus[<<n, s>>] = "absent" BY <2>4 DEF Blank
    <3> QED BY <3>1, <3>2 DEF LifeInv, Inv, EffectOnce
  <2>6. Committed' = {}
    <3>1. Committed' = {s \in Steps : commits[<<n, s>>] > 0} BY <2>1, CommittedIs
    <3> QED BY <2>5, <3>1
  <2>7. Lifecycle!Retry BY <2>1, <2>6 DEF Lifecycle!Retry
  <2> QED BY <2>7 DEF Lifecycle!Next
<1>6. ASSUME taskRoot' = taskRoot, commits' = commits, Projecting
      PROVE  [Lifecycle!Next]_(Lifecycle!vars)
  <2>1. Committed' = Committed BY <1>3, <1>6
  <2>2. CASE taskStatus' = taskStatus BY <1>6, <2>1, <2>2 DEF Lifecycle!vars
  <2>3. CASE taskStatus = "queued" /\ taskStatus' = "running"
    <3>1. Lifecycle!Start BY <1>6, <2>1, <2>3 DEF Lifecycle!Start
    <3> QED BY <3>1 DEF Lifecycle!Next
  <2>4. CASE taskStatus \in {"queued", "running"} /\ taskStatus' = "failed"
    <3>1. Lifecycle!Fail \/ Lifecycle!FailUnstarted
      BY <1>6, <2>1, <2>4 DEF Lifecycle!Fail, Lifecycle!FailUnstarted
    <3> QED BY <3>1 DEF Lifecycle!Next
  <2>5. CASE taskStatus = "cancelling" /\ taskStatus' = "cancelled"
    <3>1. Lifecycle!Cancelled BY <1>6, <2>1, <2>5 DEF Lifecycle!Cancelled
    <3> QED BY <3>1 DEF Lifecycle!Next
  <2>6. ~(taskStatus = "cancelling" /\ taskStatus' = "failed")
    <3> SUFFICES ASSUME taskStatus = "cancelling", taskStatus' = "failed" PROVE FALSE
      OBVIOUS
    <3>1. execStatus[taskRoot] = "cancelling" BY DEF LifeInv, TaskOK
    <3>2. execStatus'[taskRoot] \in {"cancelling", "cancelled"} BY <1>0, <1>1, <3>1 DEF ExecFinal
    <3>3. execStatus'[taskRoot'] = "failed" BY <1>0 DEF LifeInv, TaskOK, Terminal
    <3> QED BY <1>6, <3>2, <3>3
  <2> QED BY <1>6, <2>2, <2>3, <2>4, <2>5, <2>6 DEF Projecting, Projections
<1> QED BY <1>2, <1>4, <1>5, <1>6, StepKinds

\* Executions, Processes, leases, messages, crashes and repairs show a client
\* of the Task API nothing but the life that TaskLifecycle describes: steps
\* committed once and in order, success only when all are, no commit after a
\* cancellation, a retry that starts from nothing, and no move but those of
\* S02-T009 and S02-T010 and the failure of a Task that never started.
THEOREM EngineImplementsLifecycle == Spec => ImplementsLifecycle
<1>1. ASSUME Init PROVE Lifecycle!Init
  <2>1. \A s \in Steps : commits[<<1, s>>] = 0
    BY <1>1, ProcessPairs, FirstValues DEF Init
  <2>2. taskRoot = 1 /\ taskStatus = "queued" BY <1>1 DEF Init
  <2>3. Committed = {}
    <3>1. Committed = {s \in Steps : commits[<<taskRoot, s>>] > 0} BY CommittedIs
    <3> QED BY <2>1, <2>2, <3>1
  <2> QED BY <2>2, <2>3 DEF Lifecycle!Init
<1>2. LifeInv /\ [Next]_vars => [Lifecycle!Next]_(Lifecycle!vars) BY LifecycleStep
<1> QED BY <1>1, <1>2, LifeInvariant, PTL DEF Spec, ImplementsLifecycle, Lifecycle!Spec
=============================================================================
