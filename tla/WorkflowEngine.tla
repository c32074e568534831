---------------------------- MODULE WorkflowEngine ----------------------------
(***************************************************************************)
(* The durable workflow engine of one Task: the Task row, its generations  *)
(* of root Executions, the Processes those Executions materialize, the     *)
(* workers that claim Processes under a lease and a fence, the outbox      *)
(* messages that drive the engine, the cancel / retry / delete commands,   *)
(* lease recovery and the repair scan.                                     *)
(*                                                                         *)
(* Every method of the runtime runs in one BEGIN IMMEDIATE transaction, so *)
(* one action is one transaction.  What is not atomic is modelled as       *)
(* several actions: a worker claims, starts, runs the handler and submits  *)
(* in four steps; an outbox message is handled in one transaction and      *)
(* completed in another; the repair tick promotes, recovers and scans in   *)
(* three.                                                                  *)
(*                                                                         *)
(* The workflow graph is the linear chain 1..StepCount that every built-in *)
(* graph reduces to once its guards are decided: SUCCEEDED leads to the    *)
(* next step or to the success terminal, FAILED to the failure terminal.   *)
(* Human review gates and scatter children are components of their own.    *)
(***************************************************************************)
EXTENDS Naturals

CONSTANTS
  Workers,         \* worker loops, possibly of several operating system processes
  NoOwner,         \* lease_owner IS NULL
  StepCount,       \* Process steps on the route of the workflow
  UnsafeSteps,     \* steps whose control snapshot says safe_replay = false
  MaxRetries,      \* default_max_retries
  MaxRecoveries,   \* default_max_recoveries
  HasDeadline,     \* the Task was created with a deadline_at
  MaxGenerations   \* bound: how often the Task may be created or retried

ASSUME OwnerAssumption == NoOwner \notin Workers
ASSUME StepAssumption == StepCount \in Nat \ {0}
ASSUME UnsafeAssumption == UnsafeSteps \subseteq 1..StepCount
ASSUME BudgetAssumption == MaxRetries \in Nat /\ MaxRecoveries \in Nat
ASSUME DeadlineAssumption == HasDeadline \in BOOLEAN
ASSUME GenerationAssumption == MaxGenerations \in Nat \ {0}

Steps == 1..StepCount
Generations == 1..MaxGenerations
Processes == Generations \X Steps

Terminal == {"succeeded", "failed", "cancelled"}
Active == {"ready", "claimed", "running", "retry_wait", "cancelling"}
ProcessStatus == Active \cup Terminal \cup {"absent"}
ExecutionStatus == {"absent", "ready", "running", "waiting", "cancelling"} \cup Terminal
TaskStatus == {"queued", "running", "cancelling"} \cup Terminal

\* ProcessOutcome dispositions; a success without its typed output and proof
\* fails the Process like "failed" and is not told apart from it.
Outcomes == {"succeeded", "retryable", "failed"}
WakeKinds == {"wake", "repair_wake"}
Messages == (WakeKinds \cup {"cancel"}) \X Generations

VARIABLES
  taskStatus,      \* mkb_tasks.status
  taskRoot,        \* mkb_tasks.current_generation, naming its root Execution
  taskDeleted,     \* mkb_tasks.deleted_at IS NOT NULL
  deadlinePassed,  \* the Task's deadline_at lies in the past
  execStatus,      \* mkb_executions.status per generation
  waitingRef,      \* step of the waiting_ref of a retry_due wait (0: none)
  currentProcess,  \* step of the current_process_uuid (0: NULL)
  summary,         \* generations with a terminal_summary_digest
  procStatus,      \* mkb_processes.status
  fencing,         \* mkb_processes.fencing_generation
  leaseOwner,      \* mkb_processes.lease_owner
  leaseLive,       \* lease_expires_at still lies in the future
  retryCount,      \* mkb_processes.retry_count
  recoveryCount,   \* mkb_processes.recovery_count
  eligible,        \* Processes with cleanup_eligible_at set
  outbox,          \* mkb_outbox.status per message
  worker,          \* what each worker loop holds in memory
  commits          \* history: business commits made by the outcome committer

taskVars == <<taskStatus, taskRoot, taskDeleted>>
execVars == <<execStatus, waitingRef, currentProcess, summary>>
leaseVars == <<leaseOwner, leaseLive>>
procVars == <<procStatus, fencing, leaseVars, retryCount, recoveryCount>>
vars == <<taskVars, deadlinePassed, execVars, procVars, eligible, outbox, worker, commits>>

Idle == [pc |-> "idle", proc |-> <<1, 1>>, fence |-> 0, outcome |-> "failed"]

Init ==
  /\ taskStatus = "queued" /\ taskRoot = 1 /\ taskDeleted = FALSE
  /\ deadlinePassed = FALSE
  /\ execStatus = [g \in Generations |-> IF g = 1 THEN "ready" ELSE "absent"]
  /\ waitingRef = [g \in Generations |-> 0]
  /\ currentProcess = [g \in Generations |-> 0]
  /\ summary = {}
  /\ procStatus = [p \in Processes |-> "absent"]
  /\ fencing = [p \in Processes |-> 0]
  /\ leaseOwner = [p \in Processes |-> NoOwner]
  /\ leaseLive = [p \in Processes |-> FALSE]
  /\ retryCount = [p \in Processes |-> 0]
  /\ recoveryCount = [p \in Processes |-> 0]
  /\ eligible = {}
  /\ outbox = [m \in Messages |-> IF m = <<"wake", 1>> THEN "pending" ELSE "absent"]
  /\ worker = [w \in Workers |-> Idle]
  /\ commits = [p \in Processes |-> 0]

-----------------------------------------------------------------------------
(* Task projection and Execution terminals. *)

\* The transitions of the Task row that a projection may write.
Projections ==
  {<<"queued", "running">>, <<"running", "succeeded">>, <<"queued", "failed">>,
   <<"running", "failed">>, <<"cancelling", "failed">>, <<"cancelling", "cancelled">>}

\* project_task_status_tx: a stale root never writes the Task row.
ProjectedTask(g, target) ==
  IF g = taskRoot /\ <<taskStatus, target>> \in Projections THEN target ELSE taskStatus

\* Mutant: the Task is not projected.
TerminalizeUnprojected(g, status) ==
  /\ execStatus' = [execStatus EXCEPT ![g] = status]
  /\ waitingRef' = [waitingRef EXCEPT ![g] = 0]
  /\ currentProcess' = [currentProcess EXCEPT ![g] = 0]
  /\ summary' = summary \cup {g}
  /\ UNCHANGED taskVars

\* _terminalize_execution_tx: a terminal Execution is left alone.
Terminalize(g, status) ==
  IF execStatus[g] \in Terminal
  THEN UNCHANGED <<execVars, taskVars>>
  ELSE /\ execStatus' = [execStatus EXCEPT ![g] = status]
       /\ waitingRef' = [waitingRef EXCEPT ![g] = 0]
       /\ currentProcess' = [currentProcess EXCEPT ![g] = 0]
       /\ summary' = summary \cup {g}
       /\ taskStatus' = ProjectedTask(g, status)
       /\ UNCHANGED <<taskRoot, taskDeleted>>

\* The Processes of an Execution are all terminal under the status map ps.
Quiescent(g, ps) == \A s \in Steps : ps[g, s] \notin Active

\* _converge_cancellation_tx, with ps the Process statuses it reads.
Converge(g, ps) ==
  IF execStatus[g] = "cancelling" /\ Quiescent(g, ps)
  THEN Terminalize(g, "cancelled")
  ELSE UNCHANGED <<execVars, taskVars>>

-----------------------------------------------------------------------------
(* Outbox deliveries.  The handler of a message commits in one transaction *)
(* and the message is completed in another: if the relay dies in between,  *)
(* the lease of the message lapses and it is delivered again.              *)

\* _lease_outbox_row takes pending rows, and in-flight rows whose lease expired.
Undelivered == {"pending", "in_flight"}

Handled(m) == outbox[m] \in Undelivered /\ outbox' = [outbox EXCEPT ![m] = "in_flight"]

\* _complete_outbox
CompleteOutbox(m) ==
  /\ outbox[m] = "in_flight"
  /\ outbox' = [outbox EXCEPT ![m] = "done"]
  /\ UNCHANGED <<taskVars, deadlinePassed, execVars, procVars, eligible, worker, commits>>

\* _materialize_process_tx: idempotent on (execution, step, route digest).
Materialize(p) ==
  IF procStatus[p] # "absent"
  THEN UNCHANGED <<procStatus, execVars, taskVars>>
  ELSE /\ procStatus' = [procStatus EXCEPT ![p] = "ready"]
       /\ execStatus' = [execStatus EXCEPT ![p[1]] = "ready"]
       /\ waitingRef' = [waitingRef EXCEPT ![p[1]] = 0]
       /\ currentProcess' = [currentProcess EXCEPT ![p[1]] = p[2]]
       /\ UNCHANGED <<summary, taskVars>>

\* Mutant: a late wake starts a terminal Execution.
DeliverWakeUnguarded(k, g) ==
  /\ Handled(<<k, g>>)
  /\ Materialize(<<g, 1>>)
  /\ UNCHANGED <<deadlinePassed, fencing, leaseVars, retryCount, recoveryCount,
                 eligible, worker, commits>>

\* dispatch_outbox_once of wake_execution: materialize_root.
DeliverWake(k, g) ==
  /\ Handled(<<k, g>>)
  /\ \/ /\ execStatus[g] \in {"ready", "running"}
        /\ Materialize(<<g, 1>>)
     \/ /\ execStatus[g] = "cancelling"
        /\ Converge(g, procStatus)
        /\ UNCHANGED procStatus
     \/ /\ execStatus[g] \in Terminal \cup {"waiting"}
        /\ UNCHANGED <<procStatus, execVars, taskVars>>
  /\ UNCHANGED <<deadlinePassed, fencing, leaseVars, retryCount, recoveryCount,
                 eligible, worker, commits>>

\* _cancel_execution_tree_tx on one Process row: idle Processes are fenced
\* and closed, leased ones are fenced and left to lease recovery.
FencedStatus(p) ==
  IF \/ procStatus[p] \in {"ready", "retry_wait"}
     \/ procStatus[p] = "cancelling" /\ leaseOwner[p] = NoOwner
  THEN "cancelled"
  ELSE IF procStatus[p] \in {"claimed", "running"} THEN "cancelling" ELSE procStatus[p]

FencedGeneration(p) ==
  IF procStatus[p] \in {"ready", "retry_wait", "claimed", "running"}
  THEN fencing[p] + 1 ELSE fencing[p]

FenceProcesses(roots) ==
  /\ procStatus' = [p \in Processes |-> IF p[1] \in roots THEN FencedStatus(p) ELSE procStatus[p]]
  /\ fencing' = [p \in Processes |-> IF p[1] \in roots THEN FencedGeneration(p) ELSE fencing[p]]

\* _cancel_execution_tree_tx of a root without children.
CancelTree(g) ==
  /\ FenceProcesses({g})
  /\ IF Quiescent(g, procStatus')
     THEN Terminalize(g, "cancelled")
     ELSE /\ execStatus' = [execStatus EXCEPT ![g] = "cancelling"]
          /\ UNCHANGED <<waitingRef, currentProcess, summary, taskVars>>

\* dispatch_outbox_once of cancel_execution: request_cancellation.
DeliverCancel(g) ==
  /\ Handled(<<"cancel", g>>)
  /\ \/ /\ execStatus[g] \in Terminal
        /\ UNCHANGED <<procStatus, fencing, execVars, taskVars>>
     \/ /\ execStatus[g] \notin Terminal
        /\ CancelTree(g)
  /\ UNCHANGED <<deadlinePassed, leaseVars, retryCount, recoveryCount,
                 eligible, worker, commits>>

-----------------------------------------------------------------------------
(* Task commands. *)

\* Mutant: the Execution and its Processes are left to the cancel message.
TaskCancelDeferred ==
  /\ ~taskDeleted
  /\ taskStatus \notin Terminal
  /\ taskStatus' = "cancelling"
  /\ outbox' = [outbox EXCEPT ![<<"cancel", taskRoot>>] = "pending"]
  /\ UNCHANGED <<taskRoot, taskDeleted, deadlinePassed, execVars, procVars, eligible, worker, commits>>

\* TaskService.cancel: Task, Execution and leased Processes change at once,
\* idle Processes are left to the cancel message.
TaskCancel ==
  /\ ~taskDeleted
  /\ taskStatus \notin Terminal
  /\ taskStatus' = "cancelling"
  /\ execStatus' = IF execStatus[taskRoot] \in Terminal THEN execStatus
                   ELSE [execStatus EXCEPT ![taskRoot] = "cancelling"]
  /\ LET leased == {p \in Processes : p[1] = taskRoot /\ procStatus[p] \in {"claimed", "running"}}
     IN /\ procStatus' = [p \in Processes |-> IF p \in leased THEN "cancelling" ELSE procStatus[p]]
        /\ fencing' = [p \in Processes |-> IF p \in leased THEN fencing[p] + 1 ELSE fencing[p]]
  /\ outbox' = [outbox EXCEPT ![<<"cancel", taskRoot>>] = "pending"]
  /\ UNCHANGED <<taskRoot, taskDeleted, deadlinePassed, waitingRef, currentProcess, summary,
                 leaseVars, retryCount, recoveryCount, eligible, worker, commits>>

\* Mutant: a cancelling Task may be retried.
TaskRetryEarly ==
  /\ ~taskDeleted
  /\ taskStatus \in {"failed", "cancelled", "cancelling"}
  /\ taskRoot < MaxGenerations
  /\ taskRoot' = taskRoot + 1
  /\ taskStatus' = "queued"
  /\ execStatus' = [execStatus EXCEPT ![taskRoot + 1] = "ready"]
  /\ outbox' = [outbox EXCEPT ![<<"wake", taskRoot + 1>>] = "pending"]
  /\ UNCHANGED <<taskDeleted, deadlinePassed, waitingRef, currentProcess, summary,
                 procVars, eligible, worker, commits>>

\* TaskService.retry: a new root Execution for the next generation.
TaskRetry ==
  /\ ~taskDeleted
  /\ taskStatus \in {"failed", "cancelled"}
  /\ taskRoot < MaxGenerations
  /\ taskRoot' = taskRoot + 1
  /\ taskStatus' = "queued"
  /\ execStatus' = [execStatus EXCEPT ![taskRoot + 1] = "ready"]
  /\ outbox' = [outbox EXCEPT ![<<"wake", taskRoot + 1>>] = "pending"]
  /\ UNCHANGED <<taskDeleted, deadlinePassed, waitingRef, currentProcess, summary,
                 procVars, eligible, worker, commits>>

\* TaskService.soft_delete
SoftDelete ==
  /\ taskStatus \in Terminal
  /\ ~taskDeleted
  /\ taskDeleted' = TRUE
  /\ UNCHANGED <<taskStatus, taskRoot, deadlinePassed, execVars, procVars,
                 eligible, outbox, worker, commits>>

\* The clock passes the Task's deadline_at, copied to each of its Processes.
DeadlinePasses ==
  /\ HasDeadline /\ ~deadlinePassed
  /\ deadlinePassed' = TRUE
  /\ UNCHANGED <<taskVars, execVars, procVars, eligible, outbox, worker, commits>>

-----------------------------------------------------------------------------
(* Process transitions shared by workers and supervisor. *)

\* Mutant: the owner is kept.
ReleaseLeaseKeepOwner(p) ==
  /\ leaseLive' = [leaseLive EXCEPT ![p] = FALSE]
  /\ UNCHANGED leaseOwner

ReleaseLease(p) ==
  /\ leaseOwner' = [leaseOwner EXCEPT ![p] = NoOwner]
  /\ leaseLive' = [leaseLive EXCEPT ![p] = FALSE]

\* Mutant: the Process fails and nothing is routed.
FailWithoutRoute(p) ==
  /\ procStatus' = [procStatus EXCEPT ![p] = "failed"]
  /\ ReleaseLease(p)
  /\ UNCHANGED <<execVars, taskVars, fencing, retryCount, recoveryCount, commits>>

\* Mutant: a failure takes the SUCCEEDED route.
FailForward(p) ==
  /\ procStatus' = [q \in Processes |-> IF q = p THEN "failed"
                                       ELSE IF q = <<p[1], p[2] + 1>> THEN "ready" ELSE procStatus[q]]
  /\ ReleaseLease(p)
  /\ UNCHANGED <<execVars, taskVars, fencing, retryCount, recoveryCount, commits>>

\* _fail_process_tx and the FAILED route, which leads to the failure terminal.
FailAndRoute(p) ==
  /\ procStatus' = [procStatus EXCEPT ![p] = "failed"]
  /\ ReleaseLease(p)
  /\ Terminalize(p[1], "failed")
  /\ UNCHANGED <<fencing, retryCount, recoveryCount, commits>>

\* The mutants of the SUCCEEDED route: the last step is followed by another,
\* the current Process is not moved on.
SucceedPastEnd(p) ==
  /\ commits' = [commits EXCEPT ![p] = @ + 1]
  /\ ReleaseLease(p)
  /\ procStatus' = [q \in Processes |-> IF q = p THEN "succeeded"
                                       ELSE IF q = <<p[1], p[2] + 1>> THEN "ready" ELSE procStatus[q]]
  /\ currentProcess' = [currentProcess EXCEPT ![p[1]] = p[2] + 1]
  /\ UNCHANGED <<execStatus, waitingRef, summary, taskVars, fencing, retryCount, recoveryCount>>

SucceedKeepCurrent(p) ==
  /\ commits' = [commits EXCEPT ![p] = @ + 1]
  /\ ReleaseLease(p)
  /\ procStatus' = [q \in Processes |-> IF q = p THEN "succeeded"
                                       ELSE IF q = <<p[1], p[2] + 1>> THEN "ready" ELSE procStatus[q]]
  /\ UNCHANGED <<execVars, taskVars, fencing, retryCount, recoveryCount>>

\* A committed success and its SUCCEEDED route: the next step, or the terminal.
SucceedAndRoute(p) ==
  /\ commits' = [commits EXCEPT ![p] = @ + 1]
  /\ ReleaseLease(p)
  /\ \/ /\ p[2] = StepCount
        /\ procStatus' = [procStatus EXCEPT ![p] = "succeeded"]
        /\ Terminalize(p[1], "succeeded")
     \/ /\ p[2] < StepCount
        /\ LET next == <<p[1], p[2] + 1>>
           IN procStatus' = [procStatus EXCEPT ![p] = "succeeded", ![next] = "ready"]
        /\ execStatus' = [execStatus EXCEPT ![p[1]] = "ready"]
        /\ waitingRef' = [waitingRef EXCEPT ![p[1]] = 0]
        /\ currentProcess' = [currentProcess EXCEPT ![p[1]] = p[2] + 1]
        /\ UNCHANGED <<summary, taskVars>>
  /\ UNCHANGED <<fencing, retryCount, recoveryCount>>

\* A retryable failure waits for its backoff while the budget lasts.
RetryOrFail(p) ==
  \/ /\ retryCount[p] < MaxRetries
     /\ procStatus' = [procStatus EXCEPT ![p] = "retry_wait"]
     /\ retryCount' = [retryCount EXCEPT ![p] = @ + 1]
     /\ ReleaseLease(p)
     /\ execStatus' = [execStatus EXCEPT ![p[1]] = "waiting"]
     /\ waitingRef' = [waitingRef EXCEPT ![p[1]] = p[2]]
     /\ UNCHANGED <<currentProcess, summary, taskVars, fencing, recoveryCount, commits>>
  \/ /\ retryCount[p] >= MaxRetries
     /\ FailAndRoute(p)

-----------------------------------------------------------------------------
(* Workers: ProcessWorker.run_once. *)

Claimable(p) ==
  /\ procStatus[p] = "ready"
  /\ execStatus[p[1]] \in {"ready", "running"}
  /\ taskStatus \in {"queued", "running"}

\* Mutant: a claim reuses the fence of the claim before it.
ClaimOldFence(w, p) ==
  /\ worker[w].pc = "idle"
  /\ Claimable(p)
  /\ ~deadlinePassed
  /\ procStatus' = [procStatus EXCEPT ![p] = "claimed"]
  /\ fencing' = [fencing EXCEPT ![p] = 1]
  /\ leaseOwner' = [leaseOwner EXCEPT ![p] = w]
  /\ leaseLive' = [leaseLive EXCEPT ![p] = TRUE]
  /\ worker' = [worker EXCEPT ![w] = [pc |-> "claimed", proc |-> p, fence |-> 1,
                                      outcome |-> "failed"]]
  /\ UNCHANGED <<taskVars, deadlinePassed, execVars, retryCount, recoveryCount,
                 eligible, outbox, commits>>

\* claim_next
Claim(w, p) ==
  /\ worker[w].pc = "idle"
  /\ Claimable(p)
  /\ ~deadlinePassed
  /\ procStatus' = [procStatus EXCEPT ![p] = "claimed"]
  /\ fencing' = [fencing EXCEPT ![p] = @ + 1]
  /\ leaseOwner' = [leaseOwner EXCEPT ![p] = w]
  /\ leaseLive' = [leaseLive EXCEPT ![p] = TRUE]
  /\ worker' = [worker EXCEPT ![w] = [pc |-> "claimed", proc |-> p, fence |-> fencing[p] + 1,
                                      outcome |-> "failed"]]
  /\ UNCHANGED <<taskVars, deadlinePassed, execVars, retryCount, recoveryCount,
                 eligible, outbox, commits>>

\* claim_next finds a Process whose deadline has passed: _fail_expired_ready_tx.
FailExpiredReady(p) ==
  /\ deadlinePassed
  /\ Claimable(p)
  /\ FailAndRoute(p)
  /\ UNCHANGED <<deadlinePassed, eligible, outbox, worker>>

\* The claim of w in its next stage.
Moved(w, pc, outcome) ==
  [pc |-> pc, proc |-> worker[w].proc, fence |-> worker[w].fence, outcome |-> outcome]

\* mark_running under the fence of the claim; a lost fence ends run_once.
MarkRunning(w) ==
  LET p == worker[w].proc
  IN /\ worker[w].pc = "claimed"
     /\ \/ /\ procStatus[p] = "claimed" /\ fencing[p] = worker[w].fence
           /\ procStatus' = [procStatus EXCEPT ![p] = "running"]
           /\ execStatus' = IF execStatus[p[1]] = "ready"
                            THEN [execStatus EXCEPT ![p[1]] = "running"] ELSE execStatus
           /\ taskStatus' = ProjectedTask(p[1], "running")
           /\ worker' = [worker EXCEPT ![w] = Moved(w, "run", "failed")]
        \/ /\ ~(procStatus[p] = "claimed" /\ fencing[p] = worker[w].fence)
           /\ worker' = [worker EXCEPT ![w] = Idle]
           /\ UNCHANGED <<procStatus, execStatus, taskStatus>>
     /\ UNCHANGED <<taskRoot, taskDeleted, deadlinePassed, waitingRef, currentProcess, summary,
                    fencing, leaseVars, retryCount, recoveryCount, eligible, outbox, commits>>

\* The stage handler returns, raises (retryable), or is cancelled by a failed
\* heartbeat (retryable).
Finish(w, outcome) ==
  /\ worker[w].pc = "run"
  /\ worker' = [worker EXCEPT ![w] = Moved(w, "submit", outcome)]
  /\ UNCHANGED <<taskVars, deadlinePassed, execVars, procVars, eligible, outbox, commits>>

Submitting(w) == worker[w].pc \in {"submit", "fallback"}

\* Mutants: the fence, or the status of the Process, is not checked.
FenceUnchecked(w) ==
  LET p == worker[w].proc
  IN procStatus[p] = "running" /\ execStatus[p[1]] \notin Terminal \cup {"cancelling"}

StatusUnchecked(w) ==
  LET p == worker[w].proc
  IN fencing[p] = worker[w].fence /\ execStatus[p[1]] \notin Terminal \cup {"cancelling"}

\* The checks of accept_outcome before it writes.
FenceHolds(w) ==
  LET p == worker[w].proc
  IN /\ fencing[p] = worker[w].fence
     /\ procStatus[p] = "running"
     /\ execStatus[p[1]] \notin Terminal \cup {"cancelling"}

\* accept_outcome commits.  After the first submission the worker may miss the
\* acknowledgement and submit the retryable outcome-commit-exception.
AcceptOutcome(w) ==
  LET p == worker[w].proc
  IN /\ Submitting(w)
     /\ FenceHolds(w)
     /\ \/ worker[w].outcome = "succeeded" /\ SucceedAndRoute(p)
        \/ worker[w].outcome = "retryable" /\ RetryOrFail(p)
        \/ worker[w].outcome = "failed" /\ FailAndRoute(p)
     /\ \/ worker' = [worker EXCEPT ![w] = Idle]
        \/ /\ worker[w].pc = "submit"
           /\ worker' = [worker EXCEPT ![w] = Moved(w, "fallback", "retryable")]
     /\ UNCHANGED <<deadlinePassed, eligible, outbox>>

\* accept_outcome raises a fence conflict and changes nothing durable.
OutcomeFenced(w) ==
  /\ Submitting(w)
  /\ ~FenceHolds(w)
  /\ worker' = [worker EXCEPT ![w] = Idle]
  /\ UNCHANGED <<taskVars, deadlinePassed, execVars, procVars, eligible, outbox, commits>>

\* The first submission is rolled back: by a typed rejection of the committer
\* or the router, answered with "failed", or by any other exception, answered
\* with a retryable failure.
OutcomeAborted(w) ==
  /\ worker[w].pc = "submit"
  /\ \/ worker' = [worker EXCEPT ![w] = Moved(w, "fallback", "retryable")]
     \/ /\ FenceHolds(w)
        /\ worker' = [worker EXCEPT ![w] = Moved(w, "fallback", "failed")]
  /\ UNCHANGED <<taskVars, deadlinePassed, execVars, procVars, eligible, outbox, commits>>

\* The worker process dies, or run_once raises: the loop starts afresh.
Crash(w) ==
  /\ worker[w].pc # "idle"
  /\ worker' = [worker EXCEPT ![w] = Idle]
  /\ UNCHANGED <<taskVars, deadlinePassed, execVars, procVars, eligible, outbox, commits>>

-----------------------------------------------------------------------------
(* Clock and supervisor: promote_due_retries, recover_expired_leases and   *)
(* the scan of repair_once.  The first two are batches of independent rows *)
(* and are modelled row by row.                                            *)

LeaseExpires(p) ==
  /\ leaseLive[p]
  /\ leaseLive' = [leaseLive EXCEPT ![p] = FALSE]
  /\ UNCHANGED <<taskVars, deadlinePassed, execVars, procStatus, fencing, leaseOwner,
                 retryCount, recoveryCount, eligible, outbox, worker, commits>>

\* Mutant: the Execution keeps waiting.
PromoteRetryKeepWait(p) ==
  /\ procStatus[p] = "retry_wait"
  /\ execStatus[p[1]] \notin Terminal \cup {"cancelling"}
  /\ procStatus' = [procStatus EXCEPT ![p] = "ready"]
  /\ UNCHANGED <<taskVars, deadlinePassed, execVars, fencing, leaseVars,
                 retryCount, recoveryCount, eligible, outbox, worker, commits>>

\* promote_due_retries
PromoteRetry(p) ==
  /\ procStatus[p] = "retry_wait"
  /\ execStatus[p[1]] \notin Terminal \cup {"cancelling"}
  /\ procStatus' = [procStatus EXCEPT ![p] = "ready"]
  /\ IF execStatus[p[1]] = "waiting" /\ waitingRef[p[1]] = p[2]
     THEN /\ execStatus' = [execStatus EXCEPT ![p[1]] = "ready"]
          /\ waitingRef' = [waitingRef EXCEPT ![p[1]] = 0]
     ELSE UNCHANGED <<execStatus, waitingRef>>
  /\ UNCHANGED <<taskVars, deadlinePassed, currentProcess, summary, fencing, leaseVars,
                 retryCount, recoveryCount, eligible, outbox, worker, commits>>

Leased == {"claimed", "running", "cancelling"}

\* Mutant: the cancelling Process is left to its dead worker.
RecoverLeavesCancelling(p) ==
  /\ procStatus[p] = "cancelling" \/ execStatus[p[1]] = "cancelling"
  /\ Converge(p[1], procStatus)
  /\ UNCHANGED <<procStatus, leaseVars, fencing, retryCount, recoveryCount, commits>>

\* recover_expired_leases under a cancellation.
RecoverCancelling(p) ==
  /\ procStatus[p] = "cancelling" \/ execStatus[p[1]] = "cancelling"
  /\ IF procStatus[p] = "cancelling"
     THEN procStatus' = [procStatus EXCEPT ![p] = "cancelled"] /\ ReleaseLease(p)
     ELSE UNCHANGED <<procStatus, leaseVars>>
  /\ Converge(p[1], procStatus')
  /\ UNCHANGED <<fencing, retryCount, recoveryCount, commits>>

\* recover_expired_leases of a Process that may not run again.
RecoverFailing(p) ==
  /\ procStatus[p] # "cancelling" /\ execStatus[p[1]] # "cancelling"
  /\ p[2] \in UnsafeSteps \/ recoveryCount[p] >= MaxRecoveries
  /\ FailAndRoute(p)

\* recover_expired_leases of a Process that is replayed under a new fence.
RecoverReplaying(p) ==
  /\ procStatus[p] # "cancelling" /\ execStatus[p[1]] # "cancelling"
  /\ p[2] \notin UnsafeSteps /\ recoveryCount[p] < MaxRecoveries
  /\ procStatus' = [procStatus EXCEPT ![p] = "ready"]
  /\ fencing' = [fencing EXCEPT ![p] = @ + 1]
  /\ recoveryCount' = [recoveryCount EXCEPT ![p] = @ + 1]
  /\ ReleaseLease(p)
  /\ UNCHANGED <<execVars, taskVars, retryCount, commits>>

\* recover_expired_leases on one row.
Recover(p) ==
  /\ procStatus[p] \in Leased /\ leaseOwner[p] # NoOwner /\ ~leaseLive[p]
  /\ RecoverCancelling(p) \/ RecoverFailing(p) \/ RecoverReplaying(p)
  /\ UNCHANGED <<deadlinePassed, eligible, outbox, worker>>

\* The retry_due wait of an Execution names a Process in retry_wait.
RetryTriggered(g) == \E s \in Steps : waitingRef[g] = s /\ procStatus[g, s] = "retry_wait"

\* Mutant: undelivered messages are not looked for.
CleanupTooEarly(p) ==
  /\ procStatus'[p] \in Terminal
  /\ execStatus'[p[1]] \in Terminal
  /\ p[1] \in summary'
  /\ currentProcess'[p[1]] = 0
  /\ Quiescent(p[1], procStatus')

\* _evaluate_cleanup_eligibility_tx on one row, in the state the scan leaves.
CleanupEligible(p) ==
  /\ procStatus'[p] \in Terminal
  /\ execStatus'[p[1]] \in Terminal
  /\ p[1] \in summary'
  /\ currentProcess'[p[1]] = 0
  /\ Quiescent(p[1], procStatus')
  /\ \A m \in Messages : m[2] = p[1] => outbox'[m] \notin Undelivered

\* The scan of repair_once: drive cancelling roots, wake ready Executions that
\* have no active Process, fail waits without a trigger, clear and project
\* terminal roots, and mark the Processes whose recovery window has elapsed.
RepairScan ==
  LET cancelling == {g \in Generations : execStatus[g] = "cancelling"}
      condemned  == {g \in Generations : execStatus[g] = "waiting" /\ ~RetryTriggered(g)}
      unstarted  == {g \in Generations : execStatus[g] = "ready" /\ Quiescent(g, procStatus)}
  IN /\ FenceProcesses(cancelling)
     /\ LET converged == {g \in cancelling : Quiescent(g, procStatus')}
        IN /\ execStatus' = [g \in Generations |->
                               IF g \in converged THEN "cancelled"
                               ELSE IF g \in condemned THEN "failed" ELSE execStatus[g]]
           /\ waitingRef' = [g \in Generations |-> IF g \in converged THEN 0 ELSE waitingRef[g]]
           /\ summary' = summary \cup converged \cup condemned
     /\ currentProcess' = [g \in Generations |->
                             IF execStatus'[g] \in Terminal THEN 0 ELSE currentProcess[g]]
     /\ taskStatus' = IF execStatus'[taskRoot] \in Terminal
                      THEN ProjectedTask(taskRoot, execStatus'[taskRoot]) ELSE taskStatus
     /\ outbox' = [m \in Messages |->
                     IF m[1] = "repair_wake" /\ m[2] \in unstarted /\ outbox[m] = "absent"
                     THEN "pending" ELSE outbox[m]]
     /\ \E elapsed \in SUBSET Generations :
          eligible' = eligible \cup {p \in Processes : p[1] \in elapsed /\ CleanupEligible(p)}
     /\ UNCHANGED <<taskRoot, taskDeleted, deadlinePassed, leaseVars, retryCount,
                    recoveryCount, worker, commits>>

-----------------------------------------------------------------------------

Next ==
  \/ \E g \in Generations :
       \/ \E k \in WakeKinds : DeliverWake(k, g)
       \/ DeliverCancel(g)
  \/ \E m \in Messages : CompleteOutbox(m)
  \/ TaskCancel \/ TaskRetry \/ SoftDelete \/ DeadlinePasses
  \/ \E w \in Workers :
       \/ \E p \in Processes : Claim(w, p)
       \/ MarkRunning(w)
       \/ \E outcome \in Outcomes : Finish(w, outcome)
       \/ AcceptOutcome(w) \/ OutcomeFenced(w) \/ OutcomeAborted(w) \/ Crash(w)
  \/ \E p \in Processes :
       FailExpiredReady(p) \/ LeaseExpires(p) \/ PromoteRetry(p) \/ Recover(p)
  \/ RepairScan

Spec == Init /\ [][Next]_vars

\* The heartbeat of w succeeds; a heartbeat that fails cancels the handler.
Renewing(w) == /\ worker[w].pc = "run"
               /\ worker[w].fence = fencing[worker[w].proc]
               /\ procStatus[worker[w].proc] = "running" /\ leaseLive[worker[w].proc]

\* The lease of p is renewed by a live heartbeat loop.
Heartbeating(p) == \E w \in Workers : Renewing(w) /\ worker[w].proc = p

\* Relay, promotion, recovery and repair run in the loop of a worker, between
\* two calls of run_once: no process does them while every loop is in a handler.
BetweenRuns == \E w \in Workers : worker[w].pc = "idle"

\* Every loop that is between two calls of run_once relays, promotes, recovers,
\* repairs and claims; run_once proceeds except for its handler, which is
\* cancelled when its heartbeat fails; a lease nobody renews expires.
LoopFairness ==
  /\ \A g \in Generations : /\ \A k \in WakeKinds : WF_vars(BetweenRuns /\ DeliverWake(k, g))
                             /\ WF_vars(BetweenRuns /\ DeliverCancel(g))
  /\ \A p \in Processes : /\ WF_vars(~Heartbeating(p) /\ LeaseExpires(p))
                           /\ WF_vars(BetweenRuns /\ PromoteRetry(p))
                           /\ WF_vars(BetweenRuns /\ Recover(p))
                           /\ WF_vars(BetweenRuns /\ FailExpiredReady(p))
  /\ WF_vars(BetweenRuns /\ RepairScan)
  /\ \A w \in Workers : /\ WF_vars(\E p \in Processes : Claim(w, p))
                         /\ WF_vars(MarkRunning(w))
                         /\ WF_vars(~Renewing(w) /\ Finish(w, "retryable"))
                         /\ WF_vars(AcceptOutcome(w) \/ OutcomeFenced(w))

\* Handlers return.
HandlerFairness == \A w \in Workers : WF_vars(\E outcome \in Outcomes : Finish(w, outcome))

SupervisedSpec == Spec /\ LoopFairness

-----------------------------------------------------------------------------
(* Properties. *)

TaskRowOK ==
  /\ taskStatus \in TaskStatus /\ taskRoot \in Generations
  /\ taskDeleted \in BOOLEAN /\ deadlinePassed \in BOOLEAN

ExecutionRowsOK ==
  /\ execStatus \in [Generations -> ExecutionStatus]
  /\ waitingRef \in [Generations -> Steps \cup {0}]
  /\ currentProcess \in [Generations -> Steps \cup {0}]
  /\ summary \subseteq Generations

LeaseRowsOK ==
  /\ leaseOwner \in [Processes -> Workers \cup {NoOwner}]
  /\ leaseLive \in [Processes -> BOOLEAN]

ProcessRowsOK ==
  /\ procStatus \in [Processes -> ProcessStatus]
  /\ fencing \in [Processes -> Nat]
  /\ retryCount \in [Processes -> Nat]
  /\ recoveryCount \in [Processes -> Nat]
  /\ eligible \subseteq Processes
  /\ commits \in [Processes -> Nat]

OutboxRowsOK == outbox \in [Messages -> {"absent", "pending", "in_flight", "done", "dead"}]

WorkersOK ==
  worker \in [Workers -> [pc : {"idle", "claimed", "run", "submit", "fallback"},
                         proc : Processes, fence : Nat, outcome : Outcomes]]

\* Every row holds values its columns admit.
TypeOK ==
  TaskRowOK /\ ExecutionRowsOK /\ LeaseRowsOK /\ ProcessRowsOK /\ OutboxRowsOK /\ WorkersOK

\* A Process row names a lease owner exactly while it is leased: no path of
\* accept, recovery, cancellation or expiry leaves a stale owner behind, and
\* none leaves a leased row without one (such a row is never recovered).
LeaseDiscipline ==
  \A p \in Processes : leaseOwner[p] # NoOwner <=> procStatus[p] \in Leased

\* Fencing makes ownership unique: no worker holds a fence from the future, no
\* two workers hold the same fence of a Process, and the holder of the current
\* fence of a claimed or running Process is the worker the lease names.
FenceOwnership ==
  \A w \in Workers : worker[w].pc # "idle" =>
    LET p == worker[w].proc
    IN /\ worker[w].fence \in 1..fencing[p]
       /\ worker[w].fence = fencing[p] /\ procStatus[p] \in {"claimed", "running"}
            => leaseOwner[p] = w
       /\ \A v \in Workers \ {w} :
            worker[v].pc # "idle" /\ worker[v].proc = p => worker[v].fence # worker[w].fence

\* Steps run in the order of the route: a Process exists only when every
\* earlier Process of its Execution succeeded.
PipelineOrder ==
  \A g \in Generations : \A s \in Steps : \A t \in Steps :
    t < s /\ procStatus[g, s] # "absent" => procStatus[g, t] = "succeeded"

\* A success is committed once: crashes, lost acknowledgements, retries and
\* replays under a new fence never run the outcome committer twice, and never
\* keep its effects without the Process success.
EffectOnce ==
  \A p \in Processes : commits[p] = IF procStatus[p] = "succeeded" THEN 1 ELSE 0

\* S03-T044: a nonterminal Execution has a claimable or leased Process, a
\* pending wake, a retry wait with its Process, or a cancellation to drive;
\* S03-T048: a terminal Execution has no active Process.
NotStranded ==
  \A g \in Generations :
    /\ execStatus[g] \in {"ready", "running"} =>
         \/ \E s \in Steps : procStatus[g, s] \in {"ready", "claimed", "running"}
         \/ \E k \in WakeKinds : outbox[k, g] = "pending"
    /\ execStatus[g] = "waiting" => RetryTriggered(g)
    /\ execStatus[g] \in Terminal \cup {"absent"} => Quiescent(g, procStatus)

\* The Task row is a projection of its current root Execution, and the trees
\* of earlier generations are terminal and summarised.
TaskMatchesRoot ==
  /\ taskStatus \in Terminal \cup {"cancelling"} => execStatus[taskRoot] = taskStatus
  /\ taskStatus \in {"queued", "running"} => execStatus[taskRoot] \in {"ready", "running", "waiting"}
  /\ \A g \in Generations : g < taskRoot => execStatus[g] \in {"failed", "cancelled"}
  /\ \A g \in Generations : execStatus[g] \in Terminal <=> g \in summary

\* current_process_uuid of a ready or running Execution never names a terminal
\* Process: the state repair_once calls stalled is unreachable, because every
\* terminal Process routes in the transaction that made it terminal.
NeverStalled ==
  \A g \in Generations : \A s \in Steps :
    execStatus[g] \in {"ready", "running"} /\ currentProcess[g] = s
      => procStatus[g, s] \in {"ready", "claimed", "running"}

\* An outcome commits only for the worker that owns the current lease fence,
\* under a running Task: never for a superseded generation, never after a
\* cancellation was accepted.
CommitByOwner ==
  [][\A p \in Processes : commits'[p] # commits[p] =>
       /\ \E w \in Workers : /\ leaseOwner[p] = w /\ worker[w].proc = p
                              /\ worker[w].fence = fencing[p] /\ worker[w].pc = "submit"
       /\ p[1] = taskRoot /\ taskStatus = "running"]_vars

\* An accepted cancellation is final: the Task never leaves cancelling for
\* anything but cancelled, and no business commit happens in between.
CancelIsFinal ==
  [][taskStatus = "cancelling" => /\ taskStatus' \in {"cancelling", "cancelled"}
                                  /\ commits' = commits]_vars

\* A terminal Execution is read-only for ever: its status and the rows of its
\* Processes never change again, whatever stale worker, late message or repair
\* still refers to it.
TerminalFrozen ==
  [][\A g \in Generations : execStatus[g] \in Terminal =>
       /\ execStatus'[g] = execStatus[g]
       /\ \A s \in Steps : procStatus'[g, s] = procStatus[g, s] /\ fencing'[g, s] = fencing[g, s]]_vars

\* A Process marked for cleanup is out of reach: no undelivered message still
\* refers to its Execution, so nothing can resume or reread what cleanup removes.
CleanupIsQuiescent ==
  \A p \in eligible : \A m \in Messages :
    m[2] = p[1] => outbox[m] \notin Undelivered

\* The steps whose business effects the current generation has committed.
Committed == {s \in Steps : commits[taskRoot, s] > 0}

Lifecycle == INSTANCE TaskLifecycle WITH
  Steps <- StepCount, Generations <- MaxGenerations,
  status <- taskStatus, generation <- taskRoot, done <- Committed

\* The engine with its leases, messages, crashes and repairs shows a client
\* nothing but the simple life of a Task that TaskLifecycle describes; the one
\* move of it that the Task API does not announce is FailUnstarted.
ImplementsLifecycle == Lifecycle!Spec

\* Every accepted cancellation converges, even if the handler that is running
\* never returns: the lost fence frees the loop that must drive the rest.
CancelConverges == taskStatus = "cancelling" ~> taskStatus = "cancelled"

\* Where handlers return, every Task settles: retries and recoveries are
\* budgeted, so however often workers crash or outcomes abort, the Task reaches
\* a terminal status.
TaskSettles == HandlerFairness => (taskStatus \notin Terminal ~> taskStatus \in Terminal)
=============================================================================
