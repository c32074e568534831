# A verification project for myknowledgebase

myknowledgebase (MKB) is a knowledge-base server: a client submits a *Task*
(ingest this object, page or collection; rebuild; update metadata; delete), the
server runs it as a durable workflow and publishes the resulting text and
vectors for retrieval.  Everything durable is in one relational database and one
content-addressed object store; everything that happens is driven by rows of
that database.  This directory holds TLA+ modules for the parts whose
correctness depends on interleaving, failure and order, TLC configurations that
check them on small instances, and TLAPS proofs of the main invariants for every
instance.

## 1. The system

### 1.1 Parts, state and operations

| Part | State | Operations | Interacts with |
|---|---|---|---|
| Task API (`runtime/task`) | `mkb_tasks`: status, generation, current root | create, patch, cancel, retry, soft delete, project status | inserts root Executions and outbox messages; is written back by the engine |
| Workflow engine (`runtime/workflow`) | `mkb_executions`, `mkb_processes` (status, fence, lease, budgets) | materialize, claim, start, heartbeat, accept outcome, promote retry, recover lease, cancel tree, converge, terminalize | Task projection, outbox, outcome committer |
| Worker loop (`worker.py`) | one claim in memory | claim, run the stage handler, submit, fall back | engine, stage handlers |
| Supervisor (`workflow_supervisor.py`) | none | per tick: relay one message, run a worker, repair | all of the above |
| Outbox (`runtime_outbox.py`) | `mkb_outbox`: status, lease, attempts | lease, dispatch, complete, release, declare dead, requeue | engine handlers; fails Executions when a message dies |
| Repair (`runtime_repair.py`) | none | promote, recover, continue cancellations, wake, fail invalid waits, re-project, mark cleanup | engine, outbox |
| Gates (`runtime_gates.py`) | `mkb_execution_gates`, decisions | open, resolve, deliver the decision | waits of Executions |
| Scatter (`runtime_scatter.py`) | child Executions, membership | materialize children, release, join | root Execution, cancellation tree |
| Dispatch (`dispatch.py`) | pool and admission columns of Processes | admit, choose pool, count | claim |
| Operator control (`operator_control.py`) | command receipts | stop Execution, restart Process, requeue message, resume cleanup | reaches into engine and outbox rows |
| Object store (`storage/local_store.py`) | files: staging, CAS path, quarantine | promote, read, quarantine, restore, destroy | uploads, committer, collector |
| Uploads (`object_upload*.py`) | `mkb_stored_objects`, sessions, `upload_pending` references | upload, reserve, consume, cancel, TTL scan | object store, ingest |
| Collector (`object_gc.py`) | delete proofs, tombstones | reconcile quarantine, collect, delete | object store, catalogue, references |
| Intake (`runtime/intake`) | candidate sets, snapshots, revisions, artifacts | acquire, clean, accept, construct, vectorize, publish, rebuild | stage handlers of the engine, object references |
| Index (`vector_publish_commit.py`, `index_*`) | vectors, active pointers, retirement intents | publish, rebuild, retire, purge | retrieval |
| Lifecycle (`intake_lifecycle`) | Item state and transitions | deactivate, reactivate, delete, publish | index pointers, references, cleanup jobs |
| Workflow plans (`workflows/lsrag_definition.py`, `runtime_materialize.py`, `binding/actual_s05.py`) | registered revisions, routes, bindings, sealed actual binding | route decision, materialization, selected output, control steps | engine, stage handlers, gates, scatter |
| Generation (`intake/generation_*`, `clean_preflight.py`) | invocation ledger, stashed evidence, artifact packages | transcribe, structurize, construct, refresh, salvage | inference facade, CLI router, compiler, outcome committer |
| Inference (`runtime/inference`) | concurrency gates, fallback rotation (memory) | call with attempts and backoff, route to a CLI provider | generation, vectorize, retrieval |
| Retrieval (`services/retrieval`, `persistence/retrieval_access.py`) | none | scan, rank, eligibility, fence, trace back, pack | reads index, Item and objects |
| Registries, configuration, API | versioned rows | bootstrap, routing of requests | stage handlers |

`PROJECT.json` lists the same parts with their files, what is modelled of each
and the reason where nothing is.

### 1.2 What is hard

* Every method of the engine is one `BEGIN IMMEDIATE` transaction under a write
  lock, but a piece of *work* is many of them: a worker claims, starts, runs and
  submits in four; a message is handled and completed in two; the collector
  checks, renames, tombstones and destroys in two transactions and two file
  operations.  Anyone may die in between, and everyone else goes on.
* Leases expire while their owner still runs.  Ownership is decided by a fence
  (`fencing_generation`), and it is the whole protection against two workers
  committing one step.
* Commands arrive at any moment: cancel during a commit, retry while messages
  and workers of the old generation are still about, an operator's restart
  while a worker submits.
* The Task row is a projection of the root Execution, maintained step by step,
  and wrong for ever if one step forgets it.
* Where a Task goes next is data: a plan with guarded routes, evaluated on facts
  that stages observed earlier.  A path nobody tried can lack an input, and a
  message delivered twice can start a step twice.
* Model calls are slow, fail half-way and share bounded pools; what they leave in
  memory (leases of a gate, evidence of a failed call) must survive every exit.
* A search reads several snapshots while the Item it found is withdrawn.
* Object bytes are outside the database: no transaction covers a rename and a
  tombstone.

## 2. Modules

| Module | Models | Kind |
|---|---|---|
| `TaskLifecycle` | the life of one Task as the public Task API shows it: the moves S02-T009 and S02-T010 allow, and the one more the code makes | abstract specification |
| `WorkflowEngine` | one Task: its generations, Processes, workers, messages, commands, recovery, repair | component |
| `OperatorControl` | the engine plus operator commands and dead letters | composition (EXTENDS `WorkflowEngine`) |
| `ObjectStore` | one digest of one Team: bytes, rows, holds, ingest, TTL scan, collector | component |
| `ItemIndex` | one Intake Item: admission, acceptance, review decisions, vectorize, publication, commands, index rebuild, retirement | component |
| `WorkflowGraph` | the built-in plans as data, the rules of registration, the route decision | definitions |
| `IntakeStages` | what acquisition, decoding, cleaning and preflight can observe and refuse | definitions (EXTENDS `WorkflowGraph`) |
| `WorkflowRouting` | a Task's tree of Executions on its plan: routes, inputs, binding, review, scatter, cancellation | composition (EXTENDS `IntakeStages`) |
| `Generation` | dispatch pools, model-bearing handlers, inference facade, CLI router, evidence | component |
| `Retrieval` | a search against every writer of the Item and its index; ranking and packing as functions | composition (EXTENDS `ItemIndex`) |
| `MCWorkflowEngine`, `MCOperatorControl`, `MCObjectStore`, `MCItemIndex`, `MCWorkflowRouting`, `MCGeneration`, `MCRetrieval` | instances for TLC | model checking |
| `WorkflowFencingProofs`, `WorkflowLifecycleProofs`, `OperatorControlProofs`, `ObjectStoreProofs`, `ItemIndexProofs`, `GenerationProofs`, `RetrievalProofs`, `WorkflowRoutingProofs` | theorems | proofs |

Definitions named `...Unguarded`, `...Held`, `...KeepOwner` and the like, each
under a comment `Mutant:`, are no part of any specification: each is a plausible
bug that must make the property it is paired with in `PROJECT.json` fail.

### 2.1 `WorkflowEngine`

One Task.  Rows are functions: `execStatus[g]` is the root Execution of
generation `g`, `procStatus[g, s]` the Process of step `s` in it, with `fencing`,
`leaseOwner`, `leaseLive` (the lease has not expired), `retryCount` and
`recoveryCount` beside it.  `worker[w]` is what a worker loop holds in memory:
where it is, the Process and fence of its claim, and the outcome it will submit.
`outbox[m]` is the status of message `m`; a message is named by its kind and
generation because its dedupe key is.

| Action | Code |
|---|---|
| `Claim`, `FailExpiredReady` | `claim_next`, `_fail_expired_ready_tx` |
| `MarkRunning`, `Finish` | `mark_running`; the handler returns, raises or is cancelled by a lost heartbeat |
| `AcceptOutcome`, `OutcomeFenced`, `OutcomeAborted` | `accept_outcome` commits, refuses, or is rolled back; the three `except` branches of `run_once` |
| `Crash` | the worker dies, or `run_once` raises |
| `LeaseExpires`, `PromoteRetry`, `Recover` | the clock, `promote_due_retries`, `recover_expired_leases` |
| `DeliverWake`, `DeliverCancel`, `CompleteOutbox` | `dispatch_outbox_once` and its completion |
| `TaskCancel`, `TaskRetry`, `SoftDelete` | `TaskService` |
| `RepairScan` | the transaction of `repair_once` |

Abstractions.  The graph is a chain: once guards are decided, each built-in graph
is one.  Payloads, digests, events and counters are left out: no guard of a
modelled action reads them (a success without its typed proof is the outcome
"failed").  Time is nondeterministic: a lease, a retry delay, a deadline or a
recovery window may run out at any moment.  `wake_process` messages are left out
because their handler only validates the payload.  Batches over independent rows
(promotion, recovery) are taken row by row.  The repair of a stalled Execution
is left out of `RepairScan` because `NeverStalled` shows its condition cannot
arise.

### 2.2 `OperatorControl`

Adds `StopExecution`, `RestartProcess`, `DeadLetter` and `RequeueOutbox`.
Receipts only make a command idempotent; a replay is a stuttering step.
`OperatorSpec` has all of them at once and is what the theorems of
`OperatorControlProofs` are about; `StopSpec` and `DeadLetterSpec` have one kind
of interference each, so that the counterexamples of their runs are short.

### 2.3 `ObjectStore`

Digests do not interact, so one is enough.  `live` and `quarantine` are the two
places its bytes can be; `rowState` the catalogue rows it has had (at most one
is live); `session`, `held`, `pending`, `business` the references.  `put` is the
set of callers between promotion and catalogue.  The collector is a program
counter `scanStep` with its `candidate` and whether the candidate's
`unowned_at` has `moved` since.  `overlapped` is history: a deletion completed
while a put was in flight.  Anonymous uploads share a session row per digest
that nobody can name; only their holds are kept.

### 2.4 `ItemIndex`

One Item and the namespaces of its Team.  A job is an Execution that is admitted
with a frozen view of the Item (`jobRev`, `jobNs`, `jobEpoch`) and acts on it in
the transaction of a later Process outcome; what the engine does in between is
`WorkflowEngine`'s concern, here it is only time in which everyone else acts.
`lifecycle`, `latest`, `serving` and `epoch` are the Item row, `nsGen` the
generation counter of a namespace, `pointerGen`, `pointerState` and
`pointerProof` the active pointer, `recState` and `purged` the vector records a
job wrote, `intents` the open retirement intents.

| Action | Code |
|---|---|
| `AdmitIngest`, `AdmitMetadata`, `AdmitRebuild`, `AdmitIndexRebuild`, `AdmitCommand` | `resolve_tx`, `resolve_*` of targets |
| `AdmitFullRetry` | the replay branch of `_accept_snapshot` |
| `AcceptSnapshot`, `AcceptMetadata`, `AcceptRebuild` | the acceptance transactions |
| `GateApproves`, `GateRejects` | `consume_gate_decision` with its effect on the Item |
| `ReadGeneration`, `Vectorize` | `_vectorize_from_construct` up to the embeddings, and its outcome transaction |
| `VectorizeFenced`, `VectorizeRetried` | the loser of a generation fails for good (a typed error of the outcome transaction is terminal); a failed model call or a lost lease reads the generation anew |
| `OtherItemReserves` | the same reservation by another Item |
| `Publish` | `_publish` with `publish_revision_tx` and `schedule_retirement_tx` |
| `ApplyCommand` | `apply_tx` |
| `PlanRebuild`, `CommitRebuild` | `_plan_index_rebuild`, `_commit_index_rebuild` |
| `Discover`, `SoftPurge` | `discover_retirements`, `soft_purge` |
| `JobFails` | refusal, failure or cancellation of the Execution |

A revision is a number because content is identified by its fingerprint: the same
content gets its old revision back.  `known` is the set of revisions the Item has:
a review of content that is already there finds no evidence and fails
(`AfterAccept`).  `owner` and `suspended` are history.
Collections with several Items are left out: every statement of these
transactions is per Item, only the namespace counter is shared.

### 2.5 `WorkflowGraph`, `IntakeStages`, `WorkflowRouting`

`WorkflowEngine` follows one Process through leases and retries over an abstract
chain.  These modules do the opposite: a Process only reports an outcome, and the
plans are the real ones.  `WorkflowGraph` holds the four built-in plans and the
child plan as sets of routes and bindings, with `WellFormed`, the rules by which a
definition is registered, and `RouteDecision`, the interpreter's choice by outcome,
guard and priority.  `IntakeStages` says what a stage may report of its input:
media families, PDF text layers, main text, refusals, and the admission of a
preflight.  `WorkflowRouting` has the tree of Executions of one Task: `ex` and
`procs` are its rows, `fact` the latest observation of the root, `staging` the
candidate set, `sealed` and `selected` the actual binding and the selected output,
`gate` the review, `mail` the messages not yet acknowledged.

| Action | Code |
|---|---|
| `Wake`, `ConsumeGate` | `materialize_root`, `consume_gate_decision`; the message may stay and come again |
| `Claim`, `Fail`, `CancelAck` | a Process starts, fails, or acknowledges its cancellation |
| `Acquire`, `Decode`, `Clean`, `SealCandidates`, `Preflight`, `Generate` | the success of a stage with `_apply_routes_tx`: route, seal, manifest, materialize, control step |
| `AcceptSnapshot`, `AcceptCollection` | acceptance; a collection creates its children, held for review or started |
| `DecideGate`, `RequestCancel` | `decide_gate`, cancel of the Task with `_cancel_execution_tree_tx` |

What these share is written as functions of a `World` (the rows a transaction
sees): `Enter` takes a route, `JoinChildren` and `ConvergeScatterRoot` are the join,
`CancelTree`, `NotifyParent` and `Terminalize` the end of an Execution with its
effect on parent and children.  `OpenGate` asks for the evidence a review is bound
to, `ItemEvidence` of one Item or `CollectionEvidence` of a collection, and fails
the Execution without it.

`AdmissibleTasks` is what admission lets through, and the run takes all of it: a
plan for each source kind, every intent, strategy and mode.  A pure replay intent
never seals a binding.  Retries and generations are `WorkflowEngine`'s concern.

### 2.6 `Generation`

A Task is a list of model-bearing Processes; its live Process has a `status`,
`fence`, budgets and a `place` (waiting, unpooled, or a dispatch pool).  `older` is
the order of `available_at`, `created_at` and uuid: a strict order of all Tasks.  A
`handler` is what a worker has in memory: how far it is, through which transport,
the unit of a gate it holds (`lease`), its attempts and the providers still to try.
A gate (`facade`, `router`) is the pair of counters `ConcurrencyGate` keeps, in
total and per capability or provider.  `pending` is the stashed evidence of
failed calls, `ledger` the invocation rows, `commits` the packages made current.

| Action | Code |
|---|---|
| `Claim` | `claim_next`: release under the capacity reserve, admission, choice over pools |
| `InputsRefused`, `Begin` | a handler up to its first call: frozen policy, handed-over package, refresh source, configuration |
| `FacadeAnswers`, `FacadeBacksOff`, `FacadeResumes`, `FacadeFails` | `_invoke` of the facade |
| `AgentAnswers`, `AgentFallsBack`, `AgentFails` | `AgentCliRouter.run` |
| `KernelRejects` | the verdict of the LSRAG kernel on what a model answered |
| `SubmitSuccess`, `CommitAborts`, `SubmitFailure`, `SubmitRefused` | `accept_outcome` with evidence and package |
| `HandlerInterrupted`, `Recover`, `Promote`, `RestartProcess`, `RepairWait`, `CancelTask`, `Crash` | heartbeat loss, supervisor, operator, repair, command, death of the server |

The loop of `_admit_waiting_processes_tx` is `Admits`: `pl` is its outcome when each
waiting Process has the place that `choose_pool` gives it after those whose turn is
earlier (`Earlier`, `Handed`).  The turns are in a strict order, so exactly one `pl`
satisfies it, and no recursion over the rows is needed to say so.

Which transport a stage uses is `Transport`, from the pool and the configuration
(`_compression_channel`, `_summary_transport`, `_clean`).  A construct in the local
pool whose local model gave nothing usable is salvaged once through the CLI
(`CanSalvage`).  The chunks of a long structurize source, each a CLI call of its
own, are one call.  `MaxMishaps` bounds crashes, lost leases, restarts and
cancellations together; what has to happen is not counted: the recovery of a
Process whose holder died, or lost the fence to a cancellation.  `CancelTask`
raises the fence, so the Outcome of a cancelled Process is refused and changes
nothing (`SubmitRefused`); only `Recover` ends it, once its lease has expired.

### 2.7 `Retrieval`

Extends `ItemIndex` with one search: `Scan`, `CheckEligibility`, `Revalidate`,
`Return`, `SearchFails`, and `Interfere`, which is any step of `ItemIndex` between
two snapshots.  A search writes nothing, so one shows every interleaving.
`steady` and `witnessed` are history: the held records were servable ever since
the scan, and at some moment since the eligibility check.  After the last snapshot
the answer is a function of what was read, and `AnswerSound` checks it for all of
that within the bounds:

| Definition | Code |
|---|---|
| `VectorRows`, `Catalogues` | `vectorization_plan`, without a record for an empty channel; and the records that may stand beside a plan's |
| `Ranked`, `Thresholded` | `_rank_ann_candidates`, the cut at `recall_k`, the score threshold and `below_threshold` |
| `Work`, `Inflation` | traceback to the original, `_inflate_documents`, which cuts a long root |
| `Deduplicate`, `Reranked`, `Results` | `_deduplicate`, `_rerank`, the first `return_k` |
| `Segment`, `PackFocus`, `PackRoot`, `PackOne`, `Pack` | `_pack_segment` and `_pack`: the hit, then the whole document out of the same budget |

A length stands for a text.  `AnswerSound` has two halves: the results of every
request over one document of two units, and the pack of every sequence of up to
three results of two documents that a search could hand to `_pack`, whichever
search that is.

## 3. Runs

| Run | Shows |
|---|---|
| `engine_steps` | leases, fences, step order, single commits, no stranded or stalled Execution, cancellation is final |
| `engine_generations` | the Task mirrors its current root, old generations are frozen, cleanup marks only what nothing can resume, refinement of `TaskLifecycle` (with its `FailUnstarted`, see section 6) |
| `engine_liveness` | cancellation converges even if the running handler hangs; every Task settles if handlers return |
| `operator_stop`, `operator_dead` | two disagreements between code and documents (section 6) |
| `object_gc` | holds protect rows, referenced bytes are kept and return from quarantine |
| `object_reuse` | a third disagreement (section 6) |
| `index_publish` | what is served is published, pointers only advance, retirement stays behind them, the latest revision is not shut out, delete is final |
| `index_gate` | a fourth disagreement (section 6) |
| `routing` | no plan runs into an integrity failure, no step twice, cleaners fit, review before generation, complete joins, nobody without a trigger |
| `generation` | gates balanced, pools within caps, lanes respected, packages, succeeded calls and Outcomes agree, every Task settles |
| `retrieval` | answers were served, steady hits are found, results and packs are sound |

Bounds.  Two workers are what a fence separates; a third adds no new overlap.
Two steps give a first, a last and a route between them, one of them unsafe to
replay.  One retry and one recovery reach both sides of each budget, and two
generations give an old and a current tree.  In the object store two clients
make two puts overlap, two rows give a tombstoned and a successor row, one key
and one reference per purpose suffice because keys do not interact except
through the row.  `HasDeadline` says whether the Task was created with the
optional `deadline_at`; the generations run leaves it out, the others let it pass
at any time.  Each configuration names its constants; the proofs remove the
bounds.

Three jobs on one Item give a first publication and two jobs that race after it
(two rebuilds, a publication and a command, an ingest and a review); two
namespaces are a change of the embedding model; one generation taken by another
Item is enough to fence a reservation.  These runs switch deadlock checking off
because a finite set of Executions ends.

`routing` takes every admissible request; two children give a first and a last to
join.  `generation` has two Tasks and two workers on one slot of every pool, gate
and provider, two providers, two attempts of a call and one mishap: each limit is
reached, each fallback taken, and a mishap can hit any moment of the other Task.
Its four workloads pair the stages that compete (local and CLI generation of
different priority; a clean with a refresh; construct with vectorize; a source over
the local budget).  `retrieval` has three jobs and two namespaces, so that what was
found can be replaced, withdrawn and served again; the five rows are all a document
of two units can have.  Three results meet a pack of two hits and two characters;
a text is of one character or of three, so one fits, two fill the budget, a longer
one is cut, and what follows finds nothing left; a root is cut at two.

Fairness.  `LoopFairness`: every supervisor loop runs for ever (`run` catches
every exception and ticks again), but it awaits `worker.run_once`, so relay,
promotion, recovery and repair are fair only in states where some loop is
between two calls (`BetweenRuns`).  A claimed Process is started, an outcome is
submitted, a handler whose heartbeat fails is cancelled, and a lease nobody
renews expires because time passes.  `HandlerFairness` adds that handlers return
(every stage call has a timeout); a crash is always possible and never required.
`CancelConverges` needs the first only: cancellation fences the running Process,
the heartbeat of its handler fails, and the loop is free again.
`Generation` needs less: `WF_vars(Progress)` says only that while a worker can
claim, a call can end or the supervisor can promote, recover or repair, something
of this happens; retries, attempts, recoveries and mishaps are bounded by the code
or the model.  `TasksSettle` leaves out Tasks the capacity reserve holds back on
purpose.
`ScanFairness`: the scanner loop runs for ever and is not killed in each
reconciliation (strong fairness of its read and its restore).

## 4. Proofs

TLAPS proves, for all values of the constants allowed by the named assumptions:

* `TypeCorrect`: `Spec => []TypeOK` for the engine.
* `FencesOwned`, `LeasesDisciplined`, `EffectsOnce`, `StepsOrdered`.  None of
  the four is inductive alone; their conjunction with `TypeOK` is.  Fence
  uniqueness rests on the fence of a Process never decreasing and a claim taking
  the next one; that a success commits once rests on the submitting worker
  holding the current fence of a *running* Process; step order on a route
  creating only the successor of a Process that has just succeeded.
* `StoreTypeCorrect`, `SessionsOwnHolds`, `HoldsAreSafe`, `BytesAreKept`.  That
  referenced bytes are kept needs what the collector knows at each of its steps:
  `FlightHasBytes` (a put in flight without a live row has its bytes on the CAS
  path), `SafePurge` (where a quarantined copy may be dropped, a row that
  appeared meanwhile came with bytes of its own), `CandidateLive` and `OneLive`.

* `IndexTypeCorrect`, `ServedPublished`, `RetirementBehind`, `PointersAdvance`,
  `DeleteFinal`.  The inductive invariant adds that a pointer's proof is a finished
  job whose record set has exactly the pointer's generation (`ProofsCurrent`), that
  a job has no records before it vectorizes or commits (`NoRecordsYet`) and that
  only existing records are purged: so a generation that is read, planned or given
  back is never one the scanner has already dealt with, and what lies at the
  pointer is never behind it.

* `OperatorFencesOwned`, `OperatorLeases`, `OperatorEffectsOnce`,
  `OperatorStepsOrdered`: the fencing invariants of `OperatorSpec`.  The operator's
  steps are no steps of the engine; the same inductive invariant is kept because each
  of them raises the fence of every row it takes from a worker.
* `OperatorCommitsByOwner`: `CommitByOwner` of `OperatorSpec`.  A dead letter leaves a
  running Process under a failed Execution and a stop leaves a Task without an open
  one, so `LifeInv` is lost.  `Current` keeps what is needed: only the current
  generation can be open, only under a live Task, its Process runs only under a
  running one, and no Process exists beyond it.  Hence nothing commits in a tree that
  a stop or a dead letter has ended, although its workers are still at it.
  `TerminalFrozen` and `CancelIsFinal` do not extend: a restart changes a row under a
  dead Execution, and a dead letter fails a cancelling Task.
* `AnswersServed`, `SteadyFound`: the fences of a search.  `SearchInv` says what the
  history remembers at each snapshot.  No invariant of `ItemIndex` is needed: the
  theorems hold whatever the writers do, because the last fence names every fact
  of the scan and the eligibility check is a part of it.  `PackingIsHonest`: packing
  one more result, with the text of its whole document if that is due, keeps both
  budgets; it packs all of that text or marks the pack truncated for good; and it
  marks it only when a budget is used up, a text is cut, or there is neither a text
  nor a reference (`SegmentFits`, `FocusIsHonest`, `RootIsHonest`).

* `NothingStranded`, `NothingStalled`, `TaskProjectsRoot`, `CleanupQuiescent`,
  `CommitsByOwner`, `CancellationFinal`, `TerminalIsFrozen` and
  `EngineImplementsLifecycle`, the refinement of `TaskLifecycle`
  (`WorkflowLifecycleProofs`).  `LifeInv` strengthens the fencing invariant with
  what the status of an Execution says of its rows and messages (`ExecutionOK`: an
  open one has an unhandled first wake or a live current Process, a waiting one its
  current Process in `retry_wait`; `MessagesOK`: a cancel message exists only for an
  Execution that is cancelling or has ended), with `TaskOK` (earlier generations
  ended without success, later ones do not exist), with what may be marked for
  cleanup, and with the fact that a Process runs only under the running Task's
  current generation.  The last is why a commit is one of the abstract Task life's
  steps, why nothing commits after a cancellation, and why a terminal tree is frozen.
* `LatestPublishable` (`LatestInv`): the owner carries the latest revision, what a
  job vectorized is withdrawn and of a generation its namespace has reserved, no
  pointer is ahead of its namespace, and the pointer passes the owner's generation
  only for the same revision.
* `GatesBalanced`, `PoolsBounded`, `LanesRespected`, `OutcomesCoherent`
  (`GenerationProofs`), for any workload, plans of any length, any provider plan and
  any capacities.  A handler carries the key of the Process it claimed and a pool of
  its Task's lane (`Claimed`), so where a call may go is settled at the claim and
  again only by the salvage; it holds a lease exactly while it calls, so every step
  of a handler is one of `Works` (what is held is given back, what is taken had
  room), which keeps the counters equal to the leases.  A queue grows at a claim only
  by admission, and the last one admitted to a pool (`LastExists`, from the
  well-foundedness of strict inclusion of finite sets) found room in it; an operator
  restart alone puts a Process back with its place.  A running Process is unfinished
  and has no row or package (`CommitsOK`, `LedgerOK`), so the one Outcome its fence
  admits writes the only ones, and `INSERT OR IGNORE` ignores nothing.  `LedgerOK`
  also says that failed rows belong to the Process that failed its Task.  That is how
  the code has it, not what its documents want (section 6): it is a part of the
  induction and of no property.

* `StepsHappenOnce`, `ReviewComesFirst`, `FanInIsComplete`, `NothingIsStranded`
  (`WorkflowRoutingProofs`), for every admissible request, any set of members and
  any book of plans of the stated shape.  They are consequences of one inductive
  invariant (`RoutingInvariant`), because a wake or a gate decision may be delivered
  again long after it did its work, decides its route once more from rows that have
  moved on, and is harmless only if it finds the Process it made.  Its parts:
  `Path` (the Processes of an Execution are a path through its plan: one per step,
  the one at work beyond all others, the start among them), `Row` (what a status says
  of Processes, messages and the wait), `GateOK` (a gate is entered once; after its
  release the Process it resumed with is there), `Family` (what the root's row says
  of its children), `Unreviewed` (before the release nothing is generated and no child
  runs), `StagingOK` (the admission is the one the request asks for) and `InputsOf`
  (the inputs and the seal of a materialized step are never taken back: without it a
  redelivered wake could fail an Execution whose start step is already done).

Assumptions are the named `ASSUME`s of the modules.  Those of `Generation` say that
Tasks and workers are finite sets, that a request has a nonempty plan of known
stages, that every limit of a gate lies within its total (`ConcurrencyGate` refuses
any other) and that wired providers have one.  Those of `WorkflowRouting` are about
plans: each obeys the rules of registration (`PlanBookAssumption`), and
`ShapeAssumption` says what the built-in definitions have in common beyond them:
every route leaves fewer steps ahead, a failed step ends its Execution, start and
resume are chosen by the frozen request (`PlanShape`), a collection ends well only
behind its join (`ScatterShape`), and generation is entered from a review, on an
admission without one, or by a replay of accepted content (`ReviewShape`).  Each is a
statement about single routes; TLC evaluates them on the built-in plans in every run
of `routing`.

Only model-checked:

* `CancelConverges`, `TaskSettles`, `BytesReturn`, `TasksSettle`: liveness under
  fairness is out of the prover's reach.
* `AnswerSound`: what sorting, selecting and folding compute is induction over
  sequences.  Only the step of the fold is proved (`PackingIsHonest`).
* `PlansNeverStick`, `CleanerFits`: which outcome meets which guard, and which inputs
  were produced on the way, are facts about the particular routes and bindings of the
  five plans.  Assumptions strong enough to prove them would be the properties again,
  written over the graph; TLC enumerates the plans instead.

## 5. Not modelled

* Text: parsing, cleaning, compilation of LSRAG documents, embedding arithmetic.
  They are calculations on content; the models keep whether they refuse.
* Registries, configuration, governance, Task views, observability, HTTP routes:
  versioned rows written by single commands, and read sides.
* The persistence layer is assumed to give serialisable transactions; the
  migrations are run once.
* Creation of a Task under an idempotency key, competing observation reservations,
  the steps of cleanup jobs, the hard purge of vectors (`purge_generation` has no
  caller), several Items in one index rebuild.
* In `Generation`: an embed call is one batch, a chunked CLI call one call; other users of the shared gate (OCR,
  the browser, `pdf.parse`) and the admission of whole commands by
  `model_capacity.py`.
* In `WorkflowRouting`: retries and generations of a collection, changes of its
  membership, and plans of older revisions beyond being well formed.
* In `Retrieval`: facet filters, the hydration cache, and namespaces with more
  records than `candidate_scan_limit`; bodies that fail their integrity check or whose
  granularity contradicts the catalogue (they fail the search).  The results half of
  `AnswerSound` has one document, so the limit on inflated documents (`skipped`) is
  not met; the order of records with equal scores is fixed, and the order a rerank
  model gives is a reversal.

## 6. Findings

Shown by a run:

1. `stop_execution` cancels the Execution and not the Task (`operator_stop`).
2. A dead letter fails an Execution without fencing its Processes
   (`operator_dead`).
3. A put can be catalogued after its reused bytes were destroyed
   (`object_reuse`).
4. The approval of a review activates an Item that an operator deactivated while
   the review was open; the documents say that only a reactivate command does, and
   that a gate decision changes no Intake state (`index_gate`).

Met while modelling, in the models but without a run of their own:

* A Task that no worker has started can fail: `project_task_status_tx` takes a queued
  Task to failed (`task_projection.py:70`), after a deadline, an exhausted recovery or
  an integrity failure before its first Process runs.  S02-T009 lists the edges of a
  Task: "基础边只有 queued → running/cancelling、running → succeeded/failed/cancelling、
  cancelling → cancelled" (`docs/baseline/domain-truth/S02-task-api.md:158`), and
  `D02-production-state-and-routing.md:143` repeats them.  `TaskLifecycle` has the
  documented edges and this one as an action of its own, `FailUnstarted`; the engine
  does not implement it without that action.
* `restart_process` of a Process in `retry_wait` leaves its Execution waiting; nobody
  claims the Process and the repair fails the Execution
  (`operator_control.py:150`; `RepairWait`).  A restart also keeps the place in the
  pool, so a queue can exceed its cap by one per restart (`PoolCaps` says so).
* Of two vectorize steps that read the same generation of a namespace the second
  fails for good, because a typed error of the outcome transaction is terminal
  (`vectorize.py:303`; `VectorizeFenced`).
* `_inflate_documents` looks for an original vector of the whole document, which
  `vectorization_plan` never makes, so inflation is "missing" for every package the
  compiler built (`Inflation` and `VectorRows`; S10-A10 promises it; `Catalogues` has the record
  nevertheless, so that what follows is checked).
* A search whose hit is republished between scan and fence answers `all_filtered`,
  although the Item was served throughout: `SteadyIsFound` is about records, not Items.
* Evidence of failed model calls is lost when the call is retried or salvaged, on
  every CLI failure of a construct, and in a crash: stashed rows are written only with
  the failure that ends the Process (`runtime_outcome.py:545`), and
  `_flush_pending_generation_evidence` has no caller.  S06-T006
  (`docs/baseline/domain-truth/S06-lsrag-structurizer.md:184`), S07-T034
  (`S07-lsrag-constructor.md:219`) and T-O-77 (`qna-truth/S06.md:523`) want a record
  of every call, retried ones too.  `OutcomeCoherent` therefore says nothing of failed
  rows.  Writing them as the code numbers them would not do: a failed call and the
  success after it may have the same ordinal, and the second insert is ignored.
* The rejection of a review takes an older served revision out of service
  (`GateRejects`); a stale pointer of an old embedding namespace makes every later
  index rebuild of the Item fail (`index_rebuild_plan.py:324`).
* A late ingest may reference a tombstoned row (`acceptance_snapshot.py:459`); a
  keyed upload replayed after expiry returns a handle without a hold
  (`object_upload.py:89`); `cancel_session` of a reserved session releases its hold;
  bytes promoted by a caller that dies before cataloguing them are never collected.
* A reviewed ingest of content the Item already had always fails: acceptance takes
  the earlier revision (`acceptance_snapshot.py:138`), whose `source_snapshot_uuid` is
  the earlier snapshot, and the gate wants a revision of this one
  (`runtime_gates.py:373`).  `PlansNeverStick` states it as the only way a gate lacks
  evidence.
* A full retry of an ingest is accepted again without its review gate, and one of a
  printed page is acquired statically and fails at its decoder.
* A pinned profile plan whose `clean` step gets a PDF, an image or a rendered page
  without a declared strategy always fails as unreachable.

Outside the models: one root whose projection raises, and one Execution whose
revision has no interpreter, stop the repair scan and the claims of everyone
(`runtime_repair.py:383`, `runtime_core.py:482`); an embed candidate is compared by
age only, so a younger Process of higher priority loses (`runtime_core.py:462`, in
`Candidate`); a cancelling Process is not counted against its pool (`dispatch.py:84`, in
`Running`).

## 7. Plan

1. Several Tasks in one repair scan and one claim: a poisonous row against the batch.
2. Task creation under idempotency keys, observation reservations, cleanup jobs.
