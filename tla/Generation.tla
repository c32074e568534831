----------------------------- MODULE Generation -----------------------------
(***************************************************************************)
(* The model-bearing Processes of a Task, from the dispatch pools that     *)
(* admit them to the ledger that records what the model answered.          *)
(*                                                                         *)
(* A Task is a chain of Processes (clean, transcribe, structurize,         *)
(* construct, the metadata-refresh construct, vectorize), one live at a    *)
(* time.  A worker's claim first admits waiting Processes into the pools   *)
(* "local-inference", "non-interactive" and "embed", then leases the       *)
(* oldest or most urgent admitted one.  The handler reaches its model      *)
(* through the inference facade (bounded attempts under a shared           *)
(* concurrency gate) or through the agent CLI router (an ordered list of   *)
(* providers under a gate of its own), and a construct whose local model   *)
(* gave nothing usable is salvaged once through the CLI.  Answers pass the *)
(* LSRAG kernel, and the Outcome is accepted under the Process's fence.    *)
(***************************************************************************)
EXTENDS Naturals, FiniteSets, SequencesExt

CONSTANTS
  Tasks, Workers, None,
  Workloads,         \* what the Tasks may ask for together: see WorkloadAssumption
  Live, LocalUp,     \* live_inference; live_inference and local generation
  CleanModel,        \* a clean language model is injected
  Wired,             \* CLI providers with a transport; {} without a CLI
  ProviderPlan,      \* the order of CLI providers
  RunningCap, QueuedCap,   \* pool -> capacity
  GateMax, GateLimit,      \* facade gate: global, per capability
  RouterMax, RouterLimit,  \* router gate: global, per provider
  MaxAttempts,       \* inference_max_attempts of one facade call
  MaxRetries, MaxRecoveries,  \* budgets of a Process
  MaxMishaps                  \* bound of the model: see Mishap

Pools == {"local-inference", "non-interactive", "embed"}
Keys == {"clean", "transcribe", "structurize", "construct", "refresh", "vectorize"}
Rank == [low |-> 1, normal |-> 2, high |-> 3, urgent |-> 4]
Capabilities == {"embed", "structured_generate", "text_generate"}
Providers == {"claude", "agy", "cursor-agent", "grok"}
Fallbacks == {"cursor-agent", "grok"}

\* A request's plan lists the keys of its Processes, explicit is the
\* compression channel it names, large a source over the local budget.
Requests ==
  [plan : Seq(Keys) \ {<<>>}, priority : DOMAIN Rank, large : BOOLEAN,
   explicit : {None, "local-inference", "non-interactive"}]

ASSUME ActorAssumption ==
  /\ IsFiniteSet(Tasks) /\ IsFiniteSet(Workers)
  /\ None \notin Tasks \cup Capabilities \cup Providers \cup Pools
ASSUME WorkloadAssumption == Workloads \subseteq [Tasks -> Requests]
ASSUME ProviderPlanAssumption ==
  /\ ProviderPlan \in Seq(Providers)
  /\ \E i \in DOMAIN ProviderPlan : ProviderPlan[i] = "claude"
  /\ Live \in BOOLEAN /\ LocalUp \in BOOLEAN /\ LocalUp => Live
ASSUME PoolAssumption ==
  RunningCap \in [Pools -> Nat] /\ QueuedCap \in [Pools -> Nat]
ASSUME GateLimitAssumption ==
  /\ GateMax \in Nat /\ GateLimit \in [Capabilities -> 1..GateMax]
  /\ RouterMax \in Nat /\ \E ps \in SUBSET Providers : RouterLimit \in [ps -> 1..RouterMax]
  /\ Wired \subseteq DOMAIN RouterLimit

VARIABLES
  req,       \* the frozen request of each Task
  step, status, fence, retries, recoveries,  \* the live Process of each Task
  place,     \* dispatch_admitted and dispatch_pool: "waiting", "unpooled" or a pool
  older,     \* order of available_at, created_at and uuid: <<an older Task, a younger one>>
  handler,   \* what each worker is doing
  facade, router,  \* calls in flight, in total and per capability or provider
  rot,       \* _fallback_index of the router
  pending,   \* stashed failed invocations: <<Task, step, ordinal>>
  ledger,    \* mkb_generation_invocations: <<Task, step, ordinal, status>>
  commits,   \* packages made current by an accepted success: <<Task, step, transport>>
  reserve,   \* model_capacity_priority_gate_enabled of this incarnation
  restarts,  \* operator restarts so far
  mishaps    \* mishaps so far

process == <<req, step, status, fence, retries, recoveries>>
gates == <<facade, router, rot>>
evidence == <<pending, ledger, commits>>
bounds == <<reserve, restarts, mishaps>>
vars == <<process, place, older, handler, gates, evidence, bounds>>

Plan(t) == req[t].plan

Priority(t) == req[t].priority

Key(t) == Plan(t)[step[t]]

IsGenerate(key) == key \in {"clean", "transcribe", "structurize", "construct"}

Terminal(t) == status[t] \in {"succeeded", "failed", "cancelled"}

Restrained(t) == Priority(t) \in {"low", "normal"}

Idle ==
  [pc |-> "idle", task |-> None, step |-> 0, fence |-> 0, key |-> "refresh", pool |-> "unpooled",
   via |-> "none", lease |-> None, attempt |-> 0, order |-> <<>>, ord |-> 0, fault |-> "none"]

\* ConcurrencyGate: _global_in_flight and _by_capability.
EmptyGate(limits) == [total |-> 0, by |-> [c \in DOMAIN limits |-> 0]]

\* Every two Tasks have an age; the submissions decide which.
Ages == {r \in SUBSET (Tasks \X Tasks) :
  /\ \A t \in Tasks : <<t, t>> \notin r
  /\ \A t, u \in Tasks : t # u => (<<t, u>> \in r \/ <<u, t>> \in r)
  /\ \A t, u, v \in Tasks : <<t, u>> \in r /\ <<u, v>> \in r => <<t, v>> \in r}

Init ==
  /\ req \in Workloads
  /\ step = [t \in Tasks |-> 1]
  /\ status = [t \in Tasks |-> "ready"]
  /\ fence = [t \in Tasks |-> 0]
  /\ retries = [t \in Tasks |-> 0]
  /\ recoveries = [t \in Tasks |-> 0]
  /\ place = [t \in Tasks |-> "waiting"]
  /\ older \in Ages
  /\ handler = [w \in Workers |-> Idle]
  /\ facade = EmptyGate(GateLimit)
  /\ router = EmptyGate(RouterLimit)
  /\ rot = 0
  /\ pending = {} /\ ledger = {} /\ commits = {}
  /\ reserve \in BOOLEAN
  /\ restarts = 0 /\ mishaps = 0

-----------------------------------------------------------------------------
(* Dispatch pools: admission and the choice of the next Process            *)

\* get_pool_occupancies: a cancelling Process no longer counts.
Running(p) == Cardinality({t \in Tasks : status[t] = "running" /\ place[t] = p})

Queued(p, pl) == Cardinality({t \in Tasks : status[t] = "ready" /\ pl[t] = p})

\* The pools a generate Process may use, the preferred one first.
Lane(t) ==
  IF req[t].explicit # None THEN <<req[t].explicit>>
  ELSE IF Priority(t) \in {"urgent", "high"} \/ (Priority(t) = "normal" /\ req[t].large)
       THEN <<"non-interactive">>
  ELSE IF Priority(t) = "normal" THEN <<"local-inference", "non-interactive">>
  ELSE <<"local-inference">>

\* The Process goes through a pool at all.
Pooled(t) == IsGenerate(Key(t)) \/ (Key(t) = "vectorize" /\ Live)

\* What may admit it at the moment: nothing does while the capacity gate holds it.
Offers(t) ==
  IF Key(t) = "vectorize" THEN <<"embed">>
  ELSE IF reserve /\ Restrained(t) THEN <<>> ELSE Lane(t)

\* choose_pool for one waiting Process, given the places handed out so far.
ChoosePool(pl, t) ==
  LET open == {i \in DOMAIN Offers(t) :
                 /\ Queued(Offers(t)[i], pl) < QueuedCap[Offers(t)[i]]
                 /\ Offers(t)[i] = "local-inference" => LocalUp}
  IN IF ~Pooled(t) THEN "unpooled"
     ELSE IF open = {} THEN "waiting" ELSE Offers(t)[Min(open)]

\* Sorted by priority_rank, the most urgent first, and by age within a rank.
Ahead(u, t) ==
  \/ Rank[Priority(u)] > Rank[Priority(t)]
  \/ Rank[Priority(u)] = Rank[Priority(t)] /\ <<u, t>> \in older

\* The embeds have their turn by age, then the generates by rank.
Earlier(u, t) ==
  IF IsGenerate(Key(t)) THEN IsGenerate(Key(u)) => Ahead(u, t)
  ELSE ~IsGenerate(Key(u)) /\ <<u, t>> \in older

\* The capacity gate takes back the places of low and normal generate Processes.
Released ==
  [t \in Tasks |-> IF reserve /\ status[t] = "ready" /\ IsGenerate(Key(t)) /\ Restrained(t)
                   THEN "waiting" ELSE place[t]]

Waits(t) == status[t] = "ready" /\ Released[t] = "waiting"

\* The places handed out when t has its turn.
Handed(pl, t) == [u \in Tasks |-> IF Waits(u) /\ ~Earlier(u, t) THEN "waiting" ELSE pl[u]]

\* _admit_waiting_processes_tx, one waiting Process after the other: pl is the
\* outcome in which each has the place its turn gave it.
Admits(pl) ==
  \A t \in Tasks : pl[t] = IF Waits(t) THEN ChoosePool(Handed(pl, t), t) ELSE Released[t]

Ready(pl, places) == {t \in Tasks : status[t] = "ready" /\ pl[t] \in places}

\* Mutant: the running cap of a pool is not looked at.
AnyAdmitted(p) == p \in Pools \cup {"unpooled"}

\* Mutant: the last slot of a pool is never used.
SpareSlot(p) == p = "unpooled" \/ (p \in Pools /\ Running(p) + 1 < RunningCap[p])

CanRun(p) == p = "unpooled" \/ (p \in Pools /\ Running(p) < RunningCap[p])

Oldest(S) == {t \in S : \A u \in S : <<u, t>> \notin older}
Foremost(S) == {t \in S : \A u \in S : ~Ahead(u, t)}

\* The oldest embed against the foremost of the others, by age alone.
Candidate(pl) ==
  Oldest(Oldest(Ready(pl, {p \in {"embed"} : CanRun(p)}))
         \cup Foremost(Ready(pl, {p \in {"unpooled", "local-inference", "non-interactive"} : CanRun(p)})))

\* claim_next: admission and the claim in one transaction.  Idle workers
\* are interchangeable.
Claim ==
  /\ \E w \in Workers : handler[w].pc = "idle"
  /\ \E pl \in [Tasks -> Pools \cup {"waiting", "unpooled"}] :
       /\ Admits(pl) /\ place' = pl
       /\ \/ /\ Candidate(pl) = {}
             /\ UNCHANGED <<process, handler>>
          \/ \E t \in Candidate(pl) : \E w \in {CHOOSE v \in Workers : handler[v].pc = "idle"} :
               /\ status' = [status EXCEPT ![t] = "running"]
               /\ fence' = [fence EXCEPT ![t] = @ + 1]
               /\ handler' = [handler EXCEPT ![w] =
                    [Idle EXCEPT !.pc = "begin", !.task = t, !.step = step[t],
                                 !.fence = fence[t] + 1, !.key = Key(t), !.pool = pl[t]]]
               /\ UNCHANGED <<req, step, retries, recoveries>>
  /\ UNCHANGED <<older, gates, evidence, bounds>>

-----------------------------------------------------------------------------
(* A handler reaches its model                                             *)

\* A clean stage uses an injected language model from either pool, but not for
\* non-interactive work while local generation is disabled.
CleanTransport(h) ==
  IF CleanModel /\ ~(h.pool = "non-interactive" /\ ~LocalUp) THEN "local"
  ELSE IF h.pool = "local-inference" \/ Wired = {} THEN "missing" ELSE "cli"

\* Every other stage follows the pool it was admitted to.
MarkdownTransport(h) ==
  IF h.pool = "local-inference" THEN "local"
  ELSE IF Wired # {} THEN "cli" ELSE "missing"

StructurizeTransport(h) == MarkdownTransport(h)

\* Without a CLI the construct completes its summaries from the frozen state.
SummaryTransport(h) ==
  IF h.pool = "local-inference" THEN "local"
  ELSE IF Wired # {} THEN "cli" ELSE "none"

VectorizeTransport == IF Live THEN "local" ELSE "none"

Transport(h) ==
  CASE h.key = "refresh" -> "none"
    [] h.key = "vectorize" -> VectorizeTransport
    [] h.key = "clean" -> CleanTransport(h)
    [] h.key = "transcribe" -> MarkdownTransport(h)
    [] h.key = "structurize" -> StructurizeTransport(h)
    [] OTHER -> SummaryTransport(h)

Capability(key) ==
  CASE key = "vectorize" -> "embed"
    [] key \in {"structurize", "construct"} -> "structured_generate"
    [] OTHER -> "text_generate"

\* ConcurrencyGate.try_acquire and release: a gate has room or the call fails.
FacadeOpen(gate, c) == gate.total < GateMax /\ gate.by[c] < GateLimit[c]
RouterOpen(gate, p) == gate.total < RouterMax /\ gate.by[p] < RouterLimit[p]
Taken(gate, lease) == [total |-> gate.total + 1, by |-> [gate.by EXCEPT ![lease] = @ + 1]]
Freed(gate, lease) == [total |-> gate.total - 1, by |-> [gate.by EXCEPT ![lease] = @ - 1]]

FallbackTail == SelectSeq(ProviderPlan, LAMBDA p : p \in Fallbacks)

\* _attempt_order: the primaries of the plan, then its fallbacks from a
\* start that rotates from call to call.
AttemptOrder ==
  SelectSeq(ProviderPlan, LAMBDA p : p \notin Fallbacks)
  \o IF rot = 0 THEN FallbackTail ELSE Reverse(FallbackTail)

NextRot == IF Len(FallbackTail) < 2 THEN rot ELSE 1 - rot

\* _RECOVERABLE_ERROR_CODES; a vectorize rewraps every facade error as one of
\* them, except a space violation and any other refusal with a 4xx status.
Recoverable(h, fault) ==
  \/ fault \in {"transport", "exhausted", "backpressure", "fenced", "snapshot"}
  \/ h.key = "vectorize" /\ fault = "invalid"

\* The failed Outcome a handler is about to submit.
Verdict(h, fault) ==
  [Idle EXCEPT !.pc = "submit", !.task = h.task, !.step = h.step, !.fence = h.fence,
               !.fault = IF Recoverable(h, fault) THEN "retryable" ELSE "terminal"]

\* The answer a handler takes to the kernel.
Answer(h) == [h EXCEPT !.pc = "kernel", !.lease = None, !.attempt = 0, !.order = <<>>]

\* AgentCliRouter.run from the provider after the i-th on: providers without
\* a transport or with a full gate are passed over without a suspension.
RouteOn(w, h, i, gate) ==
  \E open \in {{j \in DOMAIN h.order : /\ j > i /\ h.order[j] \in Wired
                                        /\ RouterOpen(gate, h.order[j])}} :
    IF open = {}
    THEN handler' = [handler EXCEPT ![w] = Verdict(h, "transport")] /\ router' = gate
    ELSE \E j \in open :
           /\ \A next \in open : j <= next
           /\ handler' = [handler EXCEPT ![w] =
                [h EXCEPT !.pc = "agent", !.lease = h.order[j], !.ord = j - 1]]
           /\ router' = Taken(gate, h.order[j])

EnterRouter(w, h) ==
  /\ RouteOn(w, [h EXCEPT !.via = "cli", !.lease = None, !.order = AttemptOrder], 0, router)
  /\ rot' = NextRot

\* Evidence of a Process that has settled is never read again, and is not
\* kept in the model.
Awaited(h) == step[h.task] = h.step /\ ~Terminal(h.task)

\* A failed call leaves evidence in memory only for structurize and for a
\* local construct; its ordinal is 0.
Stash(h) ==
  IF (h.key = "structurize" \/ (h.key = "construct" /\ h.via = "local")) /\ Awaited(h)
  THEN {<<h.task, h.step, 0>>} ELSE {}

\* Mutant: salvage forgets that a low Task never uses the CLI.
SalvageAny(h, fault) ==
  /\ h.key = "construct" /\ h.via = "local" /\ h.pool = "local-inference"
  /\ fault \in {"exhausted", "invalid", "rejected"}
  /\ Wired # {}

CanSalvage(h, fault) ==
  /\ h.key = "construct" /\ h.via = "local" /\ h.pool = "local-inference"
  /\ fault \in {"exhausted", "invalid", "rejected"}
  /\ Wired # {}
  /\ Priority(h.task) # "low"

\* An error of the local transport, or of the kernel on its answer.
RaiseLocal(w, h, fault) ==
  /\ pending' = pending \cup Stash(h)
  /\ IF CanSalvage(h, fault)
     THEN EnterRouter(w, h)
     ELSE /\ handler' = [handler EXCEPT ![w] = Verdict(h, fault)]
          /\ UNCHANGED <<router, rot>>

\* InferenceFacade._invoke takes the gate, or fails without calling a model.
Acquire(w, h, c) ==
  IF FacadeOpen(facade, c)
  THEN /\ facade' = Taken(facade, c)
       /\ handler' = [handler EXCEPT ![w] =
            [h EXCEPT !.pc = "calling", !.lease = c, !.attempt = @ + 1]]
       /\ UNCHANGED <<router, rot, pending>>
  ELSE /\ RaiseLocal(w, h, "backpressure")
       /\ UNCHANGED facade

\* What may be refused before a model is asked: the input of the stage and the
\* generation policy frozen with it,
InputFaults(h) == {"rejected"}

\* the structure or package an earlier stage handed over, proved again,
StructureFaults(h) == IF h.key = "construct" THEN {"rejected"} ELSE {}
HandoverFaults(h) == IF h.key = "vectorize" THEN {"rejected"} ELSE {}

\* the frozen source of a metadata refresh, which must still match,
RefreshFaults(h) == IF h.key = "refresh" THEN {"rejected"} ELSE {}

\* and the frozen configuration of a live call, which may be invalid, or for
\* the moment unavailable.
ProfileFaults(h) == IF h.key = "vectorize" THEN {"rejected", "snapshot"} ELSE {}
ConfigFaults(h) ==
  IF Transport(h) = "local" /\ h.key \notin {"clean", "vectorize"} THEN {"rejected", "snapshot"} ELSE {}

\* None of these leaves evidence or is salvaged.
InputsRefused(w) ==
  \E h \in {handler[w]} :
   \E fault \in InputFaults(h) \cup StructureFaults(h) \cup HandoverFaults(h) \cup RefreshFaults(h)
                 \cup ProfileFaults(h) \cup ConfigFaults(h) :
    /\ h.pc = "begin"
    /\ handler' = [handler EXCEPT ![w] = Verdict(h, fault)]
    /\ UNCHANGED <<process, place, older, gates, evidence, bounds>>

\* The stage turns to its model.  The chunks of a long structurize source, one CLI
\* call each, count as one call; a router without a free provider is a failed one.
Begin(w) ==
  \E h \in {handler[w]} : \E via \in {Transport(h)} :
    /\ h.pc = "begin"
    /\ \/ /\ via \in {"none", "missing"}
          /\ handler' = [handler EXCEPT ![w] =
               IF via = "none" THEN Answer(h) ELSE Verdict(h, "missing")]
          /\ UNCHANGED <<gates, pending>>
       \/ /\ via = "local"
          /\ Acquire(w, [h EXCEPT !.via = "local"], Capability(h.key))
       \/ /\ via = "cli"
          /\ EnterRouter(w, h)
          /\ pending' = pending \cup IF handler'[w].pc = "submit" THEN Stash(h) ELSE {}
          /\ UNCHANGED facade
    /\ UNCHANGED <<process, place, older, ledger, commits, bounds>>

\* The model answers and the facade's validator is content.
FacadeAnswers(w) ==
  /\ handler[w].pc = "calling"
  /\ facade' = Freed(facade, handler[w].lease)
  /\ handler' = [handler EXCEPT ![w] = Answer(@)]
  /\ UNCHANGED <<process, place, older, router, rot, evidence, bounds>>

\* Mutant: the retry keeps its lease while it sleeps.
BackoffHolding(w) ==
  /\ handler[w].pc = "calling" /\ handler[w].attempt < MaxAttempts
  /\ handler' = [handler EXCEPT ![w].pc = "backoff", ![w].lease = None]
  /\ UNCHANGED <<process, place, older, gates, evidence, bounds>>

\* A retryable transport error before the last attempt: the lease is given
\* back for the time of the sleep.
FacadeBacksOff(w) ==
  /\ handler[w].pc = "calling" /\ handler[w].attempt < MaxAttempts
  /\ facade' = Freed(facade, handler[w].lease)
  /\ handler' = [handler EXCEPT ![w].pc = "backoff", ![w].lease = None]
  /\ UNCHANGED <<process, place, older, router, rot, evidence, bounds>>

FacadeResumes(w) ==
  /\ handler[w].pc = "backoff"
  /\ Acquire(w, handler[w], Capability(handler[w].key))
  /\ UNCHANGED <<process, place, older, ledger, commits, bounds>>

\* The last attempt is exhausted, the answer is invalid, or the facade refuses
\* for good: the answer names another space, or the service says 4xx.
FacadeFails(w) ==
  \E h \in {handler[w]} : \E fault \in {"exhausted", "invalid", "refused"} :
    /\ h.pc = "calling"
    /\ fault = "exhausted" => h.attempt = MaxAttempts
    /\ facade' = Freed(facade, h.lease)
    /\ RaiseLocal(w, h, fault)
    /\ UNCHANGED <<process, place, older, ledger, commits, bounds>>

AgentAnswers(w) ==
  /\ handler[w].pc = "agent"
  /\ router' = Freed(router, handler[w].lease)
  /\ handler' = [handler EXCEPT ![w] = Answer(@)]
  /\ UNCHANGED <<process, place, older, facade, rot, evidence, bounds>>

\* A fallbackable error goes on to the next provider; the lease of the
\* failed one is released first.
AgentFallsBack(w) ==
  \E h \in {handler[w]} :
    /\ h.pc = "agent"
    /\ RouteOn(w, [h EXCEPT !.lease = None], h.ord + 1, Freed(router, h.lease))
    /\ pending' = pending \cup IF handler'[w].pc = "submit" THEN Stash(h) ELSE {}
    /\ UNCHANGED <<process, place, older, facade, rot, ledger, commits, bounds>>

\* Any other error of a provider is raised as it is.
AgentFails(w) ==
  \E h \in {handler[w]} :
    /\ h.pc = "agent"
    /\ router' = Freed(router, h.lease)
    /\ pending' = pending \cup Stash(h)
    /\ handler' = [handler EXCEPT ![w] = Verdict(h, "invalid")]
    /\ UNCHANGED <<process, place, older, facade, rot, ledger, commits, bounds>>

-----------------------------------------------------------------------------
(* The kernel, the Outcome, and what may overtake it                       *)

\* A structure the kernel does not admit: the call is stashed under its own
\* ordinal, except for what is raised before the kernel is asked.
StructureRejected(w, h) ==
  /\ h.key = "structurize"
  /\ \E noted \in {{}, {<<h.task, h.step, h.ord>>}} :
       /\ ~Awaited(h) => noted = {}
       /\ pending' = pending \cup noted
  /\ handler' = [handler EXCEPT ![w] = Verdict(h, "rejected")]
  /\ UNCHANGED <<router, rot>>

\* Summaries of a local model that do not fit the structure are salvaged.
SummariesRejected(w, h) ==
  /\ h.key = "construct" /\ h.via = "local"
  /\ RaiseLocal(w, h, "rejected")

\* The construct kernel refuses the package.
ConstructRejected(w, h) ==
  /\ h.key = "construct"
  /\ handler' = [handler EXCEPT ![w] = Verdict(h, "rejected")]
  /\ UNCHANGED <<router, rot, pending>>

\* The package a metadata refresh starts from is missing or differs.
RefreshRejected(w, h) ==
  /\ h.key = "refresh"
  /\ handler' = [handler EXCEPT ![w] = Verdict(h, "rejected")]
  /\ UNCHANGED <<router, rot, pending>>

\* A text or a set of embeddings is refused without evidence.
TextRejected(w, h) ==
  /\ h.key \in {"clean", "transcribe", "vectorize"}
  /\ handler' = [handler EXCEPT ![w] = Verdict(h, "rejected")]
  /\ UNCHANGED <<router, rot, pending>>

KernelRejects(w) ==
  \E h \in {handler[w]} :
    /\ h.pc = "kernel"
    /\ \/ StructureRejected(w, h) \/ SummariesRejected(w, h)
       \/ ConstructRejected(w, h) \/ RefreshRejected(w, h) \/ TextRejected(w, h)
    /\ UNCHANGED <<process, place, older, facade, ledger, commits, bounds>>

Current(h) ==
  /\ status[h.task] = "running"
  /\ step[h.task] = h.step /\ fence[h.task] = h.fence

\* What the code cannot prevent and the model bounds: a call interrupted or
\* a commit aborted while the lease is good, a lease that expires under a
\* living handler, an operator restart, a cancellation, a crash.
Mishap(free) ==
  /\ free \/ mishaps < MaxMishaps
  /\ mishaps' = IF free THEN mishaps ELSE mishaps + 1

Held(t) == \E w \in Workers : /\ handler[w].task = t /\ handler[w].step = step[t]
                             /\ handler[w].fence = fence[t]

\* The heartbeat lost the fence, or the stage raised an untyped exception:
\* the call is cancelled, its lease released, nothing is stashed.
HandlerInterrupted(w) ==
  \E h \in {handler[w]} :
    /\ h.pc \in {"begin", "calling", "backoff", "agent", "kernel"}
    /\ Mishap(~Current(h))
    /\ facade' = IF h.pc = "calling" THEN Freed(facade, h.lease) ELSE facade
    /\ router' = IF h.pc = "agent" THEN Freed(router, h.lease) ELSE router
    /\ handler' = [handler EXCEPT ![w] = Verdict(h, "fenced")]
    /\ UNCHANGED <<process, place, older, rot, evidence, reserve, restarts>>

\* INSERT OR IGNORE under UNIQUE (process_uuid, invocation_ordinal).
SameCall(a, b) == a[1] = b[1] /\ a[2] = b[2] /\ a[3] = b[3]
Insert(rows) == ledger \cup {r \in rows : ~\E old \in ledger : SameCall(old, r)}

FailedCall(p) == <<p[1], p[2], p[3], "failed">>

\* A new available_at makes the Process the youngest.
ToBack(t) == {p \in older : p[1] # t} \cup {<<u, t>> : u \in Tasks \ {t}}

Unsettled(t) == {p \in pending : ~(p[1] = t /\ p[2] = step[t])}

\* The Process ends the Task.  Its fence, budgets, place and age are never read
\* again: they return to their initial values, the age to the youngest.
Settle(t, outcome) ==
  /\ status' = [status EXCEPT ![t] = outcome]
  /\ fence' = [fence EXCEPT ![t] = 0]
  /\ retries' = [retries EXCEPT ![t] = 0]
  /\ recoveries' = [recoveries EXCEPT ![t] = 0]
  /\ place' = [place EXCEPT ![t] = "waiting"]
  /\ older' = ToBack(t)
  /\ pending' = Unsettled(t)
  /\ UNCHANGED <<req, step>>

\* _fail_process_tx: the stashed evidence of the Process is written with it.
FailProcess(t) ==
  /\ Settle(t, "failed")
  /\ ledger' = Insert({FailedCall(p) : p \in pending \ Unsettled(t)})

\* The stages that call a model record the call.
Recorded(h) ==
  IF h.via # "none" /\ h.key \in {"transcribe", "structurize", "construct"}
  THEN Insert({<<h.task, h.step, h.ord, "succeeded">>}) ELSE ledger

Packaged(h) == commits \cup {<<h.task, h.step, h.via>>}

\* The accepted success and, in the same transaction, the ledger row, the
\* artifact package with its pointers, and the next Process of the plan.
SubmitSuccess(w) ==
  \E h \in {handler[w]} : \E t \in {handler[w].task} :
    /\ h.pc = "kernel" /\ Current(h)
    /\ ledger' = Recorded(h)
    /\ commits' = Packaged(h)
    /\ \/ /\ h.step = Len(Plan(t))
          /\ Settle(t, "succeeded")
       \/ /\ h.step < Len(Plan(t))
          /\ step' = [step EXCEPT ![t] = @ + 1]
          /\ status' = [status EXCEPT ![t] = "ready"]
          /\ fence' = [fence EXCEPT ![t] = 0]
          /\ retries' = [retries EXCEPT ![t] = 0]
          /\ recoveries' = [recoveries EXCEPT ![t] = 0]
          /\ place' = [place EXCEPT ![t] = "waiting"]
          /\ older' = ToBack(t)
          /\ pending' = Unsettled(t)
          /\ UNCHANGED req
    /\ handler' = [handler EXCEPT ![w] = Idle]
    /\ UNCHANGED <<gates, bounds>>

\* The success transaction rolls back: a typed error becomes a terminal
\* failure, an untyped one a retryable failure, submitted next.
CommitAborts(w) ==
  \E fault \in {"rejected", "fenced"} :
    /\ handler[w].pc = "kernel" /\ Current(handler[w])
    /\ Mishap(FALSE)
    /\ handler' = [handler EXCEPT ![w] = Verdict(@, fault)]
    /\ UNCHANGED <<process, place, older, gates, evidence, reserve, restarts>>

\* A failure within the retry budget waits; any other ends the Task.
SubmitFailure(w) ==
  \E h \in {handler[w]} : \E t \in {handler[w].task} :
    /\ h.pc = "submit" /\ Current(h)
    /\ IF h.fault = "retryable" /\ retries[t] < MaxRetries
       THEN /\ status' = [status EXCEPT ![t] = "retry_wait"]
            /\ retries' = [retries EXCEPT ![t] = @ + 1]
            /\ place' = [place EXCEPT ![t] = "waiting"]
            /\ older' = ToBack(t)
            /\ UNCHANGED <<req, step, fence, recoveries, pending, ledger>>
       ELSE FailProcess(t)
    /\ handler' = [handler EXCEPT ![w] = Idle]
    /\ UNCHANGED <<gates, commits, bounds>>

\* Mutant: the invocation of a refused success is recorded.
RefusedRecords(w) ==
  \E h \in {handler[w]} :
    /\ h.pc \in {"kernel", "submit"} /\ ~Current(h)
    /\ ledger' = IF h.pc = "kernel" THEN Recorded(h) ELSE ledger
    /\ handler' = [handler EXCEPT ![w] = Idle]
    /\ UNCHANGED <<process, place, older, gates, pending, commits, bounds>>

\* Any other Outcome is refused by the fence and changes nothing: a cancelling
\* Process waits for its lease to expire.
SubmitRefused(w) ==
  \E h \in {handler[w]} :
    /\ h.pc \in {"kernel", "submit"} /\ ~Current(h)
    /\ handler' = [handler EXCEPT ![w] = Idle]
    /\ UNCHANGED <<process, place, older, gates, evidence, bounds>>

\* recover_expired_leases: the holder may be dead or only slow.
Recover(t) ==
  /\ Mishap(~Held(t))
  /\ \/ /\ status[t] = "cancelling"
        /\ Settle(t, "cancelled")
        /\ UNCHANGED ledger
     \/ /\ status[t] = "running" /\ recoveries[t] < MaxRecoveries
        /\ status' = [status EXCEPT ![t] = "ready"]
        /\ fence' = [fence EXCEPT ![t] = @ + 1]
        /\ recoveries' = [recoveries EXCEPT ![t] = @ + 1]
        /\ place' = [place EXCEPT ![t] = "waiting"]
        /\ older' = ToBack(t)
        /\ UNCHANGED <<req, step, retries, pending, ledger>>
     \/ /\ status[t] = "running" /\ recoveries[t] = MaxRecoveries
        /\ FailProcess(t)
  /\ UNCHANGED <<handler, gates, commits, reserve, restarts>>

\* promote_due_retries
Promote(t) ==
  /\ status[t] = "retry_wait"
  /\ status' = [status EXCEPT ![t] = "ready"]
  /\ older' = ToBack(t)
  /\ UNCHANGED <<req, step, fence, retries, recoveries, place, handler, gates, evidence, bounds>>

\* restart_process: the place in the pool and available_at stay as they are.  The
\* Execution of a restarted retry goes on waiting for it, so nobody claims it.
RestartProcess(t) ==
  /\ Mishap(FALSE)
  /\ status[t] \in {"running", "retry_wait"}
  /\ restarts' = restarts + 1
  /\ status' = [status EXCEPT ![t] = IF @ = "running" THEN "ready" ELSE "orphaned"]
  /\ fence' = [fence EXCEPT ![t] = @ + 1]
  /\ UNCHANGED <<req, step, retries, recoveries, place, older, handler, gates, evidence, reserve>>

\* repair_once fails an Execution that waits for a retry which is none; the
\* stashed evidence is never written.
RepairWait(t) ==
  /\ status[t] = "orphaned"
  /\ Settle(t, "failed")
  /\ UNCHANGED <<handler, gates, ledger, commits, bounds>>

\* A cancelled Task takes the fence from a leased Process and leaves it
\* cancelling; any other Process ends.
CancelTask(t) ==
  /\ Mishap(FALSE)
  /\ \/ /\ status[t] = "running"
        /\ status' = [status EXCEPT ![t] = "cancelling"]
        /\ fence' = [fence EXCEPT ![t] = @ + 1]
        /\ UNCHANGED <<req, step, retries, recoveries, place, older, pending>>
     \/ /\ status[t] \in {"ready", "orphaned", "retry_wait"}
        /\ Settle(t, "cancelled")
  /\ UNCHANGED <<handler, gates, ledger, commits, reserve, restarts>>

\* The server dies: handlers, gates and stashed evidence are memory, and the
\* next incarnation may be configured with or without the capacity gate.
Crash ==
  /\ Mishap(FALSE)
  /\ handler' = [w \in Workers |-> Idle]
  /\ facade' = EmptyGate(GateLimit)
  /\ router' = EmptyGate(RouterLimit)
  /\ rot' = 0 /\ pending' = {}
  /\ reserve' \in BOOLEAN
  /\ UNCHANGED <<process, place, older, ledger, commits, restarts>>

-----------------------------------------------------------------------------
HandlerStep(w) ==
  \/ InputsRefused(w) \/ Begin(w) \/ FacadeAnswers(w) \/ FacadeBacksOff(w) \/ FacadeResumes(w) \/ FacadeFails(w)
  \/ AgentAnswers(w) \/ AgentFallsBack(w) \/ AgentFails(w)
  \/ KernelRejects(w) \/ HandlerInterrupted(w)
  \/ SubmitSuccess(w) \/ CommitAborts(w) \/ SubmitFailure(w) \/ SubmitRefused(w)

Progress ==
  \/ Claim
  \/ \E w \in Workers : HandlerStep(w)
  \/ \E t \in Tasks : Promote(t) \/ Recover(t) \/ RepairWait(t)

Next ==
  \/ Progress
  \/ \E t \in Tasks : RestartProcess(t) \/ CancelTask(t)
  \/ Crash

\* Workers poll, calls return or time out, the supervisor promotes retries and
\* recovers leases: while any of this can happen, some of it does.
Fairness == WF_vars(Progress)

Spec == Init /\ [][Next]_vars /\ Fairness

-----------------------------------------------------------------------------
(* Every unit a gate counts is a lease some handler still holds, whatever  *)
(* ended the call (answer, error, backoff, fallback, salvage, cancelled    *)
(* handler), and no gate exceeds its limits: facade.py ConcurrencyGate.    *)
GateBalanced ==
  /\ \A c \in DOMAIN GateLimit :
       /\ facade.by[c] = Cardinality({w \in Workers : handler[w].lease = c})
       /\ facade.by[c] <= GateLimit[c]
  /\ \A p \in DOMAIN RouterLimit :
       /\ router.by[p] = Cardinality({w \in Workers : handler[w].lease = p})
       /\ router.by[p] <= RouterLimit[p]
  /\ facade.total = Cardinality({w \in Workers : handler[w].lease \in DOMAIN GateLimit})
  /\ router.total = Cardinality({w \in Workers : handler[w].lease \in DOMAIN RouterLimit})
  /\ facade.total <= GateMax /\ router.total <= RouterMax

(* Admission and claim keep each dispatch pool within its capacity; only   *)
(* an operator restart, which keeps the place of the Process it puts back, *)
(* can push a queue over (operator_control.py restart_process).            *)
PoolCaps ==
  \A p \in Pools : Running(p) <= RunningCap[p] /\ Queued(p, place) <= QueuedCap[p] + restarts

(* Whatever path a call took (admission, retry in another pool, operator   *)
(* restart, salvage), a low Task never reaches the CLI unless it asked for *)
(* it, only lanes that include it reach the local model (clean stages with *)
(* an injected model excepted), and while the capacity gate is on no low   *)
(* or normal Task generates at all.                                        *)
LaneRespected ==
  \A w \in Workers : \A t \in Tasks : handler[w].task = t =>
    /\ handler[w].pc = "agent" => Priority(t) # "low" \/ req[t].explicit = "non-interactive"
    /\ handler[w].pc = "calling" /\ handler[w].key \in {"transcribe", "structurize", "construct"}
         => LocalUp /\ \E i \in DOMAIN Lane(t) : Lane(t)[i] = "local-inference"
    /\ reserve /\ Restrained(t) => ~IsGenerate(handler[w].key)

(* The ledger and the Outcomes agree: each finished step has exactly one   *)
(* committed package, its model call (if it made one) is on record as      *)
(* succeeded, never lost to an earlier row of the same ordinal, and no     *)
(* other call is: not a refused or an aborted one, and not a second one    *)
(* (runtime_outcome.py accept_outcome, generation_evidence.py).            *)
OutcomeCoherent ==
  \A t \in Tasks : \A k \in DOMAIN Plan(t) :
    LET done == k < step[t] \/ (k = step[t] /\ status[t] = "succeeded")
        mine == {c \in commits : c[1] = t /\ c[2] = k}
        calls == {r \in ledger : r[1] = t /\ r[2] = k /\ r[4] = "succeeded"}
    IN /\ Cardinality(mine) = IF done THEN 1 ELSE 0
       /\ \A c \in mine :
            c[3] # "none" /\ Plan(t)[k] \in {"transcribe", "structurize", "construct"}
              => calls # {}
       /\ \A r, q \in calls : done /\ r = q

(* Every Task settles, through retries, backpressure, lost leases, crashes *)
(* and restarts, unless the capacity gate holds it back.                   *)
TasksSettle ==
  \A t \in Tasks : []<>(Terminal(t) \/ (reserve /\ Restrained(t)))
=============================================================================
