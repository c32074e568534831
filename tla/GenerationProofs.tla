-------------------------- MODULE GenerationProofs --------------------------
(***************************************************************************)
(* Gates are balanced, pools keep their capacities, lanes are respected    *)
(* and the ledger agrees with the Outcomes, for every number of Tasks and  *)
(* workers, every workload, provider plan and capacity.                    *)
(*                                                                         *)
(* The argument: a handler carries the key of the very Process it claimed  *)
(* and a pool of its Task's lane, so where a call may go is decided at the *)
(* claim and again only by the salvage.  A lease is held exactly in the    *)
(* states "calling" and "agent", so each gate counts handlers in one of    *)
(* them.  A Process that is running is not finished and has no row yet, so *)
(* the one Outcome its fence admits writes the only package and row.       *)
(***************************************************************************)
EXTENDS Generation, FiniteSetTheorems, WellFoundedInduction, TLAPS

Statuses == {"ready", "running", "retry_wait", "orphaned", "cancelling", "succeeded", "failed", "cancelled"}

\* A handler at work on its Process.
Busy == {"begin", "calling", "backoff", "agent", "kernel"}

\* The rows of the Processes; older is an order of all Tasks.
RowsOK ==
  /\ req \in [Tasks -> Requests] /\ step \in [Tasks -> Nat] /\ status \in [Tasks -> Statuses]
  /\ place \in [Tasks -> Pools \cup {"waiting", "unpooled"}]
  /\ older \in Ages /\ reserve \in BOOLEAN /\ restarts \in Nat
  /\ \A t \in Tasks : step[t] \in DOMAIN Plan(t)

\* A Process that waits for its retry has no place.
RetriesWait == \A t \in Tasks : status[t] = "retry_wait" => place[t] = "waiting"

\* A pool is one of the lane of the Task.
InLane(t, p) == \E i \in DOMAIN Lane(t) : Lane(t)[i] = p

\* What a place in a pool says of a Process with this key.
Placed(t, key, p) ==
  /\ p = "local-inference" => LocalUp
  /\ p \in {"local-inference", "non-interactive"} => InLane(t, p)
  /\ IsGenerate(key) => p \in {"waiting", "local-inference", "non-interactive"}

\* A Process has only places of its lane.
PlacesOK == \A t \in Tasks : Placed(t, Key(t), place[t])

\* A low Task may use the CLI only when it asked for it.
CliAllowed(t) == Priority(t) # "low" \/ req[t].explicit = "non-interactive"

\* A handler at work has the key of the Process it claimed and a pool of its lane.
Claimed(h) ==
  /\ DOMAIN h = DOMAIN Idle /\ h.task \in Tasks
  /\ h.step \in DOMAIN Plan(h.task) /\ h.key = Plan(h.task)[h.step]
  /\ Placed(h.task, h.key, h.pool) /\ h.pool # "waiting"
  /\ reserve /\ Restrained(h.task) => ~IsGenerate(h.key)

\* The stages that follow the pool they were admitted to.
FollowsPool(key) == key \in {"transcribe", "structurize", "construct"}

\* A handler calls a local model from its pool and the CLI where that is allowed,
\* and holds a lease exactly while it calls one of them.
HandlerOK(h) ==
  /\ DOMAIN h = DOMAIN Idle /\ h.pc \in Busy \cup {"idle", "submit"}
  /\ h.task \in IF h.pc = "idle" THEN {None} ELSE Tasks
  /\ IF h.pc \in Busy THEN Claimed(h) ELSE h.key = "refresh"
  /\ h.pc \in {"calling", "backoff"} /\ FollowsPool(h.key) => h.pool = "local-inference"
  /\ h.pc = "agent" => CliAllowed(h.task)
  /\ h.lease \in IF h.pc = "calling" THEN DOMAIN GateLimit
                 ELSE IF h.pc = "agent" THEN DOMAIN RouterLimit ELSE {None}

\* The counters of a gate are the leases L that handlers hold of it.
Counts(gate, D, L) ==
  /\ gate = [total |-> gate.total, by |-> gate.by]
  /\ gate.by \in [D -> Nat]
  /\ gate.total = Cardinality({w \in Workers : L[w] \in D})
  /\ \A c \in D : gate.by[c] = Cardinality({w \in Workers : L[w] = c})

Leases == [w \in Workers |-> handler[w].lease]

\* A gate keeps its limits.
Within(gate, limit, max) == gate.total <= max /\ \A c \in DOMAIN limit : gate.by[c] <= limit[c]

GatesOK ==
  /\ Counts(facade, DOMAIN GateLimit, Leases) /\ Within(facade, GateLimit, GateMax)
  /\ Counts(router, DOMAIN RouterLimit, Leases) /\ Within(router, RouterLimit, RouterMax)

\* Step k of the plan of t is finished.
Done(t, k) == k < step[t] \/ (k = step[t] /\ status[t] = "succeeded")

\* Each finished step has one package, whose model call is on record, and a row
\* tells how its Process ended.
CommitsOK ==
  /\ \A c \in commits : \E t \in Tasks : \E k \in DOMAIN Plan(t) : \E via :
       /\ c = <<t, k, via>> /\ Done(t, k)
       /\ via # "none" /\ Plan(t)[k] \in {"transcribe", "structurize", "construct"} =>
            \E o : <<t, k, o, "succeeded">> \in ledger
  /\ \A c, d \in commits : c[1] = d[1] /\ c[2] = d[2] => c = d
  /\ \A t \in Tasks : \A k \in DOMAIN Plan(t) : Done(t, k) => \E c \in commits : c[1] = t /\ c[2] = k
OneSuccess ==
  \A r, q \in ledger : r[4] = "succeeded" /\ q[4] = "succeeded" /\ r[1] = q[1] /\ r[2] = q[2] => r = q
LedgerOK ==
  /\ \A r \in ledger : \E t \in Tasks : \E k \in DOMAIN Plan(t) : \E o :
       \/ r = <<t, k, o, "succeeded">> /\ Done(t, k)
       \/ r = <<t, k, o, "failed">> /\ k = step[t] /\ status[t] = "failed"
  /\ OneSuccess

HandlersOK ==
  DOMAIN handler = Workers /\ \A w \in Workers : HandlerOK(handler[w])

\* The whole invariant.
Inv ==
  /\ RowsOK /\ PlacesOK /\ RetriesWait /\ HandlersOK
  /\ GatesOK /\ CommitsOK /\ LedgerOK /\ PoolCaps

-----------------------------------------------------------------------------
(* Handler records. *)

\* An idle handler, a verdict and an answer, field by field.
LEMMA IdleFields ==
  /\ Idle.pc = "idle" /\ Idle.task = None /\ Idle.key = "refresh" /\ Idle.lease = None
  /\ \A f \in {"pc", "task", "step", "fence", "key", "pool", "via", "lease", "attempt", "order", "ord", "fault"} : f \in DOMAIN Idle
BY DEF Idle

\* A verdict keeps the claim and nothing else.
LEMMA VerdictFields ==
  ASSUME NEW h, NEW fault
  PROVE  LET v == Verdict(h, fault) IN
         /\ DOMAIN v = DOMAIN Idle /\ v.pc = "submit" /\ v.task = h.task
         /\ v.key = "refresh" /\ v.lease = None
BY DEF Verdict, Idle

\* An answer keeps the claim, the lane and the transport, and gives up the lease.
LEMMA AnswerFields ==
  ASSUME NEW h, DOMAIN h = DOMAIN Idle
  PROVE  LET v == Answer(h) IN
         /\ DOMAIN v = DOMAIN Idle /\ v.pc = "kernel" /\ v.lease = None
         /\ v.task = h.task /\ v.step = h.step /\ v.key = h.key /\ v.pool = h.pool
BY IdleFields DEF Answer

\* What a handler may do depends on its request alone.
LEMMA HandlerKept ==
  ASSUME NEW h, HandlerOK(h), UNCHANGED <<req, reserve>>
  PROVE  HandlerOK(h)'
BY DEF HandlerOK, Claimed, CliAllowed, Placed, InLane, Lane, Restrained, Priority, Plan

\* A step of one handler leaves the others what they are.
LEMMA HandlerMoves ==
  ASSUME HandlersOK, NEW w \in Workers, NEW n, handler' = [handler EXCEPT ![w] = n],
         UNCHANGED <<req, reserve>>, HandlerOK(n)
  PROVE  HandlersOK'
<1>1. DOMAIN handler' = Workers /\ handler'[w] = n /\ \A v \in Workers : v # w => handler'[v] = handler[v]
  BY DEF HandlersOK
<1>2. ASSUME NEW v \in Workers PROVE HandlerOK(handler[v])'
  <2> USE DEF HandlersOK, HandlerOK, Claimed, CliAllowed, Placed, InLane, Lane, Restrained, Priority, Plan
  <2>1. CASE v = w
    BY <2>1, <1>1
  <2>2. CASE v # w
    BY <2>2, <1>1
  <2> QED BY <2>1, <2>2
<1> QED BY <1>1, <1>2 DEF HandlersOK

-----------------------------------------------------------------------------
(* Gates. *)

\* Leases outside a gate do not count.
LEMMA GateSame ==
  ASSUME NEW D, NEW gate, NEW L, Counts(gate, D, L), DOMAIN L = Workers,
         NEW w \in Workers, NEW x, L[w] \notin D, x \notin D
  PROVE  Counts(gate, D, [L EXCEPT ![w] = x])
<1> DEFINE M == [L EXCEPT ![w] = x]
<1>1. \A v \in Workers : M[v] = IF v = w THEN x ELSE L[v]
  OBVIOUS
<1>2. {v \in Workers : M[v] \in D} = {v \in Workers : L[v] \in D}
  BY <1>1
<1>3. \A c \in D : {v \in Workers : M[v] = c} = {v \in Workers : L[v] = c}
  BY <1>1
<1> QED BY <1>2, <1>3 DEF Counts

\* A handler without a lease takes one.
LEMMA GateTaken ==
  ASSUME NEW D, NEW gate, NEW L, Counts(gate, D, L), DOMAIN L = Workers,
         NEW w \in Workers, NEW c \in D, L[w] \notin D
  PROVE  Counts(Taken(gate, c), D, [L EXCEPT ![w] = c])
<1> DEFINE M == [L EXCEPT ![w] = c]
<1>1. \A v \in Workers : M[v] = IF v = w THEN c ELSE L[v]
  OBVIOUS
<1>2. \A S : S \subseteq Workers => IsFiniteSet(S) /\ Cardinality(S) \in Nat
  BY ActorAssumption, FS_Subset, FS_CardinalityType
<1>3. Cardinality({v \in Workers : M[v] \in D}) = Cardinality({v \in Workers : L[v] \in D}) + 1
  <2>1. {v \in Workers : M[v] \in D} = {v \in Workers : L[v] \in D} \cup {w}
    BY <1>1
  <2>2. w \notin {v \in Workers : L[v] \in D} /\ IsFiniteSet({v \in Workers : L[v] \in D})
    BY <1>2
  <2> QED BY <2>1, <2>2, FS_AddElement
<1>4. Cardinality({v \in Workers : M[v] = c}) = Cardinality({v \in Workers : L[v] = c}) + 1
  <2>1. {v \in Workers : M[v] = c} = {v \in Workers : L[v] = c} \cup {w}
    BY <1>1
  <2>2. w \notin {v \in Workers : L[v] = c} /\ IsFiniteSet({v \in Workers : L[v] = c})
    BY <1>2
  <2> QED BY <2>1, <2>2, FS_AddElement
<1>5. ASSUME NEW d \in D, d # c PROVE {v \in Workers : M[v] = d} = {v \in Workers : L[v] = d}
  BY <1>1, <1>5
<1>6. /\ Taken(gate, c).total = gate.total + 1
      /\ Taken(gate, c).by = [gate.by EXCEPT ![c] = gate.by[c] + 1]
      /\ Taken(gate, c) = [total |-> Taken(gate, c).total, by |-> Taken(gate, c).by]
  BY DEF Taken
<1>7. Taken(gate, c).by \in [D -> Nat]
  BY <1>6 DEF Counts
<1>8. ASSUME NEW d \in D PROVE Taken(gate, c).by[d] = Cardinality({v \in Workers : M[v] = d})
  <2>1. CASE d = c
    BY <2>1, <1>4, <1>6 DEF Counts
  <2>2. CASE d # c
    BY <2>2, <1>5, <1>6 DEF Counts
  <2> QED BY <2>1, <2>2
<1> QED BY <1>3, <1>6, <1>7, <1>8 DEF Counts

\* A handler gives its lease back.
LEMMA GateFreed ==
  ASSUME NEW D, NEW gate, NEW L, Counts(gate, D, L), DOMAIN L = Workers,
         NEW w \in Workers, L[w] \in D, NEW x, x \notin D
  PROVE  Counts(Freed(gate, L[w]), D, [L EXCEPT ![w] = x])
<1> DEFINE M == [L EXCEPT ![w] = x]
           c == L[w]
<1>1. \A v \in Workers : M[v] = IF v = w THEN x ELSE L[v]
  OBVIOUS
<1>2. \A S : S \subseteq Workers => IsFiniteSet(S) /\ Cardinality(S) \in Nat
  BY ActorAssumption, FS_Subset, FS_CardinalityType
<1>3. /\ Cardinality({v \in Workers : M[v] \in D}) = Cardinality({v \in Workers : L[v] \in D}) - 1
  <2>1. {v \in Workers : M[v] \in D} = {v \in Workers : L[v] \in D} \ {w}
    BY <1>1
  <2>2. w \in {v \in Workers : L[v] \in D} /\ IsFiniteSet({v \in Workers : L[v] \in D})
    BY <1>2
  <2> QED BY <2>1, <2>2, FS_RemoveElement
<1>4. /\ Cardinality({v \in Workers : M[v] = c}) = Cardinality({v \in Workers : L[v] = c}) - 1
      /\ Cardinality({v \in Workers : M[v] = c}) \in Nat
  <2>1. {v \in Workers : M[v] = c} = {v \in Workers : L[v] = c} \ {w}
    BY <1>1
  <2>2. w \in {v \in Workers : L[v] = c} /\ IsFiniteSet({v \in Workers : L[v] = c})
    BY <1>2
  <2>3. Cardinality({v \in Workers : M[v] = c}) \in Nat
    BY <1>2
  <2> QED BY <2>1, <2>2, <2>3, FS_RemoveElement
<1>5. ASSUME NEW d \in D, d # c PROVE {v \in Workers : M[v] = d} = {v \in Workers : L[v] = d}
  BY <1>1, <1>5
<1>6. /\ Freed(gate, c).total = gate.total - 1
      /\ Freed(gate, c).by = [gate.by EXCEPT ![c] = gate.by[c] - 1]
      /\ Freed(gate, c) = [total |-> Freed(gate, c).total, by |-> Freed(gate, c).by]
  BY DEF Freed
<1>7. Freed(gate, c).by[c] = Cardinality({v \in Workers : M[v] = c})
  BY <1>4, <1>6 DEF Counts
<1>8. Freed(gate, c).by \in [D -> Nat]
  BY <1>4, <1>6, <1>7 DEF Counts
<1>9. ASSUME NEW d \in D PROVE Freed(gate, c).by[d] = Cardinality({v \in Workers : M[v] = d})
  <2>1. CASE d = c
    BY <2>1, <1>7
  <2>2. CASE d # c
    BY <2>2, <1>5, <1>6 DEF Counts
  <2> QED BY <2>1, <2>2
<1> QED BY <1>3, <1>6, <1>8, <1>9 DEF Counts

\* The gate goes from one state to another while a handler's lease goes from old to
\* new: what is held is given back, and what is taken had room.
GateStep(gate, gate2, limit, max, old, new) ==
  \E between :
    /\ between = IF old \in DOMAIN limit THEN Freed(gate, old) ELSE gate
    /\ gate2 = IF new \in DOMAIN limit THEN Taken(between, new) ELSE between
    /\ new \in DOMAIN limit => between.total < max /\ between.by[new] < limit[new]

\* Such a step keeps the counters equal to the leases, within the limits.
LEMMA GateSteps ==
  ASSUME NEW limit, NEW max \in Nat, \A c \in DOMAIN limit : limit[c] \in Nat,
         NEW gate, NEW gate2, NEW L, DOMAIN L = Workers, NEW w \in Workers, NEW new,
         Counts(gate, DOMAIN limit, L), Within(gate, limit, max),
         GateStep(gate, gate2, limit, max, L[w], new)
  PROVE  Counts(gate2, DOMAIN limit, [L EXCEPT ![w] = new]) /\ Within(gate2, limit, max)
<1> DEFINE D == DOMAIN limit
<1>1. PICK between :
        /\ between = IF L[w] \in D THEN Freed(gate, L[w]) ELSE gate
        /\ gate2 = IF new \in D THEN Taken(between, new) ELSE between
        /\ new \in D => between.total < max /\ between.by[new] < limit[new]
  BY DEF GateStep
<1>2. PICK out : out \notin D
  <2>1. \E x : x \notin D
    BY NoSetContainsEverything
  <2> QED BY <2>1
<1> DEFINE M == IF L[w] \in D THEN [L EXCEPT ![w] = out] ELSE L
<1>3. Counts(between, D, M) /\ DOMAIN M = Workers /\ M[w] \notin D
  <2>1. CASE L[w] \in D
    <3>1. Counts(Freed(gate, L[w]), D, [L EXCEPT ![w] = out])
      BY <2>1, <1>2, GateFreed
    <3> QED BY <2>1, <3>1, <1>1, <1>2
  <2>2. CASE L[w] \notin D
    BY <2>2, <1>1
  <2> QED BY <2>1, <2>2
<1>4. Within(between, limit, max)
  <2>1. CASE L[w] \in D
    <3>1. Freed(gate, L[w]).total = gate.total - 1 /\ Freed(gate, L[w]).by = [gate.by EXCEPT ![L[w]] = gate.by[L[w]] - 1]
      BY DEF Freed
    <3>2. gate.by \in [D -> Nat] /\ gate.total \in Nat
      BY ActorAssumption, FS_Subset, FS_CardinalityType DEF Counts
    <3>3. Freed(gate, L[w]).total <= max
      BY <3>1, <3>2 DEF Within
    <3>4. ASSUME NEW c \in D PROVE Freed(gate, L[w]).by[c] <= limit[c]
      <4>1. gate.by[c] \in Nat /\ gate.by[c] <= limit[c] /\ limit[c] \in Nat
        BY <3>2 DEF Within
      <4> QED BY <3>1, <3>2, <4>1
    <3> QED BY <2>1, <3>3, <3>4, <1>1 DEF Within
  <2>2. CASE L[w] \notin D
    BY <2>2, <1>1
  <2> QED BY <2>1, <2>2
<1>5. [M EXCEPT ![w] = new] = [L EXCEPT ![w] = new]
  OBVIOUS
<1>6. CASE new \in D
  <2>1. Counts(Taken(between, new), D, [M EXCEPT ![w] = new])
    BY <1>6, <1>3, GateTaken
  <2>2. between.by \in [D -> Nat] /\ between.total \in Nat
    BY <1>3, ActorAssumption, FS_Subset, FS_CardinalityType DEF Counts
  <2>3. Taken(between, new).total = between.total + 1 /\ Taken(between, new).by = [between.by EXCEPT ![new] = between.by[new] + 1]
    BY DEF Taken
  <2>4. between.total < max /\ between.by[new] < limit[new]
    BY <1>6, <1>1
  <2>5. Taken(between, new).total <= max
    BY <2>2, <2>3, <2>4
  <2>6. ASSUME NEW c \in D PROVE Taken(between, new).by[c] <= limit[c]
    <3>1. between.by[c] \in Nat /\ between.by[c] <= limit[c] /\ limit[c] \in Nat
      BY <1>4, <2>2 DEF Within
    <3>2. CASE c = new
      BY <3>1, <3>2, <2>2, <2>3, <2>4
    <3>3. CASE c # new
      BY <3>1, <3>3, <2>2, <2>3
    <3> QED BY <3>2, <3>3
  <2>7. Within(Taken(between, new), limit, max)
    BY <2>5, <2>6 DEF Within
  <2> QED BY <1>6, <2>1, <2>7, <1>1, <1>5
<1>7. CASE new \notin D
  <2>1. Counts(between, D, [M EXCEPT ![w] = new])
    <3> HIDE DEF M
    <3> QED BY <1>7, <1>3, GateSame
  <2>2. gate2 = between
    BY <1>7, <1>1
  <2> QED BY <2>1, <2>2, <1>4, <1>5
<1> QED BY <1>6, <1>7

\* Capabilities and providers are different names, and None is neither.
LEMMA GateNames ==
  /\ DOMAIN GateLimit \cap DOMAIN RouterLimit = {}
  /\ None \notin DOMAIN GateLimit /\ None \notin DOMAIN RouterLimit
  /\ DOMAIN GateLimit = Capabilities
  /\ GateMax \in Nat /\ \A c \in DOMAIN GateLimit : GateLimit[c] \in Nat
  /\ RouterMax \in Nat /\ \A p \in DOMAIN RouterLimit : RouterLimit[p] \in Nat
  /\ Wired \subseteq DOMAIN RouterLimit
<1>1. PICK ps \in SUBSET Providers : RouterLimit \in [ps -> 1..RouterMax]
  BY GateLimitAssumption
<1>2. DOMAIN RouterLimit = ps /\ \A p \in ps : RouterLimit[p] \in 1..RouterMax
  BY <1>1
<1>3. DOMAIN GateLimit = Capabilities /\ \A c \in Capabilities : GateLimit[c] \in 1..GateMax
  BY GateLimitAssumption
<1>4. GateMax \in Nat /\ RouterMax \in Nat /\ Wired \subseteq DOMAIN RouterLimit
  BY GateLimitAssumption
<1>5. Capabilities \cap Providers = {} /\ None \notin Capabilities /\ None \notin Providers
  BY ActorAssumption DEF Capabilities, Providers
<1> QED BY <1>1, <1>2, <1>3, <1>4, <1>5

-----------------------------------------------------------------------------
(* The steps of a handler. *)

\* A step of handler w: its new record is sound and each gate follows its lease.
Works(w) == \E n :
  /\ handler' = [handler EXCEPT ![w] = n] /\ HandlerOK(n)
  /\ GateStep(facade, facade', GateLimit, GateMax, handler[w].lease, n.lease)
  /\ GateStep(router, router', RouterLimit, RouterMax, handler[w].lease, n.lease)

\* Such a step keeps handlers and gates in order.
LEMMA WorksSafe ==
  ASSUME HandlersOK, GatesOK, NEW w \in Workers, Works(w), UNCHANGED <<req, reserve>>
  PROVE  HandlersOK' /\ GatesOK'
<1>1. PICK n :
        /\ handler' = [handler EXCEPT ![w] = n] /\ HandlerOK(n)
        /\ GateStep(facade, facade', GateLimit, GateMax, handler[w].lease, n.lease)
        /\ GateStep(router, router', RouterLimit, RouterMax, handler[w].lease, n.lease)
  BY DEF Works
<1>2. HandlersOK'
  BY <1>1, HandlerMoves
<1>3. DOMAIN Leases = Workers /\ Leases[w] = handler[w].lease /\ Leases' = [Leases EXCEPT ![w] = n.lease]
  BY <1>1 DEF Leases, HandlersOK
<1> HIDE DEF Leases
<1>4. Counts(facade', DOMAIN GateLimit, [Leases EXCEPT ![w] = n.lease]) /\ Within(facade', GateLimit, GateMax)
  BY <1>1, <1>3, GateSteps, GateNames DEF GatesOK
<1>5. Counts(router', DOMAIN RouterLimit, [Leases EXCEPT ![w] = n.lease]) /\ Within(router', RouterLimit, RouterMax)
  BY <1>1, <1>3, GateSteps, GateNames DEF GatesOK
<1> QED BY <1>2, <1>3, <1>4, <1>5 DEF GatesOK, Counts, Within

\* Leases outside a gate leave it alone.
LEMMA GateIdle ==
  ASSUME NEW gate, NEW limit, NEW max, NEW old, NEW new, old \notin DOMAIN limit, new \notin DOMAIN limit
  PROVE  GateStep(gate, gate, limit, max, old, new)
BY DEF GateStep

\* A lease is given back.
LEMMA GateFrees ==
  ASSUME NEW gate, NEW limit, NEW max, NEW old, NEW new, old \in DOMAIN limit, new \notin DOMAIN limit
  PROVE  GateStep(gate, Freed(gate, old), limit, max, old, new)
BY DEF GateStep

\* A handler that ends up without a lease gives back the one it held.
Lets(w) ==
  /\ facade' = IF handler[w].pc = "calling" THEN Freed(facade, handler[w].lease) ELSE facade
  /\ router' = IF handler[w].pc = "agent" THEN Freed(router, handler[w].lease) ELSE router

\* Then the gates follow.
LEMMA LetsGo ==
  ASSUME NEW w \in Workers, HandlerOK(handler[w]), Lets(w), NEW n, n.lease = None
  PROVE  /\ GateStep(facade, facade', GateLimit, GateMax, handler[w].lease, n.lease)
         /\ GateStep(router, router', RouterLimit, RouterMax, handler[w].lease, n.lease)
<1> DEFINE old == handler[w].lease
<1>1. CASE handler[w].pc = "calling"
  <2>1. old \in DOMAIN GateLimit /\ old \notin DOMAIN RouterLimit
    BY <1>1, GateNames DEF HandlerOK
  <2>2. facade' = Freed(facade, old) /\ router' = router
    BY <1>1 DEF Lets
  <2> QED BY <2>1, <2>2, GateNames, GateIdle, GateFrees
<1>2. CASE handler[w].pc = "agent"
  <2>1. old \notin DOMAIN GateLimit /\ old \in DOMAIN RouterLimit
    BY <1>2, GateNames DEF HandlerOK
  <2>2. facade' = facade /\ router' = Freed(router, old)
    BY <1>2 DEF Lets
  <2> QED BY <2>1, <2>2, GateNames, GateIdle, GateFrees
<1>3. CASE handler[w].pc \notin {"calling", "agent"}
  <2>1. old = None
    BY <1>3 DEF HandlerOK
  <2>2. facade' = facade /\ router' = router
    BY <1>3 DEF Lets
  <2> QED BY <2>1, <2>2, GateNames, GateIdle
<1> QED BY <1>1, <1>2, <1>3

\* A verdict, an answer and an idle handler are sound.
LEMMA VerdictOK ==
  ASSUME NEW h, NEW fault, h.task \in Tasks
  PROVE  HandlerOK(Verdict(h, fault)) /\ Verdict(h, fault).lease = None
BY VerdictFields DEF HandlerOK, Busy

\* An answer keeps what was claimed.
LEMMA AnswerOK ==
  ASSUME NEW h, Claimed(h)
  PROVE  HandlerOK(Answer(h)) /\ Answer(h).lease = None
<1>1. DOMAIN h = DOMAIN Idle
  BY DEF Claimed
<1>2. LET v == Answer(h) IN
      /\ DOMAIN v = DOMAIN Idle /\ v.pc = "kernel" /\ v.lease = None
      /\ v.task = h.task /\ v.step = h.step /\ v.key = h.key /\ v.pool = h.pool
  BY <1>1, AnswerFields
<1>3. Claimed(Answer(h))
  BY <1>2 DEF Claimed
<1> QED BY <1>2, <1>3 DEF HandlerOK, Busy, Claimed

\* An idle handler has nothing to keep.
LEMMA IdleOK == HandlerOK(Idle) /\ Idle.lease = None
BY IdleFields DEF HandlerOK, Busy

\* The pool of a lane that leads to the CLI is one for which it is allowed.
LEMMA LaneCli ==
  ASSUME RowsOK, NEW t \in Tasks, InLane(t, "non-interactive")
  PROVE  CliAllowed(t)
<1>1. CASE req[t].explicit # None
  BY <1>1 DEF InLane, Lane, CliAllowed
<1>2. CASE req[t].explicit = None
  BY <1>2 DEF InLane, Lane, CliAllowed, Priority
<1> QED BY <1>1, <1>2

\* A stage that follows its pool asks a local model only from the local pool.
LEMMA LocalFits ==
  ASSUME NEW h, Transport(h) = "local", FollowsPool(h.key)
  PROVE  h.pool = "local-inference"
BY DEF Transport, FollowsPool, MarkdownTransport, StructurizeTransport, SummaryTransport

\* A stage goes to the CLI only from the non-interactive pool.
LEMMA CliFits ==
  ASSUME RowsOK, NEW h, Claimed(h), Transport(h) = "cli"
  PROVE  CliAllowed(h.task)
<1>1. h.key \in Keys
  <2>1. Plan(h.task) \in Seq(Keys)
    BY DEF RowsOK, Claimed, Plan, Requests
  <2> QED BY <2>1 DEF Claimed
<1>2. h.key \notin {"refresh", "vectorize"}
  BY DEF Transport, VectorizeTransport
<1>3. IsGenerate(h.key)
  BY <1>1, <1>2 DEF Keys, IsGenerate
<1>4. h.pool # "local-inference"
  <2>1. CASE h.key = "clean"
    BY <2>1 DEF Transport, CleanTransport
  <2>2. CASE h.key \in {"transcribe", "structurize"}
    BY <2>2 DEF Transport, MarkdownTransport, StructurizeTransport
  <2>3. CASE h.key = "construct"
    BY <2>3 DEF Transport, SummaryTransport
  <2> QED BY <2>1, <2>2, <2>3, <1>1, <1>2 DEF Keys
<1>5. h.pool = "non-interactive"
  BY <1>3, <1>4 DEF Claimed, Placed
<1>6. InLane(h.task, "non-interactive") /\ h.task \in Tasks
  BY <1>5 DEF Claimed, Placed
<1> QED BY <1>6, LaneCli

\* AgentCliRouter.run takes a provider with room, or the handler fails.
LEMMA RouteWorks ==
  ASSUME NEW w \in Workers, NEW h, Claimed(h), CliAllowed(h.task), NEW i, NEW gate, RouteOn(w, h, i, gate)
  PROVE  \E n :
           /\ handler' = [handler EXCEPT ![w] = n] /\ HandlerOK(n) /\ n.lease \notin DOMAIN GateLimit
           /\ router' = IF n.lease \in DOMAIN RouterLimit THEN Taken(gate, n.lease) ELSE gate
           /\ n.lease \in DOMAIN RouterLimit => gate.total < RouterMax /\ gate.by[n.lease] < RouterLimit[n.lease]
<1> DEFINE open == {j \in DOMAIN h.order : /\ j > i /\ h.order[j] \in Wired /\ RouterOpen(gate, h.order[j])}
<1>1. CASE open = {}
  <2>1. handler' = [handler EXCEPT ![w] = Verdict(h, "transport")] /\ router' = gate
    BY <1>1 DEF RouteOn
  <2>2. HandlerOK(Verdict(h, "transport")) /\ Verdict(h, "transport").lease = None
    BY VerdictOK DEF Claimed
  <2> QED BY <2>1, <2>2, GateNames
<1>2. CASE open # {}
  <2>1. PICK j \in open :
          /\ handler' = [handler EXCEPT ![w] = [h EXCEPT !.pc = "agent", !.lease = h.order[j], !.ord = j - 1]]
          /\ router' = Taken(gate, h.order[j])
    BY <1>2 DEF RouteOn
  <2> DEFINE n == [h EXCEPT !.pc = "agent", !.lease = h.order[j], !.ord = j - 1]
  <2>2. /\ DOMAIN n = DOMAIN Idle /\ n.pc = "agent" /\ n.lease = h.order[j]
        /\ n.task = h.task /\ n.step = h.step /\ n.key = h.key /\ n.pool = h.pool
    BY IdleFields DEF Claimed
  <2>3. n.lease \in DOMAIN RouterLimit /\ gate.total < RouterMax /\ gate.by[n.lease] < RouterLimit[n.lease]
    BY <2>2, GateNames DEF RouterOpen
  <2>4. handler' = [handler EXCEPT ![w] = n] /\ router' = Taken(gate, n.lease)
    BY <2>1, <2>2
  <2> HIDE DEF n
  <2>5. Claimed(n)
    BY <2>2 DEF Claimed
  <2>6. HandlerOK(n)
    BY <2>2, <2>3, <2>5 DEF HandlerOK, Busy, Claimed
  <2>7. n.lease \notin DOMAIN GateLimit
    BY <2>3, GateNames
  <2> QED BY <2>3, <2>4, <2>6, <2>7
<1> QED BY <1>1, <1>2

\* Entering the router from any state but that of an agent call.
LEMMA EnterWorks ==
  ASSUME NEW w \in Workers, HandlerOK(handler[w]), handler[w].pc # "agent",
         facade' = IF handler[w].pc = "calling" THEN Freed(facade, handler[w].lease) ELSE facade,
         NEW h, Claimed(h), CliAllowed(h.task), EnterRouter(w, h)
  PROVE  Works(w)
<1> DEFINE g == [h EXCEPT !.via = "cli", !.lease = None, !.order = AttemptOrder]
<1>1. /\ DOMAIN g = DOMAIN Idle
      /\ g.task = h.task /\ g.step = h.step /\ g.key = h.key /\ g.pool = h.pool
  BY IdleFields DEF Claimed
<1>2. RouteOn(w, g, 0, router)
  BY DEF EnterRouter
<1> HIDE DEF g
<1>3. Claimed(g) /\ CliAllowed(g.task)
  BY <1>1 DEF Claimed
<1>4. PICK n :
        /\ handler' = [handler EXCEPT ![w] = n] /\ HandlerOK(n) /\ n.lease \notin DOMAIN GateLimit
        /\ router' = IF n.lease \in DOMAIN RouterLimit THEN Taken(router, n.lease) ELSE router
        /\ n.lease \in DOMAIN RouterLimit => router.total < RouterMax /\ router.by[n.lease] < RouterLimit[n.lease]
  BY <1>2, <1>3, RouteWorks
<1>5. handler[w].lease \notin DOMAIN RouterLimit
  BY GateNames DEF HandlerOK
<1>6. GateStep(router, router', RouterLimit, RouterMax, handler[w].lease, n.lease)
  BY <1>4, <1>5 DEF GateStep
<1>7. GateStep(facade, facade', GateLimit, GateMax, handler[w].lease, n.lease)
  BY <1>4, GateNames, GateIdle, GateFrees DEF HandlerOK
<1> QED BY <1>4, <1>6, <1>7 DEF Works

\* A step to a record without a lease that gives back what was held.
LEMMA LetsWork ==
  ASSUME NEW w \in Workers, HandlerOK(handler[w]), Lets(w), NEW n,
         handler' = [handler EXCEPT ![w] = n], HandlerOK(n), n.lease = None
  PROVE  Works(w)
BY LetsGo DEF Works

\* An error of the local transport is salvaged where the CLI is allowed.
LEMMA RaiseWorks ==
  ASSUME NEW w \in Workers, HandlerOK(handler[w]), handler[w].pc # "agent",
         facade' = IF handler[w].pc = "calling" THEN Freed(facade, handler[w].lease) ELSE facade,
         NEW h, Claimed(h), NEW fault, RaiseLocal(w, h, fault)
  PROVE  Works(w)
<1>1. CASE CanSalvage(h, fault)
  <2>1. CliAllowed(h.task) /\ EnterRouter(w, h)
    BY <1>1 DEF CanSalvage, CliAllowed, RaiseLocal
  <2> QED BY <2>1, EnterWorks
<1>2. CASE ~CanSalvage(h, fault)
  <2>1. handler' = [handler EXCEPT ![w] = Verdict(h, fault)] /\ router' = router
    BY <1>2 DEF RaiseLocal
  <2>2. HandlerOK(Verdict(h, fault)) /\ Verdict(h, fault).lease = None
    BY VerdictOK DEF Claimed
  <2>3. Lets(w)
    BY <2>1 DEF Lets
  <2> QED BY <2>1, <2>2, <2>3, LetsWork
<1> QED BY <1>1, <1>2

\* InferenceFacade._invoke takes a unit of the gate, or fails.
LEMMA AcquireWorks ==
  ASSUME NEW w \in Workers, HandlerOK(handler[w]), handler[w].pc \notin {"calling", "agent"},
         NEW h, Claimed(h), FollowsPool(h.key) => h.pool = "local-inference",
         NEW c \in Capabilities, Acquire(w, h, c)
  PROVE  Works(w)
<1>1. CASE FacadeOpen(facade, c)
  <2> DEFINE n == [h EXCEPT !.pc = "calling", !.lease = c, !.attempt = @ + 1]
  <2>1. handler' = [handler EXCEPT ![w] = n] /\ facade' = Taken(facade, c) /\ router' = router
    BY <1>1 DEF Acquire
  <2>2. /\ DOMAIN n = DOMAIN Idle /\ n.pc = "calling" /\ n.lease = c
        /\ n.task = h.task /\ n.step = h.step /\ n.key = h.key /\ n.pool = h.pool
    BY IdleFields DEF Claimed
  <2> HIDE DEF n
  <2>3. Claimed(n)
    BY <2>2 DEF Claimed
  <2>4. HandlerOK(n)
    BY <2>2, <2>3, GateNames DEF HandlerOK, Busy, Claimed
  <2>5. handler[w].lease = None
    BY DEF HandlerOK
  <2>6. GateStep(facade, facade', GateLimit, GateMax, handler[w].lease, n.lease)
    BY <1>1, <2>1, <2>2, <2>5, GateNames DEF GateStep, FacadeOpen
  <2>7. GateStep(router, router', RouterLimit, RouterMax, handler[w].lease, n.lease)
    BY <2>1, <2>2, <2>5, GateNames, GateIdle
  <2> QED BY <2>1, <2>4, <2>6, <2>7 DEF Works
<1>2. CASE ~FacadeOpen(facade, c)
  <2>1. RaiseLocal(w, h, "backpressure") /\ facade' = facade
    BY <1>2 DEF Acquire
  <2> QED BY <2>1, RaiseWorks
<1> QED BY <1>1, <1>2

\* Every step of a handler is sound.  First the calls of a model.
LEMMA BeginWorks ==
  ASSUME Inv, NEW w \in Workers, Begin(w) \/ InputsRefused(w)
  PROVE  Works(w)
<1> DEFINE h == handler[w]
<1>1. HandlerOK(h) /\ h.pc = "begin"
  BY DEF Inv, HandlersOK, Begin, InputsRefused
<1>2. Claimed(h) /\ h.lease = None /\ RowsOK
  BY <1>1 DEF HandlerOK, Busy, Inv
<1>3. ASSUME InputsRefused(w) PROVE Works(w)
  <2>1. PICK fault : handler' = [handler EXCEPT ![w] = Verdict(h, fault)]
    BY <1>3 DEF InputsRefused
  <2>2. facade' = facade /\ router' = router
    BY <1>3 DEF InputsRefused, gates
  <2>3. Lets(w)
    BY <1>1, <2>2 DEF Lets
  <2> QED BY <1>1, <1>2, <2>1, <2>3, VerdictOK, LetsWork DEF Claimed
<1>4. ASSUME Begin(w), Transport(h) \in {"none", "missing"} PROVE Works(w)
  <2>1. \/ handler' = [handler EXCEPT ![w] = Answer(h)]
        \/ handler' = [handler EXCEPT ![w] = Verdict(h, "missing")]
    BY <1>4 DEF Begin
  <2>2. facade' = facade /\ router' = router
    BY <1>4 DEF Begin, gates
  <2>3. Lets(w)
    BY <1>1, <2>2 DEF Lets
  <2> QED BY <1>1, <1>2, <2>1, <2>3, VerdictOK, AnswerOK, LetsWork DEF Claimed
<1>5. ASSUME Begin(w), Transport(h) = "local" PROVE Works(w)
  <2> DEFINE g == [h EXCEPT !.via = "local"]
  <2>1. Acquire(w, g, Capability(h.key))
    BY <1>5 DEF Begin
  <2>2. /\ DOMAIN g = DOMAIN Idle
        /\ g.task = h.task /\ g.step = h.step /\ g.key = h.key /\ g.pool = h.pool
    BY <1>2, IdleFields DEF Claimed
  <2>3. FollowsPool(h.key) => h.pool = "local-inference"
    BY <1>5, LocalFits
  <2>4. Capability(h.key) \in Capabilities
    BY DEF Capability, Capabilities
  <2> HIDE DEF g
  <2>5. Claimed(g) /\ (FollowsPool(g.key) => g.pool = "local-inference")
    BY <1>2, <2>2, <2>3 DEF Claimed
  <2> QED BY <1>1, <2>1, <2>4, <2>5, AcquireWorks
<1>6. ASSUME Begin(w), Transport(h) = "cli" PROVE Works(w)
  <2>1. EnterRouter(w, h) /\ facade' = facade
    BY <1>6 DEF Begin
  <2>2. CliAllowed(h.task)
    BY <1>2, <1>6, CliFits
  <2> QED BY <1>1, <1>2, <2>1, <2>2, EnterWorks
<1>7. Begin(w) => Transport(h) \in {"none", "missing", "local", "cli"}
  BY DEF Begin
<1> QED BY <1>3, <1>4, <1>5, <1>6, <1>7

\* The facade answers, sleeps, resumes or fails.
LEMMA FacadeWorks ==
  ASSUME Inv, NEW w \in Workers,
         FacadeAnswers(w) \/ FacadeBacksOff(w) \/ FacadeResumes(w) \/ FacadeFails(w)
  PROVE  Works(w)
<1> DEFINE h == handler[w]
<1>1. HandlerOK(h) /\ h.pc \in {"calling", "backoff"}
  BY DEF Inv, HandlersOK, FacadeAnswers, FacadeBacksOff, FacadeResumes, FacadeFails
<1>2. Claimed(h) /\ (FollowsPool(h.key) => h.pool = "local-inference")
  BY <1>1 DEF HandlerOK, Busy
<1>3. ASSUME FacadeAnswers(w) PROVE Works(w)
  <2>1. handler' = [handler EXCEPT ![w] = Answer(h)] /\ Lets(w)
    BY <1>3 DEF FacadeAnswers, Lets
  <2> QED BY <1>1, <1>2, <2>1, AnswerOK, LetsWork
<1>4. ASSUME FacadeBacksOff(w) PROVE Works(w)
  <2> DEFINE n == [h EXCEPT !.pc = "backoff", !.lease = None]
  <2>1. handler' = [handler EXCEPT ![w] = n] /\ Lets(w)
    BY <1>4 DEF FacadeBacksOff, Lets, Inv, HandlersOK
  <2>2. /\ DOMAIN n = DOMAIN Idle /\ n.pc = "backoff" /\ n.lease = None
        /\ n.task = h.task /\ n.step = h.step /\ n.key = h.key /\ n.pool = h.pool
    BY <1>2, IdleFields DEF Claimed
  <2> HIDE DEF n
  <2>3. Claimed(n)
    BY <1>2, <2>2 DEF Claimed
  <2>4. HandlerOK(n)
    BY <1>2, <2>2, <2>3 DEF HandlerOK, Busy, Claimed
  <2> QED BY <1>1, <2>1, <2>2, <2>4, LetsWork
<1>5. ASSUME FacadeResumes(w) PROVE Works(w)
  <2>1. Acquire(w, h, Capability(h.key)) /\ h.pc = "backoff"
    BY <1>5 DEF FacadeResumes
  <2>2. Capability(h.key) \in Capabilities
    BY DEF Capability, Capabilities
  <2> QED BY <1>1, <1>2, <2>1, <2>2, AcquireWorks
<1>6. ASSUME FacadeFails(w) PROVE Works(w)
  <2>1. PICK fault : RaiseLocal(w, h, fault)
    BY <1>6 DEF FacadeFails
  <2>2. h.pc = "calling" /\ facade' = Freed(facade, h.lease)
    BY <1>6 DEF FacadeFails
  <2> QED BY <1>1, <1>2, <2>1, <2>2, RaiseWorks
<1> QED BY <1>3, <1>4, <1>5, <1>6

\* A provider answers, fails, or leaves the call to the next one.
LEMMA AgentWorks ==
  ASSUME Inv, NEW w \in Workers, AgentAnswers(w) \/ AgentFallsBack(w) \/ AgentFails(w)
  PROVE  Works(w)
<1> DEFINE h == handler[w]
<1>1. HandlerOK(h) /\ h.pc = "agent"
  BY DEF Inv, HandlersOK, AgentAnswers, AgentFallsBack, AgentFails
<1>2. Claimed(h) /\ CliAllowed(h.task) /\ h.lease \in DOMAIN RouterLimit
  BY <1>1 DEF HandlerOK, Busy
<1>3. ASSUME AgentAnswers(w) PROVE Works(w)
  <2>1. handler' = [handler EXCEPT ![w] = Answer(h)] /\ Lets(w)
    BY <1>3 DEF AgentAnswers, Lets
  <2> QED BY <1>1, <1>2, <2>1, AnswerOK, LetsWork
<1>4. ASSUME AgentFails(w) PROVE Works(w)
  <2>1. handler' = [handler EXCEPT ![w] = Verdict(h, "invalid")] /\ Lets(w)
    BY <1>4 DEF AgentFails, Lets
  <2> QED BY <1>1, <1>2, <2>1, VerdictOK, LetsWork DEF Claimed
<1>5. ASSUME AgentFallsBack(w) PROVE Works(w)
  <2> DEFINE g == [h EXCEPT !.lease = None]
             between == Freed(router, h.lease)
  <2>1. RouteOn(w, g, h.ord + 1, between) /\ facade' = facade
    BY <1>5 DEF AgentFallsBack
  <2>2. /\ DOMAIN g = DOMAIN Idle
        /\ g.task = h.task /\ g.step = h.step /\ g.key = h.key /\ g.pool = h.pool
    BY <1>2, IdleFields DEF Claimed
  <2> HIDE DEF g
  <2>3. Claimed(g) /\ CliAllowed(g.task)
    BY <1>2, <2>2 DEF Claimed
  <2>4. PICK n :
          /\ handler' = [handler EXCEPT ![w] = n] /\ HandlerOK(n) /\ n.lease \notin DOMAIN GateLimit
          /\ router' = IF n.lease \in DOMAIN RouterLimit THEN Taken(between, n.lease) ELSE between
          /\ n.lease \in DOMAIN RouterLimit => between.total < RouterMax /\ between.by[n.lease] < RouterLimit[n.lease]
    <3> HIDE DEF between
    <3> QED BY <2>1, <2>3, RouteWorks
  <2>5. GateStep(router, router', RouterLimit, RouterMax, h.lease, n.lease)
    BY <1>2, <2>4 DEF GateStep
  <2>6. GateStep(facade, facade', GateLimit, GateMax, h.lease, n.lease)
    BY <1>2, <2>1, <2>4, GateNames, GateIdle
  <2> QED BY <2>4, <2>5, <2>6 DEF Works
<1> QED BY <1>3, <1>4, <1>5

\* The kernel rejects, the success is rolled back, or the handler is interrupted.
LEMMA KernelWorks ==
  ASSUME Inv, NEW w \in Workers, KernelRejects(w) \/ CommitAborts(w) \/ HandlerInterrupted(w)
  PROVE  Works(w)
<1> DEFINE h == handler[w]
<1>1. HandlerOK(h) /\ h.pc \in Busy
  BY DEF Inv, HandlersOK, KernelRejects, CommitAborts, HandlerInterrupted, Busy
<1>2. Claimed(h)
  BY <1>1 DEF HandlerOK
<1>3. ASSUME NEW fault, handler' = [handler EXCEPT ![w] = Verdict(h, fault)], Lets(w) PROVE Works(w)
  BY <1>1, <1>2, <1>3, VerdictOK, LetsWork DEF Claimed
<1>4. ASSUME CommitAborts(w) PROVE Works(w)
  <2>1. PICK fault : handler' = [handler EXCEPT ![w] = Verdict(h, fault)]
    BY <1>4 DEF CommitAborts
  <2>2. Lets(w)
    BY <1>4 DEF CommitAborts, Lets, gates
  <2> QED BY <2>1, <2>2, <1>3
<1>5. ASSUME HandlerInterrupted(w) PROVE Works(w)
  <2>1. handler' = [handler EXCEPT ![w] = Verdict(h, "fenced")] /\ Lets(w)
    BY <1>5 DEF HandlerInterrupted, Lets
  <2> QED BY <2>1, <1>3
<1>6. ASSUME KernelRejects(w) PROVE Works(w)
  <2>1. h.pc = "kernel" /\ facade' = facade
    BY <1>6 DEF KernelRejects
  <2>2. CASE SummariesRejected(w, h)
    <3>1. RaiseLocal(w, h, "rejected")
      BY <2>2 DEF SummariesRejected
    <3> QED BY <1>1, <1>2, <2>1, <3>1, RaiseWorks
  <2>3. CASE StructureRejected(w, h) \/ ConstructRejected(w, h) \/ RefreshRejected(w, h) \/ TextRejected(w, h)
    <3>1. handler' = [handler EXCEPT ![w] = Verdict(h, "rejected")] /\ router' = router
      BY <2>3 DEF StructureRejected, ConstructRejected, RefreshRejected, TextRejected
    <3>2. Lets(w)
      BY <2>1, <3>1 DEF Lets
    <3> QED BY <3>1, <3>2, <1>3
  <2> QED BY <1>6, <2>2, <2>3 DEF KernelRejects
<1> QED BY <1>4, <1>5, <1>6

\* A submitted Outcome leaves an idle handler.
LEMMA SubmitWorks ==
  ASSUME Inv, NEW w \in Workers, SubmitSuccess(w) \/ SubmitFailure(w) \/ SubmitRefused(w)
  PROVE  Works(w)
<1>1. HandlerOK(handler[w]) /\ handler[w].pc \in {"kernel", "submit"}
  BY DEF Inv, HandlersOK, SubmitSuccess, SubmitFailure, SubmitRefused
<1>2. handler' = [handler EXCEPT ![w] = Idle] /\ facade' = facade /\ router' = router
  BY DEF SubmitSuccess, SubmitFailure, SubmitRefused, gates
<1>3. Lets(w)
  BY <1>1, <1>2 DEF Lets
<1> QED BY <1>1, <1>2, <1>3, IdleOK, LetsWork

-----------------------------------------------------------------------------
(* Admission. *)

\* A lane has at most two pools, and the one preferred is one of those open.
LEMMA MinIn == ASSUME NEW S \in SUBSET {1, 2}, S # {} PROVE Min(S) \in S
<1>1. \E n \in S : \A m \in S : n <= m
  <2>1. CASE 1 \in S
    BY <2>1
  <2>2. CASE 1 \notin S
    <3>1. \A m \in S : m = 2
      BY <2>2
    <3>2. 2 \in S
      BY <3>1
    <3>3. 2 <= 2
      OBVIOUS
    <3> QED BY <3>1, <3>2, <3>3
  <2> QED BY <2>1, <2>2
<1>2. Min(S) = CHOOSE n \in S : \A m \in S : n <= m
  BY Zenon DEF Min
<1> QED BY <1>1, <1>2, Zenon

\* choose_pool gives a waiting Process a pool of its lane with room, or none.
LEMMA ChoosePoolOK ==
  ASSUME RowsOK, NEW t \in Tasks, NEW pl
  PROVE  LET p == ChoosePool(pl, t) IN
         /\ Placed(t, Key(t), p)
         /\ IsGenerate(Key(t)) /\ reserve /\ Restrained(t) => p = "waiting"
         /\ p \in Pools => Queued(p, pl) < QueuedCap[p]
         /\ p \in Pools \cup {"waiting", "unpooled"}
<1> DEFINE p == ChoosePool(pl, t)
           open == {i \in DOMAIN Offers(t) :
                      /\ Queued(Offers(t)[i], pl) < QueuedCap[Offers(t)[i]]
                      /\ Offers(t)[i] = "local-inference" => LocalUp}
<1>1. CASE ~Pooled(t)
  BY <1>1 DEF ChoosePool, Pooled, Placed, Pools
<1>2. CASE Pooled(t) /\ open = {}
  <2>1. p = "waiting"
    BY <1>2 DEF ChoosePool
  <2> QED BY <2>1 DEF Placed, Pools
<1>3. CASE Pooled(t) /\ open # {}
  <2>1. DOMAIN Offers(t) \in SUBSET {1, 2}
    BY DEF Offers, Lane
  <2>2. Min(open) \in open /\ p = Offers(t)[Min(open)]
    <3>1. open \in SUBSET {1, 2}
      BY <2>1
    <3>2. Min(open) \in open
      BY <1>3, <3>1, MinIn
    <3>3. p = Offers(t)[Min(open)]
      BY <1>3 DEF ChoosePool
    <3> QED BY <3>2, <3>3
  <2>3. Queued(p, pl) < QueuedCap[p] /\ (p = "local-inference" => LocalUp)
    BY <2>2
  <2>4. CASE Key(t) = "vectorize"
    <3>1. p = "embed"
      BY <2>2, <2>4 DEF Offers
    <3> QED BY <2>3, <2>4, <3>1 DEF Placed, IsGenerate, Pools
  <2>5. CASE Key(t) # "vectorize"
    <3>1. ~(reserve /\ Restrained(t)) /\ Offers(t) = Lane(t)
      BY <1>3, <2>1, <2>5 DEF Offers
    <3>2. InLane(t, p)
      BY <2>2, <3>1 DEF InLane
    <3>3. p \in {"local-inference", "non-interactive"}
      <4>1. req[t].explicit \in {None, "local-inference", "non-interactive"}
        BY DEF RowsOK, Requests
      <4> QED BY <3>2, <4>1 DEF InLane, Lane
    <3> QED BY <2>3, <3>1, <3>2, <3>3 DEF Placed, Pools
  <2> QED BY <2>4, <2>5
<1> QED BY <1>1, <1>2, <1>3

\* A finite set has a last element under a strict order of it.
LEMMA LastExists ==
  ASSUME NEW S, IsFiniteSet(S), NEW R, NEW T \in SUBSET S, T # {},
         \A t \in T : <<t, t>> \notin R,
         \A t, u, v \in T : <<t, u>> \in R /\ <<u, v>> \in R => <<t, v>> \in R
  PROVE  \E t \in T : \A u \in T : <<t, u>> \notin R
<1> DEFINE After(t) == {u \in T : <<t, u>> \in R}
           F == {After(t) : t \in T}
<1>1. IsWellFoundedOn(StrictSubsetOrdering(S), FiniteSubsetsOf(S))
  BY FS_StrictSubsetOrderingWellFounded
<1>2. FiniteSubsetsOf(S) = SUBSET S
  BY FS_FiniteSubsetsOfFinite
<1>3. F \subseteq SUBSET S /\ F # {}
  <2>1. PICK t \in T : TRUE
    OBVIOUS
  <2>2. After(t) \in F
    BY Zenon
  <2>3. F \subseteq SUBSET S
    <3>1. \A u \in T : After(u) \in SUBSET S
      OBVIOUS
    <3> HIDE DEF After
    <3> QED BY <3>1
  <2> HIDE DEF F
  <2> QED BY <2>2, <2>3
<1>4. PICK X \in F : \A Y \in F : <<Y, X>> \notin StrictSubsetOrdering(S)
  <2> HIDE DEF F
  <2> QED BY <1>1, <1>2, <1>3, WFMin
<1>5. PICK t \in T : X = After(t)
  BY <1>4
<1>6. ASSUME NEW u \in T, <<t, u>> \in R PROVE FALSE
  <2>1. After(u) \in F /\ After(u) \subseteq X /\ u \in X /\ u \notin After(u)
    BY <1>5, <1>6
  <2>2. <<After(u), X>> \in StrictSubsetOrdering(S)
    BY <2>1, <1>3 DEF StrictSubsetOrdering
  <2> QED BY <1>4, <2>1, <2>2
<1> QED BY <1>6

\* The turns of admission are in a strict order.
LEMMA TurnsInOrder ==
  ASSUME RowsOK
  PROVE  /\ \A t \in Tasks : ~Earlier(t, t)
         /\ \A t, u \in Tasks : t # u => Earlier(t, u) \/ Earlier(u, t)
         /\ \A t, u, v \in Tasks : Earlier(t, u) /\ Earlier(u, v) => Earlier(t, v)
<1>1. \A t \in Tasks : Rank[Priority(t)] \in Nat
  <2>1. \A t \in Tasks : Priority(t) \in {"low", "normal", "high", "urgent"}
    BY DEF RowsOK, Requests, Priority, Rank
  <2> QED BY <2>1 DEF Rank
<1>2. /\ \A t \in Tasks : <<t, t>> \notin older
      /\ \A t, u \in Tasks : t # u => (<<t, u>> \in older \/ <<u, t>> \in older)
      /\ \A t, u, v \in Tasks : <<t, u>> \in older /\ <<u, v>> \in older => <<t, v>> \in older
  BY DEF RowsOK, Ages
<1>3. /\ \A t \in Tasks : ~Ahead(t, t)
      /\ \A t, u \in Tasks : t # u => Ahead(t, u) \/ Ahead(u, t)
      /\ \A t, u, v \in Tasks : Ahead(t, u) /\ Ahead(u, v) => Ahead(t, v)
  <2> DEFINE rank(t) == Rank[Priority(t)]
  <2>1. \A t, u : Ahead(u, t) <=> (rank(u) > rank(t) \/ (rank(u) = rank(t) /\ <<u, t>> \in older))
    BY DEF Ahead
  <2>2. \A t \in Tasks : rank(t) \in Nat
    BY <1>1
  <2> HIDE DEF rank
  <2>3. ASSUME NEW t \in Tasks PROVE ~Ahead(t, t)
    <3>1. rank(t) \in Nat /\ <<t, t>> \notin older
      BY <1>2, <2>2
    <3>2. ~(rank(t) > rank(t))
      BY <3>1
    <3> QED BY <2>1, <3>1, <3>2
  <2>4. ASSUME NEW t \in Tasks, NEW u \in Tasks, t # u PROVE Ahead(t, u) \/ Ahead(u, t)
    <3>1. rank(t) \in Nat /\ rank(u) \in Nat
      BY <2>2
    <3>2. rank(t) > rank(u) \/ rank(u) > rank(t) \/ rank(t) = rank(u)
      BY <3>1
    <3>3. <<t, u>> \in older \/ <<u, t>> \in older
      BY <1>2, <2>4
    <3> QED BY <2>1, <3>2, <3>3
  <2>5. ASSUME NEW t \in Tasks, NEW u \in Tasks, NEW v \in Tasks, Ahead(t, u), Ahead(u, v) PROVE Ahead(t, v)
    <3>1. rank(t) \in Nat /\ rank(u) \in Nat /\ rank(v) \in Nat
      BY <2>2
    <3>2. rank(t) > rank(u) \/ (rank(t) = rank(u) /\ <<t, u>> \in older)
      BY <2>1, <2>5
    <3>3. rank(u) > rank(v) \/ (rank(u) = rank(v) /\ <<u, v>> \in older)
      BY <2>1, <2>5
    <3>4. <<t, u>> \in older /\ <<u, v>> \in older => <<t, v>> \in older
      BY <1>2
    <3>5. rank(t) > rank(v) \/ (rank(t) = rank(v) /\ <<t, v>> \in older)
      BY <3>1, <3>2, <3>3, <3>4
    <3> QED BY <2>1, <3>5
  <2> QED BY <2>3, <2>4, <2>5
<1>4. \A t \in Tasks : ~Earlier(t, t)
  BY <1>2, <1>3 DEF Earlier
<1>5. \A t, u \in Tasks : t # u => Earlier(t, u) \/ Earlier(u, t)
  BY <1>2, <1>3 DEF Earlier
<1>6. ASSUME NEW t \in Tasks, NEW u \in Tasks, NEW v \in Tasks, Earlier(t, u), Earlier(u, v) PROVE Earlier(t, v)
  BY <1>2, <1>3, <1>6 DEF Earlier
<1> QED BY <1>4, <1>5, <1>6

\* Admission keeps the queue of a pool within its capacity: it was full only
\* before, and the last one admitted found room.
LEMMA AdmissionCaps ==
  ASSUME RowsOK, NEW pl \in [Tasks -> Pools \cup {"waiting", "unpooled"}], Admits(pl),
         NEW p \in Pools, Queued(p, place) <= QueuedCap[p] + restarts
  PROVE  Queued(p, pl) <= QueuedCap[p] + restarts
<1> DEFINE Q(f) == {t \in Tasks : status[t] = "ready" /\ f[t] = p}
           N == {t \in Tasks : Waits(t) /\ pl[t] = p}
<1>1. \A f : Q(f) \in SUBSET Tasks /\ IsFiniteSet(Q(f)) /\ Cardinality(Q(f)) \in Nat /\ Queued(p, f) = Cardinality(Q(f))
  BY ActorAssumption, FS_Subset, FS_CardinalityType DEF Queued
<1>2. \A t \in Tasks : pl[t] = IF Waits(t) THEN ChoosePool(Handed(pl, t), t) ELSE Released[t]
  BY DEF Admits
<1>3. QueuedCap[p] \in Nat /\ restarts \in Nat
  BY PoolAssumption DEF RowsOK
<1>4. p # "waiting"
  BY DEF Pools
<1>5. CASE N = {}
  <2>1. \A t \in Tasks : ~Waits(t) /\ pl[t] = p => place[t] = p
    BY <1>2, <1>4 DEF Released
  <2>2. Q(pl) \subseteq Q(place)
    BY <1>5, <2>1
  <2>3. Cardinality(Q(pl)) <= Cardinality(Q(place))
    <3> HIDE DEF Q
    <3> QED BY <1>1, <2>2, FS_Subset
  <2>4. Queued(p, pl) \in Nat /\ Queued(p, place) \in Nat /\ Queued(p, pl) <= Queued(p, place)
    BY <1>1, <2>3
  <2> QED BY <1>3, <2>4
<1>6. CASE N # {}
  <2> DEFINE R == {e \in Tasks \X Tasks : Earlier(e[1], e[2])}
  <2>1. \A t, u \in Tasks : <<t, u>> \in R <=> Earlier(t, u)
    OBVIOUS
  <2>2. PICK t \in N : \A u \in N : <<t, u>> \notin R
    <3>1. \A u \in N : <<u, u>> \notin R
      BY <2>1, TurnsInOrder
    <3>2. \A u, v, x \in N : <<u, v>> \in R /\ <<v, x>> \in R => <<u, x>> \in R
      BY <2>1, TurnsInOrder
    <3>3. N \in SUBSET Tasks
      OBVIOUS
    <3> HIDE DEF R, N
    <3> QED BY <1>6, <3>1, <3>2, <3>3, LastExists, ActorAssumption
  <2>3. t \in Tasks /\ Waits(t) /\ pl[t] = p /\ p = ChoosePool(Handed(pl, t), t)
    BY <1>2, <2>2
  <2> DEFINE f == Handed(pl, t)
  <2>4. Queued(p, f) < QueuedCap[p]
    BY <2>3, ChoosePoolOK
  <2>5. ASSUME NEW u \in Tasks, status[u] = "ready", pl[u] = p, u # t PROVE f[u] = p
    <3>1. CASE Waits(u)
      <4>1. ~Earlier(t, u)
        BY <2>1, <2>2, <2>3, <2>5, <3>1
      <4>2. Earlier(u, t)
        BY <2>3, <2>5, <4>1, TurnsInOrder
      <4> QED BY <2>5, <4>2 DEF Handed
    <3>2. CASE ~Waits(u)
      BY <2>5, <3>2 DEF Handed
    <3> QED BY <3>1, <3>2
  <2>6. Q(pl) \subseteq Q(f) \cup {t}
    <3> HIDE DEF f
    <3> QED BY <2>5
  <2>7. IsFiniteSet(Q(f) \cup {t}) /\ Cardinality(Q(f) \cup {t}) <= Cardinality(Q(f)) + 1
        /\ Cardinality(Q(f) \cup {t}) \in Nat
    <3>1. IsFiniteSet(Q(f)) /\ Cardinality(Q(f)) \in Nat
      BY <1>1
    <3> HIDE DEF Q, f
    <3>2. IsFiniteSet(Q(f) \cup {t}) /\ Cardinality(Q(f) \cup {t}) = IF t \in Q(f) THEN Cardinality(Q(f)) ELSE Cardinality(Q(f)) + 1
      BY <3>1, FS_AddElement
    <3> QED BY <3>1, <3>2, FS_CardinalityType
  <2>8. Cardinality(Q(pl)) <= Cardinality(Q(f) \cup {t})
    <3> HIDE DEF Q, f
    <3> QED BY <2>6, <2>7, FS_Subset
  <2>9. Queued(p, pl) = Cardinality(Q(pl)) /\ Queued(p, f) = Cardinality(Q(f)) /\ Cardinality(Q(pl)) \in Nat /\ Cardinality(Q(f)) \in Nat
    BY <1>1
  <2> HIDE DEF Q, f
  <2> QED BY <1>3, <2>4, <2>7, <2>8, <2>9
<1> QED BY <1>5, <1>6

\* Admission gives only places of the lane, and takes none that a low or normal
\* generate Process may not have while the capacity gate is on.
LEMMA AdmissionPlaces ==
  ASSUME RowsOK, PlacesOK, NEW pl, Admits(pl), NEW t \in Tasks
  PROVE  /\ Placed(t, Key(t), pl[t])
         /\ pl[t] = place[t] \/ status[t] = "ready"
         /\ status[t] = "ready" /\ reserve /\ IsGenerate(Key(t)) /\ Restrained(t) => pl[t] = "waiting"
<1>1. pl[t] = IF Waits(t) THEN ChoosePool(Handed(pl, t), t) ELSE Released[t]
  BY DEF Admits
<1>2. CASE Waits(t)
  <2>1. pl[t] = ChoosePool(Handed(pl, t), t) /\ status[t] = "ready"
    BY <1>1, <1>2 DEF Waits
  <2> QED BY <2>1, ChoosePoolOK
<1>3. CASE ~Waits(t)
  <2>1. pl[t] = IF reserve /\ status[t] = "ready" /\ IsGenerate(Key(t)) /\ Restrained(t) THEN "waiting" ELSE place[t]
    BY <1>1, <1>3 DEF Released
  <2>2. Placed(t, Key(t), "waiting") /\ Placed(t, Key(t), place[t])
    BY DEF Placed, PlacesOK
  <2> QED BY <2>1, <2>2
<1> QED BY <1>2, <1>3

\* The candidate is ready in a pool that has a running slot left.
LEMMA CandidateOK ==
  ASSUME NEW pl, NEW t \in Candidate(pl)
  PROVE  t \in Tasks /\ status[t] = "ready" /\ pl[t] # "waiting" /\ CanRun(pl[t])
BY DEF Candidate, Oldest, Foremost, Ready, CanRun, Pools

\* The set a pool's slots are counted over.
Slots(p) == {t \in Tasks : status[t] = "running" /\ place[t] = p}

\* One more Process runs in a pool with a slot left, and no other starts.
LEMMA SlotTaken ==
  ASSUME RowsOK, NEW p \in Pools, Running(p) <= RunningCap[p], NEW c \in Tasks,
         Slots(p)' \subseteq Slots(p) \/ (Slots(p)' \subseteq Slots(p) \cup {c} /\ Running(p) < RunningCap[p])
  PROVE  Running(p)' <= RunningCap[p]
<1>1. Running(p) = Cardinality(Slots(p)) /\ Running(p)' = Cardinality(Slots(p)')
  BY DEF Running, Slots
<1>2. /\ IsFiniteSet(Slots(p)) /\ Cardinality(Slots(p)) \in Nat
      /\ IsFiniteSet(Slots(p)') /\ Cardinality(Slots(p)') \in Nat
  <2>1. Slots(p) \in SUBSET Tasks /\ Slots(p)' \in SUBSET Tasks
    BY DEF Slots
  <2> HIDE DEF Slots
  <2> QED BY <2>1, ActorAssumption, FS_Subset, FS_CardinalityType
<1>3. RunningCap[p] \in Nat
  BY PoolAssumption
<1> DEFINE S == Slots(p)
           T == Slots(p)'
<1>4. CASE T \subseteq S
  <2>1. Cardinality(T) <= Cardinality(S)
    <3> HIDE DEF S, T
    <3> QED BY <1>2, <1>4, FS_Subset DEF S, T
  <2> QED BY <1>1, <1>2, <1>3, <2>1
<1>5. CASE T \subseteq S \cup {c} /\ Running(p) < RunningCap[p]
  <2>1. IsFiniteSet(S \cup {c}) /\ Cardinality(S \cup {c}) = IF c \in S THEN Cardinality(S) ELSE Cardinality(S) + 1
    BY <1>2, FS_AddElement
  <2>2. Cardinality(T) <= Cardinality(S \cup {c})
    BY <1>2, <1>5, <2>1, FS_Subset
  <2> QED BY <1>1, <1>2, <1>3, <1>5, <2>1, <2>2
<1> QED BY <1>4, <1>5

\* claim_next keeps rows, places and pools in order.
LEMMA ClaimRows ==
  ASSUME Inv, Claim
  PROVE  RowsOK' /\ PlacesOK' /\ RetriesWait' /\ PoolCaps'
<1>1. PICK pl \in [Tasks -> Pools \cup {"waiting", "unpooled"}] :
        /\ Admits(pl) /\ place' = pl
        /\ \/ UNCHANGED <<process, handler>>
           \/ \E t \in Candidate(pl) :
                /\ status' = [status EXCEPT ![t] = "running"]
                /\ UNCHANGED <<req, step>>
  BY DEF Claim
<1>2. UNCHANGED <<req, step, older, reserve, restarts>>
  BY <1>1 DEF Claim, process, bounds
<1>3. RowsOK /\ PlacesOK /\ RetriesWait /\ PoolCaps
  BY DEF Inv
<1>4. status' = status \/ \E t \in Candidate(pl) : status' = [status EXCEPT ![t] = "running"]
  BY <1>1 DEF process
<1>5. \A t \in Candidate(pl) : t \in Tasks /\ status[t] = "ready" /\ pl[t] # "waiting" /\ CanRun(pl[t])
  BY CandidateOK
<1>6. \A t \in Tasks :
        /\ Placed(t, Key(t), pl[t])
        /\ pl[t] = place[t] \/ status[t] = "ready"
  BY <1>1, <1>3, AdmissionPlaces
<1>7. RowsOK'
  <2>1. status' \in [Tasks -> Statuses]
    BY <1>3, <1>4, <1>5 DEF RowsOK, Statuses
  <2> QED BY <1>1, <1>2, <1>3, <2>1 DEF RowsOK, Plan
<1>8. PlacesOK'
  BY <1>1, <1>2, <1>6 DEF PlacesOK, Placed, InLane, Lane, Priority, Key, Plan
<1>9. RetriesWait'
  <2>1. \A t \in Tasks : status'[t] = "retry_wait" => status[t] = "retry_wait"
    BY <1>3, <1>4, <1>5 DEF RowsOK
  <2> QED BY <1>1, <1>3, <1>6, <2>1 DEF RetriesWait
<1>10. ASSUME NEW p \in Pools PROVE Running(p)' <= RunningCap[p]
  <2>1. Running(p) <= RunningCap[p]
    BY <1>3 DEF PoolCaps
  <2>2. CASE status' = status
    <3>1. Slots(p)' \subseteq Slots(p)
      BY <1>1, <1>6, <2>2 DEF Slots
    <3>2. CASE Tasks = {}
      BY <3>2, <2>1 DEF Running
    <3>3. CASE Tasks # {}
      <4>1. PICK c \in Tasks : TRUE
        BY <3>3
      <4> QED BY <1>3, <2>1, <3>1, <4>1, SlotTaken
    <3> QED BY <3>2, <3>3
  <2>3. ASSUME NEW c \in Candidate(pl), status' = [status EXCEPT ![c] = "running"] PROVE Running(p)' <= RunningCap[p]
    <3>1. c \in Tasks /\ CanRun(pl[c])
      BY <1>5
    <3>2. \A t \in Tasks : t # c => status'[t] = status[t]
      BY <2>3, <1>3 DEF RowsOK
    <3>3. \A t \in Tasks : t # c /\ t \in Slots(p)' => t \in Slots(p)
      BY <1>1, <1>6, <3>2 DEF Slots
    <3>4. CASE pl[c] = p
      <4>1. Running(p) < RunningCap[p]
        BY <3>1, <3>4 DEF CanRun, Pools
      <4>2. Slots(p)' \subseteq Slots(p) \cup {c}
        BY <3>3 DEF Slots
      <4> QED BY <1>3, <2>1, <3>1, <4>1, <4>2, SlotTaken
    <3>5. CASE pl[c] # p
      <4>1. c \notin Slots(p)'
        BY <1>1, <3>5 DEF Slots
      <4>2. Slots(p)' \subseteq Slots(p)
        BY <3>3, <4>1 DEF Slots
      <4> QED BY <1>3, <2>1, <3>1, <4>2, SlotTaken
    <3> QED BY <3>4, <3>5
  <2> QED BY <1>4, <2>2, <2>3
<1>11. ASSUME NEW p \in Pools PROVE Queued(p, place)' <= QueuedCap[p] + restarts'
  <2>1. Queued(p, pl) <= QueuedCap[p] + restarts
    BY <1>1, <1>3, AdmissionCaps DEF PoolCaps
  <2> DEFINE S == {t \in Tasks : status[t] = "ready" /\ pl[t] = p}
             T == {t \in Tasks : status'[t] = "ready" /\ pl[t] = p}
  <2>2. T \subseteq S
    BY <1>3, <1>4, <1>5 DEF RowsOK
  <2>3. S \in SUBSET Tasks
    OBVIOUS
  <2>4. Queued(p, pl) = Cardinality(S) /\ Queued(p, place)' = Cardinality(T)
    BY <1>1 DEF Queued
  <2> HIDE DEF S, T
  <2>5. IsFiniteSet(S) /\ Cardinality(S) \in Nat
    BY <2>3, ActorAssumption, FS_Subset, FS_CardinalityType
  <2>6. Cardinality(T) \in Nat /\ Cardinality(T) <= Cardinality(S)
    BY <2>2, <2>5, FS_Subset, FS_CardinalityType
  <2>7. QueuedCap[p] \in Nat /\ restarts \in Nat
    BY <1>3, PoolAssumption DEF RowsOK
  <2> QED BY <1>2, <2>1, <2>4, <2>5, <2>6, <2>7
<1>12. PoolCaps'
  BY <1>10, <1>11 DEF PoolCaps
<1> QED BY <1>7, <1>8, <1>9, <1>12

\* The record of a worker that has just claimed t.
Claiming(t, pl) ==
  [Idle EXCEPT !.pc = "begin", !.task = t, !.step = step[t],
               !.fence = fence[t] + 1, !.key = Key(t), !.pool = pl[t]]

\* The worker that claims becomes busy with the candidate.
LEMMA ClaimWorks ==
  ASSUME Inv, Claim
  PROVE  UNCHANGED <<handler, facade, router>> \/ \E w \in Workers : Works(w)
<1>1. PICK pl \in [Tasks -> Pools \cup {"waiting", "unpooled"}] :
        /\ Admits(pl) /\ place' = pl
        /\ \/ /\ Candidate(pl) = {}
              /\ UNCHANGED <<process, handler>>
           \/ \E t \in Candidate(pl) : \E w \in {CHOOSE v \in Workers : handler[v].pc = "idle"} :
                /\ status' = [status EXCEPT ![t] = "running"]
                /\ fence' = [fence EXCEPT ![t] = @ + 1]
                /\ handler' = [handler EXCEPT ![w] = Claiming(t, pl)]
                /\ UNCHANGED <<req, step, retries, recoveries>>
  BY Zenon DEF Claim, Claiming
<1>2. facade' = facade /\ router' = router
  BY DEF Claim, gates
<1>3. CASE UNCHANGED <<process, handler>>
  BY <1>2, <1>3
<1>4. ASSUME NEW t \in Candidate(pl), NEW w \in {CHOOSE v \in Workers : handler[v].pc = "idle"},
             handler' = [handler EXCEPT ![w] = Claiming(t, pl)]
      PROVE  \E v \in Workers : Works(v)
  <2>1. w \in Workers /\ handler[w].pc = "idle"
    BY DEF Claim
  <2>2. HandlerOK(handler[w]) /\ RowsOK /\ PlacesOK
    BY <2>1 DEF Inv, HandlersOK
  <2> DEFINE n == Claiming(t, pl)
  <2>3. /\ DOMAIN n = DOMAIN Idle /\ n.pc = "begin" /\ n.task = t /\ n.step = step[t]
        /\ n.key = Key(t) /\ n.pool = pl[t] /\ n.lease = None
    BY DEF Idle, Claiming
  <2>4. handler' = [handler EXCEPT ![w] = n]
    BY <1>4
  <2> HIDE DEF n
  <2>5. t \in Tasks /\ status[t] = "ready" /\ pl[t] # "waiting"
    BY CandidateOK
  <2>6. /\ Placed(t, Key(t), pl[t])
        /\ reserve /\ IsGenerate(Key(t)) /\ Restrained(t) => pl[t] = "waiting"
    BY <1>1, <2>2, <2>5, AdmissionPlaces
  <2>7. step[t] \in DOMAIN Plan(t) /\ Key(t) = Plan(t)[step[t]]
    BY <2>2, <2>5 DEF RowsOK, Key
  <2>8. Claimed(n)
    BY <2>3, <2>5, <2>6, <2>7 DEF Claimed
  <2>9. HandlerOK(n)
    BY <2>3, <2>5, <2>8 DEF HandlerOK, Busy
  <2>10. Lets(w)
    BY <1>2, <2>1 DEF Lets
  <2> QED BY <2>1, <2>2, <2>3, <2>4, <2>9, <2>10, LetsWork
<1> QED BY <1>1, <1>3, <1>4

-----------------------------------------------------------------------------
(* The row of one Process changes. *)

\* The row of t goes to a status other than running, at the same or the next step.
\* A place is kept or given up; a Process put back with its place is a restart.
RowMoves(t, to, k) ==
  /\ status' = [status EXCEPT ![t] = to] /\ to \in Statuses \ {"running"}
  /\ step' = [step EXCEPT ![t] = k] /\ k \in DOMAIN Plan(t)
  /\ place' = [place EXCEPT ![t] = "waiting"] \/ (place' = place /\ k = step[t])
  /\ older' = older \/ older' = ToBack(t)
  /\ restarts' = restarts \/ restarts' = restarts + 1
  /\ to \in {"ready", "retry_wait"} => place'[t] = "waiting" \/ (to = "ready" /\ restarts' = restarts + 1)
  /\ UNCHANGED <<req, reserve>>

\* The youngest is last in a new order.
LEMMA BackInOrder ==
  ASSUME older \in Ages, NEW t \in Tasks
  PROVE  ToBack(t) \in Ages
<1> DEFINE r == ToBack(t)
<1>1. /\ older \subseteq Tasks \X Tasks
      /\ \A u \in Tasks : <<u, u>> \notin older
      /\ \A u, v \in Tasks : u # v => (<<u, v>> \in older \/ <<v, u>> \in older)
      /\ \A u, v, x \in Tasks : <<u, v>> \in older /\ <<v, x>> \in older => <<u, x>> \in older
  BY DEF Ages
<1>2. \A u, v \in Tasks : <<u, v>> \in r <=> u # t /\ (v = t \/ <<u, v>> \in older)
  BY DEF ToBack
<1>3. r \subseteq Tasks \X Tasks
  BY <1>1 DEF ToBack
<1> HIDE DEF r
<1>4. \A u \in Tasks : <<u, u>> \notin r
  BY <1>1, <1>2
<1>5. \A u, v \in Tasks : u # v => (<<u, v>> \in r \/ <<v, u>> \in r)
  BY <1>1, <1>2
<1>6. \A u, v, x \in Tasks : <<u, v>> \in r /\ <<v, x>> \in r => <<u, x>> \in r
  BY <1>1, <1>2
<1>7. r \in Ages
  BY <1>3, <1>4, <1>5, <1>6 DEF Ages
<1> QED BY <1>7 DEF r

\* Such a change keeps rows, places and pools in order.
LEMMA RowMovesSafe ==
  ASSUME Inv, NEW t \in Tasks, NEW to, NEW k, RowMoves(t, to, k)
  PROVE  RowsOK' /\ PlacesOK' /\ RetriesWait' /\ PoolCaps'
<1>1. RowsOK /\ PlacesOK /\ RetriesWait /\ PoolCaps
  BY DEF Inv
<1>2. /\ status' = [status EXCEPT ![t] = to] /\ to \in Statuses /\ to # "running"
      /\ step' = [step EXCEPT ![t] = k] /\ k \in DOMAIN Plan(t)
      /\ place' = [place EXCEPT ![t] = "waiting"] \/ (place' = place /\ k = step[t])
      /\ restarts' = restarts \/ restarts' = restarts + 1
      /\ to \in {"ready", "retry_wait"} => place'[t] = "waiting" \/ (to = "ready" /\ restarts' = restarts + 1)
      /\ req' = req /\ reserve' = reserve
  BY DEF RowMoves
<1>3. /\ status'[t] = to /\ \A u \in Tasks : u # t => status'[u] = status[u]
      /\ step'[t] = k /\ \A u \in Tasks : u # t => step'[u] = step[u]
      /\ place'[t] \in {place[t], "waiting"} /\ \A u \in Tasks : u # t => place'[u] = place[u]
  BY <1>1, <1>2 DEF RowsOK
<1>4. RowsOK'
  <2>1. older' \in Ages
    BY <1>1, BackInOrder DEF RowsOK, RowMoves
  <2>2. place' \in [Tasks -> Pools \cup {"waiting", "unpooled"}]
    BY <1>1, <1>2 DEF RowsOK
  <2>3. status' \in [Tasks -> Statuses]
    BY <1>1, <1>2 DEF RowsOK
  <2>4. step' \in [Tasks -> Nat] /\ \A u \in Tasks : step'[u] \in DOMAIN Plan(u)
    <3>1. \A u \in Tasks : step'[u] \in DOMAIN Plan(u)
      BY <1>1, <1>2, <1>3 DEF RowsOK
    <3>2. \A u \in Tasks : DOMAIN Plan(u) \subseteq Nat
      BY <1>1 DEF RowsOK, Requests, Plan
    <3> QED BY <1>1, <1>2, <3>1, <3>2 DEF RowsOK
  <2>5. restarts' \in Nat
    BY <1>1, <1>2 DEF RowsOK
  <2> QED BY <1>1, <1>2, <2>1, <2>2, <2>3, <2>4, <2>5 DEF RowsOK, Plan
<1>5. PlacesOK'
  <2>1. ASSUME NEW u \in Tasks PROVE Placed(u, Key(u), place[u])'
    <3>1. (place'[u] = place[u] /\ step'[u] = step[u]) \/ place'[u] = "waiting"
      BY <1>1, <1>2, <1>3 DEF RowsOK
    <3> QED BY <1>1, <1>2, <3>1 DEF PlacesOK, Placed, InLane, Lane, Priority, Key, Plan
  <2> QED BY <2>1 DEF PlacesOK
<1>6. RetriesWait'
  <2>1. ASSUME NEW u \in Tasks, status'[u] = "retry_wait" PROVE place'[u] = "waiting"
    <3>1. CASE u = t
      BY <1>2, <1>3, <2>1, <3>1
    <3>2. CASE u # t
      BY <1>1, <1>3, <2>1, <3>2 DEF RetriesWait
    <3> QED BY <3>1, <3>2
  <2> QED BY <2>1 DEF RetriesWait
<1>7. ASSUME NEW p \in Pools PROVE Running(p)' <= RunningCap[p]
  <2>1. Running(p) <= RunningCap[p]
    BY <1>1 DEF PoolCaps
  <2>2. Slots(p)' \subseteq Slots(p)
    <3>1. ASSUME NEW u \in Tasks, status'[u] = "running", place'[u] = p PROVE status[u] = "running" /\ place[u] = p
      BY <1>2, <1>3, <3>1
    <3> QED BY <3>1 DEF Slots
  <2> QED BY <1>1, <2>1, <2>2, SlotTaken
<1>8. ASSUME NEW p \in Pools PROVE Queued(p, place)' <= QueuedCap[p] + restarts'
  <2> DEFINE S == {u \in Tasks : status[u] = "ready" /\ place[u] = p}
             T == {u \in Tasks : status'[u] = "ready" /\ place'[u] = p}
  <2>1. Queued(p, place) = Cardinality(S) /\ Queued(p, place)' = Cardinality(T)
    BY DEF Queued
  <2>2. S \in SUBSET Tasks /\ T \in SUBSET Tasks
    OBVIOUS
  <2>3. T \subseteq S \/ (T \subseteq S \cup {t} /\ restarts' = restarts + 1)
    <3>1. \A u \in Tasks : u # t /\ u \in T => u \in S
      BY <1>3
    <3>2. CASE t \in T
      <4>1. to = "ready" /\ place'[t] # "waiting"
        BY <1>3, <3>2 DEF Pools
      <4> QED BY <1>2, <3>1, <4>1
    <3>3. CASE t \notin T
      BY <3>1, <3>3
    <3> QED BY <3>2, <3>3
  <2>4. Queued(p, place) <= QueuedCap[p] + restarts /\ QueuedCap[p] \in Nat /\ restarts \in Nat
    BY <1>1, PoolAssumption DEF PoolCaps, RowsOK
  <2> HIDE DEF S, T
  <2>5. IsFiniteSet(S) /\ Cardinality(S) \in Nat /\ IsFiniteSet(T) /\ Cardinality(T) \in Nat
    BY <2>2, ActorAssumption, FS_Subset, FS_CardinalityType
  <2>6. CASE T \subseteq S
    <3>1. Cardinality(T) <= Cardinality(S)
      BY <2>5, <2>6, FS_Subset
    <3>2. restarts <= restarts'
      BY <1>2, <2>4
    <3> QED BY <1>2, <2>1, <2>4, <2>5, <3>1, <3>2
  <2>7. CASE T \subseteq S \cup {t} /\ restarts' = restarts + 1
    <3>1. IsFiniteSet(S \cup {t}) /\ Cardinality(S \cup {t}) = IF t \in S THEN Cardinality(S) ELSE Cardinality(S) + 1
      BY <2>5, FS_AddElement
    <3>2. Cardinality(T) <= Cardinality(S \cup {t})
      BY <2>7, <3>1, FS_Subset
    <3> QED BY <2>1, <2>4, <2>5, <2>7, <3>1, <3>2
  <2> QED BY <2>3, <2>6, <2>7
<1>9. PoolCaps'
  BY <1>7, <1>8 DEF PoolCaps
<1> QED BY <1>4, <1>5, <1>6, <1>9

\* A Process that ends its Task gives up its place.
LEMMA SettleMoves ==
  ASSUME RowsOK, NEW t \in Tasks, NEW outcome \in {"succeeded", "failed", "cancelled"}, Settle(t, outcome),
         UNCHANGED <<reserve, restarts>>
  PROVE  RowMoves(t, outcome, step[t])
<1>1. step' = [step EXCEPT ![t] = step[t]] /\ step[t] \in DOMAIN Plan(t)
  BY DEF Settle, RowsOK
<1> QED BY <1>1 DEF RowMoves, Settle, Statuses

\* The moves of every action that touches a row.
LEMMA OutcomeMoves ==
  ASSUME Inv, NEW w \in Workers, SubmitSuccess(w) \/ SubmitFailure(w) \/ SubmitRefused(w)
  PROVE  \/ UNCHANGED <<req, step, status, place, older, reserve, restarts>>
         \/ \E t \in Tasks : \E to, k : RowMoves(t, to, k)
<1> DEFINE t == handler[w].task
<1>1. t \in Tasks /\ RowsOK /\ HandlerOK(handler[w])
  BY DEF Inv, HandlersOK, HandlerOK, SubmitSuccess, SubmitFailure, SubmitRefused
<1>2. reserve' = reserve /\ restarts' = restarts
  BY DEF SubmitSuccess, SubmitFailure, SubmitRefused, bounds
<1>3. ASSUME NEW outcome \in {"succeeded", "failed", "cancelled"}, Settle(t, outcome)
      PROVE  RowMoves(t, outcome, step[t])
  BY <1>1, <1>2, <1>3, SettleMoves
<1>4. ASSUME SubmitSuccess(w) PROVE \E to, k : RowMoves(t, to, k)
  <2>1. CASE Settle(t, "succeeded")
    BY <2>1, <1>3
  <2>2. CASE ~Settle(t, "succeeded")
    <3>1. /\ handler[w].step < Len(Plan(t)) /\ Current(handler[w])
          /\ step' = [step EXCEPT ![t] = step[t] + 1]
          /\ status' = [status EXCEPT ![t] = "ready"]
          /\ place' = [place EXCEPT ![t] = "waiting"]
          /\ older' = ToBack(t) /\ req' = req
      BY <1>4, <2>2 DEF SubmitSuccess
    <3>2. step[t] < Len(Plan(t)) /\ step[t] \in DOMAIN Plan(t) /\ Plan(t) \in Seq(Keys)
      BY <1>1, <3>1 DEF Current, RowsOK, Requests, Plan
    <3>3. step[t] + 1 \in DOMAIN Plan(t)
      BY <3>2
    <3>4. place'[t] = "waiting"
      BY <1>1, <3>1 DEF RowsOK
    <3>5. RowMoves(t, "ready", step[t] + 1)
      BY <1>2, <3>1, <3>3, <3>4 DEF RowMoves, Statuses
    <3> QED BY <3>5
  <2> QED BY <2>1, <2>2
<1>5. ASSUME SubmitFailure(w) PROVE \E to, k : RowMoves(t, to, k)
  <2>1. CASE FailProcess(t)
    BY <2>1, <1>3 DEF FailProcess
  <2>2. CASE ~FailProcess(t)
    <3>1. /\ status' = [status EXCEPT ![t] = "retry_wait"]
          /\ place' = [place EXCEPT ![t] = "waiting"]
          /\ older' = ToBack(t) /\ req' = req /\ step' = step
      BY <1>5, <2>2 DEF SubmitFailure
    <3>2. place'[t] = "waiting" /\ step' = [step EXCEPT ![t] = step[t]] /\ step[t] \in DOMAIN Plan(t)
      BY <1>1, <3>1 DEF RowsOK
    <3>3. RowMoves(t, "retry_wait", step[t])
      BY <1>2, <3>1, <3>2 DEF RowMoves, Statuses
    <3> QED BY <3>3
  <2> QED BY <2>1, <2>2
<1>6. ASSUME SubmitRefused(w)
      PROVE  UNCHANGED <<req, step, status, place, older, reserve, restarts>> \/ \E to, k : RowMoves(t, to, k)
  BY <1>2, <1>6 DEF SubmitRefused, process
<1> QED BY <1>1, <1>4, <1>5, <1>6

\* The supervisor, the operator and a cancellation.
LEMMA SupervisorMoves ==
  ASSUME Inv, NEW t \in Tasks, Recover(t) \/ Promote(t) \/ RestartProcess(t) \/ RepairWait(t) \/ CancelTask(t)
  PROVE  \E to, k : RowMoves(t, to, k)
<1>1. RowsOK /\ RetriesWait
  BY DEF Inv
<1>2. reserve' = reserve
  BY DEF Recover, Promote, RestartProcess, RepairWait, CancelTask, bounds
<1>3. ASSUME NEW outcome \in {"succeeded", "failed", "cancelled"}, Settle(t, outcome), restarts' = restarts
      PROVE  \E to, k : RowMoves(t, to, k)
  BY <1>1, <1>2, <1>3, SettleMoves
<1>4. step' = step => step' = [step EXCEPT ![t] = step[t]] /\ step[t] \in DOMAIN Plan(t)
  BY <1>1 DEF RowsOK
<1>5. ASSUME Recover(t) PROVE \E to, k : RowMoves(t, to, k)
  <2>1. CASE \E outcome \in {"failed", "cancelled"} : Settle(t, outcome)
    BY <1>3, <1>5, <2>1 DEF Recover
  <2>2. CASE ~\E outcome \in {"failed", "cancelled"} : Settle(t, outcome)
    <3>1. /\ status' = [status EXCEPT ![t] = "ready"]
          /\ place' = [place EXCEPT ![t] = "waiting"]
          /\ older' = ToBack(t) /\ req' = req /\ step' = step /\ restarts' = restarts
      BY <1>5, <2>2 DEF Recover, FailProcess
    <3>2. place'[t] = "waiting"
      BY <1>1, <3>1 DEF RowsOK
    <3>3. RowMoves(t, "ready", step[t])
      BY <1>2, <1>4, <3>1, <3>2 DEF RowMoves, Statuses
    <3> QED BY <3>3
  <2> QED BY <2>1, <2>2
<1>6. ASSUME Promote(t) PROVE \E to, k : RowMoves(t, to, k)
  <2>1. /\ status' = [status EXCEPT ![t] = "ready"] /\ place' = place
        /\ older' = ToBack(t) /\ req' = req /\ step' = step /\ restarts' = restarts
    BY <1>6 DEF Promote, bounds
  <2>2. place[t] = "waiting"
    BY <1>1, <1>6 DEF Promote, RetriesWait
  <2>3. RowMoves(t, "ready", step[t])
    BY <1>2, <1>4, <2>1, <2>2 DEF RowMoves, Statuses
  <2> QED BY <2>3
<1>7. ASSUME RestartProcess(t) PROVE \E to, k : RowMoves(t, to, k)
  <2> DEFINE to == IF status[t] = "running" THEN "ready" ELSE "orphaned"
  <2>1. /\ status' = [status EXCEPT ![t] = to] /\ place' = place
        /\ older' = older /\ req' = req /\ step' = step /\ restarts' = restarts + 1
    BY <1>7 DEF RestartProcess
  <2>2. to \in Statuses \ {"running", "retry_wait"}
    BY DEF Statuses
  <2> HIDE DEF to
  <2>3. RowMoves(t, to, step[t])
    BY <1>2, <1>4, <2>1, <2>2 DEF RowMoves, Statuses
  <2> QED BY <2>3
<1>8. ASSUME RepairWait(t) PROVE \E to, k : RowMoves(t, to, k)
  BY <1>3, <1>8 DEF RepairWait, bounds
<1>9. ASSUME CancelTask(t) PROVE \E to, k : RowMoves(t, to, k)
  <2>1. CASE Settle(t, "cancelled")
    BY <1>3, <1>9, <2>1 DEF CancelTask
  <2>2. CASE ~Settle(t, "cancelled")
    <3>1. /\ status' = [status EXCEPT ![t] = "cancelling"] /\ place' = place
          /\ older' = older /\ req' = req /\ step' = step /\ restarts' = restarts
      BY <1>9, <2>2 DEF CancelTask
    <3>2. RowMoves(t, "cancelling", step[t])
      BY <1>2, <1>4, <3>1 DEF RowMoves, Statuses
    <3> QED BY <3>2
  <2> QED BY <2>1, <2>2
<1> QED BY <1>5, <1>6, <1>7, <1>8, <1>9

-----------------------------------------------------------------------------
(* Packages and the ledger. *)

\* A step that finishes no Process writes at most the failed rows of one that fails.
Unfinished ==
  /\ UNCHANGED <<req, step, commits>>
  /\ \A t \in Tasks : (status'[t] = "succeeded" <=> status[t] = "succeeded") /\ (status[t] = "failed" => status'[t] = "failed")
  /\ ledger \subseteq ledger'
  /\ \A r \in ledger' : r \in ledger \/ \E t \in Tasks : \E o : r = <<t, step[t], o, "failed">> /\ status'[t] = "failed"

\* It leaves packages and rows in agreement.
LEMMA UnfinishedKeeps ==
  ASSUME RowsOK, CommitsOK, LedgerOK, Unfinished
  PROVE  CommitsOK' /\ LedgerOK'
<1>1. req' = req /\ step' = step /\ commits' = commits /\ ledger \subseteq ledger'
  BY DEF Unfinished
<1>2. \A t \in Tasks : Plan(t)' = Plan(t) /\ \A k : Done(t, k)' <=> Done(t, k)
  BY <1>1 DEF Plan, Done, Unfinished
<1>3. CommitsOK'
  <2>1. ASSUME NEW c \in commits
        PROVE  \E t \in Tasks : \E k \in DOMAIN Plan(t)' : \E via :
                 /\ c = <<t, k, via>> /\ Done(t, k)'
                 /\ via # "none" /\ Plan(t)'[k] \in {"transcribe", "structurize", "construct"} =>
                      \E o : <<t, k, o, "succeeded">> \in ledger'
    <3>1. PICK t \in Tasks : \E k \in DOMAIN Plan(t) : \E via :
                 /\ c = <<t, k, via>> /\ Done(t, k)
                 /\ via # "none" /\ Plan(t)[k] \in {"transcribe", "structurize", "construct"} =>
                      \E o : <<t, k, o, "succeeded">> \in ledger
      BY DEF CommitsOK
    <3> QED BY <1>1, <1>2, <3>1
  <2>2. \A c, d \in commits : c[1] = d[1] /\ c[2] = d[2] => c = d
    BY DEF CommitsOK
  <2>3. \A t \in Tasks : \A k \in DOMAIN Plan(t)' : Done(t, k)' => \E c \in commits : c[1] = t /\ c[2] = k
    BY <1>2 DEF CommitsOK
  <2> QED BY <1>1, <2>1, <2>2, <2>3, Zenon DEF CommitsOK
<1>4. LedgerOK'
  <2>1. ASSUME NEW r \in ledger'
        PROVE  \E t \in Tasks : \E k \in DOMAIN Plan(t)' : \E o :
                 \/ r = <<t, k, o, "succeeded">> /\ Done(t, k)'
                 \/ r = <<t, k, o, "failed">> /\ k = step'[t] /\ status'[t] = "failed"
    <3>1. CASE r \in ledger
      <4>1. PICK t \in Tasks : \E k \in DOMAIN Plan(t) : \E o :
                 \/ r = <<t, k, o, "succeeded">> /\ Done(t, k)
                 \/ r = <<t, k, o, "failed">> /\ k = step[t] /\ status[t] = "failed"
        BY <3>1 DEF LedgerOK
      <4>2. status[t] = "failed" => status'[t] = "failed"
        BY DEF Unfinished
      <4> QED BY <1>1, <1>2, <4>1, <4>2
    <3>2. CASE r \notin ledger
      <4>1. PICK t \in Tasks : \E o : r = <<t, step[t], o, "failed">> /\ status'[t] = "failed"
        BY <3>2 DEF Unfinished
      <4>2. step[t] \in DOMAIN Plan(t)
        BY DEF RowsOK
      <4> QED BY <1>1, <1>2, <4>1, <4>2
    <3> QED BY <3>1, <3>2
  <2>2. OneSuccess'
    <3>1. \A r \in ledger' : r[4] = "succeeded" => r \in ledger
      BY DEF Unfinished
    <3> QED BY <3>1 DEF LedgerOK, OneSuccess
  <2> QED BY <2>1, <2>2, Zenon DEF LedgerOK
<1> QED BY <1>3, <1>4

\* A row that goes to another status, with nothing written.
LEMMA StatusUnfinished ==
  ASSUME RowsOK, NEW t \in Tasks, NEW to, status' = [status EXCEPT ![t] = to],
         status[t] \notin {"succeeded", "failed"}, to # "succeeded", UNCHANGED <<req, step, commits, ledger>>
  PROVE  Unfinished
BY DEF Unfinished, RowsOK

\* A Process that fails its Task writes its stashed evidence.
LEMMA FailUnfinished ==
  ASSUME RowsOK, NEW t \in Tasks, FailProcess(t), status[t] \notin {"succeeded", "failed"}, UNCHANGED commits
  PROVE  Unfinished
<1>1. /\ status' = [status EXCEPT ![t] = "failed"] /\ UNCHANGED <<req, step>>
      /\ ledger' = Insert({FailedCall(p) : p \in pending \ Unsettled(t)})
  BY DEF FailProcess, Settle
<1>2. status'[t] = "failed" /\ \A u \in Tasks : u # t => status'[u] = status[u]
  BY <1>1 DEF RowsOK
<1>3. ledger \subseteq ledger'
  BY <1>1 DEF Insert
<1>4. ASSUME NEW r \in ledger', r \notin ledger PROVE \E o : r = <<t, step[t], o, "failed">>
  <2>1. PICK p \in pending \ Unsettled(t) : r = FailedCall(p)
    BY <1>1, <1>4 DEF Insert
  <2>2. p[1] = t /\ p[2] = step[t]
    BY <2>1 DEF Unsettled
  <2>3. r = <<t, step[t], p[3], "failed">>
    BY <2>1, <2>2 DEF FailedCall
  <2> QED BY <2>3
<1> QED BY <1>1, <1>2, <1>3, <1>4 DEF Unfinished

\* Outcomes that are no success, and what supervisor, operator and cancellation do.
LEMMA FailureUnfinished ==
  ASSUME Inv, NEW w \in Workers, SubmitFailure(w) \/ SubmitRefused(w)
  PROVE  Unfinished
<1> DEFINE t == handler[w].task
<1>1. t \in Tasks /\ RowsOK
  BY DEF Inv, HandlersOK, HandlerOK, SubmitFailure, SubmitRefused
<1>2. ASSUME SubmitFailure(w) PROVE Unfinished
  <2>1. status[t] = "running" /\ commits' = commits
    BY <1>2 DEF SubmitFailure, Current
  <2>2. CASE FailProcess(t)
    BY <1>1, <2>1, <2>2, FailUnfinished
  <2>3. CASE ~FailProcess(t)
    <3>1. status' = [status EXCEPT ![t] = "retry_wait"] /\ req' = req /\ step' = step /\ ledger' = ledger
      BY <1>2, <2>3 DEF SubmitFailure
    <3> QED BY <1>1, <2>1, <3>1, StatusUnfinished
  <2> QED BY <2>2, <2>3
<1>3. ASSUME SubmitRefused(w) PROVE Unfinished
  BY <1>3 DEF SubmitRefused, Unfinished, process, evidence
<1> QED BY <1>2, <1>3

\* The same for the steps of the supervisor, the operator and a cancellation.
LEMMA SupervisorUnfinished ==
  ASSUME Inv, NEW t \in Tasks, Recover(t) \/ Promote(t) \/ RestartProcess(t) \/ RepairWait(t) \/ CancelTask(t)
  PROVE  Unfinished
<1>1. RowsOK /\ commits' = commits
  BY DEF Inv, Recover, Promote, RestartProcess, RepairWait, CancelTask, evidence
<1>2. status[t] \notin {"succeeded", "failed"}
  BY DEF Recover, Promote, RestartProcess, RepairWait, CancelTask
<1>3. CASE FailProcess(t)
  BY <1>1, <1>2, <1>3, FailUnfinished
<1>4. CASE ~FailProcess(t)
  <2>1. ledger' = ledger /\ req' = req /\ step' = step
    BY <1>4 DEF Recover, Promote, RestartProcess, RepairWait, CancelTask, evidence, Settle
  <2>2. \E to \in Statuses \ {"succeeded"} : status' = [status EXCEPT ![t] = to]
    <3>1. CASE RestartProcess(t)
      BY <3>1 DEF RestartProcess, Statuses
    <3>2. CASE ~RestartProcess(t)
      BY <1>4, <3>2 DEF Recover, Promote, RepairWait, CancelTask, Settle, Statuses
    <3> QED BY <3>1, <3>2
  <2> QED BY <1>1, <1>2, <2>1, <2>2, StatusUnfinished
<1> QED BY <1>3, <1>4

\* Claims and every other step of a handler write nothing.
LEMMA ClaimUnfinished == ASSUME Inv, Claim PROVE Unfinished
<1>1. RowsOK /\ commits' = commits /\ ledger' = ledger
  BY DEF Inv, Claim, evidence
<1>2. PICK pl : \/ UNCHANGED process
                \/ \E t \in Candidate(pl) : status' = [status EXCEPT ![t] = "running"] /\ UNCHANGED <<req, step>>
  BY DEF Claim
<1>3. CASE UNCHANGED process
  BY <1>1, <1>3 DEF Unfinished, process
<1>4. ASSUME NEW t \in Candidate(pl), status' = [status EXCEPT ![t] = "running"], UNCHANGED <<req, step>>
      PROVE  Unfinished
  <2>1. t \in Tasks /\ status[t] = "ready"
    BY CandidateOK
  <2> QED BY <1>1, <1>4, <2>1, StatusUnfinished
<1> QED BY <1>2, <1>3, <1>4

\* The accepted success finishes the step that was running: it had no package and
\* no row, and now has one package and, if it called a model, a succeeded row.
LEMMA SuccessKeeps ==
  ASSUME Inv, NEW w \in Workers, SubmitSuccess(w)
  PROVE  CommitsOK' /\ LedgerOK'
<1>0. PICK t, s, via, ord, h : t = h.task /\ s = h.step /\ via = h.via /\ ord = h.ord /\ h = handler[w]
  OBVIOUS
<1> DEFINE new == <<t, s, via>>
           row == <<t, s, ord, "succeeded">>
<1>1. RowsOK /\ CommitsOK /\ LedgerOK /\ HandlerOK(h)
  BY <1>0 DEF Inv, HandlersOK
<1>2. h.pc = "kernel" /\ status[t] = "running" /\ step[t] = s
  BY <1>0 DEF SubmitSuccess, Current
<1>3. t \in Tasks /\ s \in DOMAIN Plan(t) /\ h.key = Plan(t)[s] /\ s \in Nat
  BY <1>0, <1>1, <1>2 DEF HandlerOK, Busy, Claimed, RowsOK
<1>4. /\ req' = req /\ commits' = commits \cup {new}
      /\ ledger' = Recorded(h)
      /\ \/ step' = step /\ status' = [status EXCEPT ![t] = "succeeded"]
         \/ step' = [step EXCEPT ![t] = s + 1] /\ status' = [status EXCEPT ![t] = "ready"]
  BY <1>0, <1>2 DEF SubmitSuccess, Packaged, Settle
<1>5. \A u \in Tasks : Plan(u)' = Plan(u)
  BY <1>4 DEF Plan
<1>6. /\ ~Done(t, s) /\ Done(t, s)'
      /\ \A k \in Nat : Done(t, k)' <=> Done(t, k) \/ k = s
      /\ \A u \in Tasks : u # t => \A k : (Done(u, k)' <=> Done(u, k)) /\ step'[u] = step[u] /\ status'[u] = status[u]
  <2>1. step \in [Tasks -> Nat] /\ status \in [Tasks -> Statuses]
    BY <1>1 DEF RowsOK
  <2>2. CASE step' = step /\ status' = [status EXCEPT ![t] = "succeeded"]
    BY <1>2, <1>3, <2>1, <2>2 DEF Done
  <2>3. CASE step' = [step EXCEPT ![t] = s + 1] /\ status' = [status EXCEPT ![t] = "ready"]
    BY <1>2, <1>3, <2>1, <2>3 DEF Done
  <2> QED BY <1>4, <2>2, <2>3
<1>7. \A u \in Tasks : \A k \in DOMAIN Plan(u) : k \in Nat /\ (Done(u, k) => Done(u, k)')
  <2>1. \A u \in Tasks : DOMAIN Plan(u) \subseteq Nat
    BY <1>1 DEF RowsOK, Requests, Plan
  <2> QED BY <1>6, <2>1
<1>8. \A r \in ledger : ~(r[1] = t /\ r[2] = s)
  BY <1>1, <1>2, <1>6 DEF LedgerOK
<1>9. ledger' = IF via # "none" /\ Plan(t)[s] \in {"transcribe", "structurize", "construct"}
                THEN ledger \cup {row} ELSE ledger
  <2>1. Insert({row}) = ledger \cup {row}
    BY <1>8 DEF Insert, SameCall
  <2> QED BY <1>0, <1>3, <1>4, <2>1 DEF Recorded
<1>10. \A c \in commits : ~(c[1] = t /\ c[2] = s)
  BY <1>1, <1>6 DEF CommitsOK
<1>11. CommitsOK'
  <2>1. ASSUME NEW c \in commits'
        PROVE  \E u \in Tasks : \E k \in DOMAIN Plan(u)' : \E v :
                 /\ c = <<u, k, v>> /\ Done(u, k)'
                 /\ v # "none" /\ Plan(u)'[k] \in {"transcribe", "structurize", "construct"} =>
                      \E o : <<u, k, o, "succeeded">> \in ledger'
    <3>1. CASE c \in commits
      <4>1. PICK u \in Tasks : \E k \in DOMAIN Plan(u) : \E v :
                 /\ c = <<u, k, v>> /\ Done(u, k)
                 /\ v # "none" /\ Plan(u)[k] \in {"transcribe", "structurize", "construct"} =>
                      \E o : <<u, k, o, "succeeded">> \in ledger
        BY <1>1, <3>1 DEF CommitsOK
      <4>2. Plan(u)' = Plan(u) /\ \A k \in DOMAIN Plan(u) : Done(u, k) => Done(u, k)'
        BY <1>5, <1>7
      <4>3. ledger \subseteq ledger'
        BY <1>9
      <4> QED BY <4>1, <4>2, <4>3
    <3>2. CASE c = new
      <4>1. Done(t, s)' /\ Plan(t)' = Plan(t)
        BY <1>3, <1>5, <1>6
      <4>2. via # "none" /\ Plan(t)[s] \in {"transcribe", "structurize", "construct"} => row \in ledger'
        BY <1>9
      <4> QED BY <1>3, <3>2, <4>1, <4>2
    <3> QED BY <1>4, <2>1, <3>1, <3>2
  <2>2. ASSUME NEW c \in commits', NEW d \in commits', c[1] = d[1] /\ c[2] = d[2] PROVE c = d
    <3>1. new[1] = t /\ new[2] = s
      OBVIOUS
    <3>2. CASE c \in commits /\ d \in commits
      BY <1>1, <2>2, <3>2 DEF CommitsOK
    <3>3. CASE c = new \/ d = new
      BY <1>4, <1>10, <2>2, <3>1, <3>3
    <3> QED BY <1>4, <2>2, <3>2, <3>3
  <2>3. ASSUME NEW u \in Tasks, NEW k \in DOMAIN Plan(u)', Done(u, k)' PROVE \E c \in commits' : c[1] = u /\ c[2] = k
    <3>1. k \in DOMAIN Plan(u)
      BY <1>5
    <3>2. CASE u = t /\ k = s
      <4>1. new \in commits' /\ new[1] = t /\ new[2] = s
        BY <1>4
      <4> HIDE DEF new
      <4> QED BY <3>2, <4>1
    <3>3. CASE ~(u = t /\ k = s)
      <4>1. Done(u, k)
        BY <1>6, <1>7, <2>3, <3>1, <3>3
      <4>2. \E c \in commits : c[1] = u /\ c[2] = k
        BY <1>1, <3>1, <4>1 DEF CommitsOK
      <4> QED BY <1>4, <4>2
    <3> QED BY <3>2, <3>3
  <2> QED BY <2>1, <2>2, <2>3, Zenon DEF CommitsOK
<1>12. LedgerOK'
  <2>1. ASSUME NEW r \in ledger'
        PROVE  \E u \in Tasks : \E k \in DOMAIN Plan(u)' : \E o :
                 \/ r = <<u, k, o, "succeeded">> /\ Done(u, k)'
                 \/ r = <<u, k, o, "failed">> /\ k = step'[u] /\ status'[u] = "failed"
    <3>1. CASE r \in ledger
      <4>1. PICK u \in Tasks : \E k \in DOMAIN Plan(u) : \E o :
                 \/ r = <<u, k, o, "succeeded">> /\ Done(u, k)
                 \/ r = <<u, k, o, "failed">> /\ k = step[u] /\ status[u] = "failed"
        BY <1>1, <3>1 DEF LedgerOK
      <4>2. status[u] = "failed" => step'[u] = step[u] /\ status'[u] = "failed"
        BY <1>2, <1>6
      <4> QED BY <1>5, <1>7, <4>1, <4>2
    <3>2. CASE r \notin ledger
      <4>1. r = row
        BY <1>9, <2>1, <3>2
      <4> QED BY <1>3, <1>5, <1>6, <4>1
    <3> QED BY <3>1, <3>2
  <2>2. OneSuccess'
    <3>1. \A r \in ledger' : r \in ledger \/ r = row
      BY <1>9
    <3>2. row[1] = t /\ row[2] = s
      OBVIOUS
    <3> HIDE DEF row
    <3> QED BY <1>1, <1>8, <3>1, <3>2 DEF LedgerOK, OneSuccess
  <2> QED BY <2>1, <2>2, Zenon DEF LedgerOK
<1> QED BY <1>11, <1>12

-----------------------------------------------------------------------------
(* The invariant. *)

\* Untouched rows stay in order, also when another incarnation starts.
LEMMA RowsSame ==
  ASSUME Inv, UNCHANGED <<req, step, status, place, older, restarts>>, reserve' \in BOOLEAN
  PROVE  RowsOK' /\ PlacesOK' /\ RetriesWait' /\ PoolCaps'
<1>1. RowsOK /\ PlacesOK /\ RetriesWait /\ PoolCaps
  BY DEF Inv
<1>2. RowsOK'
  BY <1>1 DEF RowsOK, Plan
<1>3. PlacesOK'
  BY <1>1 DEF PlacesOK, Placed, InLane, Lane, Priority, Key, Plan
<1>4. RetriesWait'
  BY <1>1 DEF RetriesWait
<1>5. PoolCaps'
  BY <1>1 DEF PoolCaps, Running, Queued
<1> QED BY <1>2, <1>3, <1>4, <1>5

\* So do untouched handlers and gates.
LEMMA HandlersSame ==
  ASSUME Inv, UNCHANGED <<req, reserve, handler, facade, router>>
  PROVE  HandlersOK' /\ GatesOK'
<1>1. HandlersOK'
  BY DEF Inv, HandlersOK, HandlerOK, Claimed, CliAllowed, Placed, InLane, Lane, Restrained, Priority, Plan
<1>2. Leases' = Leases
  BY DEF Leases
<1>3. GatesOK'
  <2> HIDE DEF Leases
  <2> QED BY <1>2 DEF Inv, GatesOK, Counts, Within
<1> QED BY <1>1, <1>3

\* An empty gate counts no leases.
LEMMA EmptyCounts ==
  ASSUME NEW limit, None \notin DOMAIN limit, \A c \in DOMAIN limit : limit[c] \in Nat, NEW max \in Nat
  PROVE  /\ Counts(EmptyGate(limit), DOMAIN limit, [w \in Workers |-> None])
         /\ Within(EmptyGate(limit), limit, max)
<1> DEFINE L == [w \in Workers |-> None]
           D == DOMAIN limit
<1>1. EmptyGate(limit).total = 0 /\ EmptyGate(limit).by = [c \in D |-> 0]
      /\ EmptyGate(limit) = [total |-> EmptyGate(limit).total, by |-> EmptyGate(limit).by]
  BY DEF EmptyGate
<1>2. {w \in Workers : L[w] \in D} = {}
  OBVIOUS
<1>3. \A c \in D : {w \in Workers : L[w] = c} = {}
  OBVIOUS
<1>4. Counts(EmptyGate(limit), D, L)
  BY <1>1, <1>2, <1>3, FS_EmptySet DEF Counts
<1>5. Within(EmptyGate(limit), limit, max)
  BY <1>1 DEF Within
<1> QED BY <1>4, <1>5

\* Idle handlers and empty gates are in order.
LEMMA IdleGates ==
  ASSUME handler = [w \in Workers |-> Idle], facade = EmptyGate(GateLimit), router = EmptyGate(RouterLimit)
  PROVE  HandlersOK /\ GatesOK
<1>1. HandlersOK
  <2>1. \A w \in Workers : handler[w] = Idle
    OBVIOUS
  <2> QED BY <2>1, IdleOK DEF HandlersOK
<1>2. Leases = [w \in Workers |-> None]
  BY IdleFields DEF Leases
<1>3. GatesOK
  BY <1>2, GateNames, EmptyCounts DEF GatesOK
<1> QED BY <1>1, <1>3

\* A server that starts.
LEMMA InitInv == Init => Inv
<1> SUFFICES ASSUME Init PROVE Inv
  OBVIOUS
<1>1. req \in [Tasks -> Requests]
  BY WorkloadAssumption DEF Init
<1>2. /\ \A t \in Tasks : step[t] = 1 /\ status[t] = "ready" /\ place[t] = "waiting"
      /\ commits = {} /\ ledger = {} /\ restarts = 0
  BY DEF Init
<1>3. \A t \in Tasks : 1 \in DOMAIN Plan(t) /\ DOMAIN Plan(t) = 1..Len(Plan(t))
  <2>1. ASSUME NEW t \in Tasks PROVE 1 \in DOMAIN Plan(t) /\ DOMAIN Plan(t) = 1..Len(Plan(t))
    <3>1. Plan(t) \in Seq(Keys) /\ Plan(t) # <<>>
      BY <1>1 DEF Requests, Plan
    <3> QED BY <3>1
  <2> QED BY <2>1
<1>4. RowsOK
  BY <1>1, <1>2, <1>3 DEF Init, RowsOK, Statuses
<1>5. PlacesOK /\ RetriesWait
  BY <1>2 DEF PlacesOK, Placed, RetriesWait
<1>6. HandlersOK /\ GatesOK
  BY IdleGates DEF Init
<1>7. CommitsOK /\ LedgerOK
  <2>1. ASSUME NEW t \in Tasks, NEW k \in DOMAIN Plan(t) PROVE ~Done(t, k)
    <3>1. k \in Nat /\ k >= 1
      BY <1>3
    <3> QED BY <1>2, <3>1 DEF Done
  <2> QED BY <1>2, <2>1 DEF CommitsOK, LedgerOK, OneSuccess
<1>8. ASSUME NEW p \in Pools PROVE Running(p) <= RunningCap[p] /\ Queued(p, place) <= QueuedCap[p] + restarts
  <2>1. {t \in Tasks : status[t] = "running" /\ place[t] = p} = {}
    BY <1>2
  <2>2. {t \in Tasks : status[t] = "ready" /\ place[t] = p} = {}
    BY <1>2 DEF Pools
  <2>3. Running(p) = 0 /\ Queued(p, place) = 0
    BY <2>1, <2>2, FS_EmptySet DEF Running, Queued
  <2>4. RunningCap[p] \in Nat /\ QueuedCap[p] \in Nat
    BY PoolAssumption
  <2> QED BY <1>2, <2>3, <2>4
<1> QED BY <1>4, <1>5, <1>6, <1>7, <1>8 DEF Inv, PoolCaps

\* A step of a handler that ends no Process.
CallsOn(w) ==
  \/ Begin(w) \/ InputsRefused(w) \/ FacadeAnswers(w) \/ FacadeBacksOff(w) \/ FacadeResumes(w) \/ FacadeFails(w)
  \/ AgentAnswers(w) \/ AgentFallsBack(w) \/ AgentFails(w)
  \/ KernelRejects(w) \/ CommitAborts(w) \/ HandlerInterrupted(w)

\* It touches no row and no Outcome.
LEMMA CallsKeepRows ==
  ASSUME Inv, NEW w \in Workers, CallsOn(w)
  PROVE  Inv'
<1>1. Works(w)
  BY BeginWorks, FacadeWorks, AgentWorks, KernelWorks DEF CallsOn
<1>2. UNCHANGED <<req, step, status, place, older, reserve, restarts, commits, ledger>>
  BY DEF CallsOn, Begin, InputsRefused, FacadeAnswers, FacadeBacksOff, FacadeResumes, FacadeFails,
         AgentAnswers, AgentFallsBack, AgentFails, KernelRejects, CommitAborts, HandlerInterrupted,
         process, evidence, bounds
<1>3. HandlersOK' /\ GatesOK'
  BY <1>1, <1>2, WorksSafe DEF Inv
<1>4. RowsOK' /\ PlacesOK' /\ RetriesWait' /\ PoolCaps'
  BY <1>2, RowsSame DEF Inv, RowsOK
<1>5. CommitsOK' /\ LedgerOK'
  <2>1. Unfinished
    BY <1>2 DEF Unfinished
  <2> QED BY <2>1, UnfinishedKeeps DEF Inv
<1> QED BY <1>3, <1>4, <1>5 DEF Inv

\* A submitted Outcome.
LEMMA OutcomesKeep ==
  ASSUME Inv, NEW w \in Workers, SubmitSuccess(w) \/ SubmitFailure(w) \/ SubmitRefused(w)
  PROVE  Inv'
<1>1. Works(w)
  BY SubmitWorks
<1>2. UNCHANGED <<req, reserve>>
  BY DEF SubmitSuccess, SubmitFailure, SubmitRefused, FailProcess, Settle, process, bounds
<1>3. HandlersOK' /\ GatesOK'
  BY <1>1, <1>2, WorksSafe DEF Inv
<1>4. RowsOK' /\ PlacesOK' /\ RetriesWait' /\ PoolCaps'
  <2>1. CASE UNCHANGED <<req, step, status, place, older, reserve, restarts>>
    BY <2>1, RowsSame DEF Inv, RowsOK
  <2>2. ASSUME NEW t \in Tasks, NEW to, NEW k, RowMoves(t, to, k)
        PROVE  RowsOK' /\ PlacesOK' /\ RetriesWait' /\ PoolCaps'
    BY <2>2, RowMovesSafe
  <2> QED BY <2>1, <2>2, OutcomeMoves
<1>5. CommitsOK' /\ LedgerOK'
  BY SuccessKeeps, FailureUnfinished, UnfinishedKeeps DEF Inv
<1> QED BY <1>3, <1>4, <1>5 DEF Inv

\* Steps in which no handler moves.
LEMMA SupervisorKeeps ==
  ASSUME Inv, NEW t \in Tasks, Recover(t) \/ Promote(t) \/ RestartProcess(t) \/ RepairWait(t) \/ CancelTask(t)
  PROVE  Inv'
<1>1. UNCHANGED <<handler, facade, router>>
  BY DEF Recover, Promote, RestartProcess, RepairWait, CancelTask, gates
<1>2. UNCHANGED <<req, reserve>>
  BY DEF Recover, Promote, RestartProcess, RepairWait, CancelTask, FailProcess, Settle, bounds
<1>3. HandlersOK' /\ GatesOK'
  BY <1>1, <1>2, HandlersSame
<1>4. RowsOK' /\ PlacesOK' /\ RetriesWait' /\ PoolCaps'
  BY SupervisorMoves, RowMovesSafe
<1>5. CommitsOK' /\ LedgerOK'
  BY SupervisorUnfinished, UnfinishedKeeps DEF Inv
<1> QED BY <1>3, <1>4, <1>5 DEF Inv

\* A claim.
LEMMA ClaimKeeps == ASSUME Inv, Claim PROVE Inv'
<1>1. UNCHANGED <<req, reserve>>
  BY DEF Claim, process, bounds
<1>2. HandlersOK' /\ GatesOK'
  <2>1. CASE UNCHANGED <<handler, facade, router>>
    BY <1>1, <2>1, HandlersSame
  <2>2. ASSUME NEW w \in Workers, Works(w) PROVE HandlersOK' /\ GatesOK'
    BY <1>1, <2>2, WorksSafe DEF Inv
  <2> QED BY <2>1, <2>2, ClaimWorks
<1>3. CommitsOK' /\ LedgerOK'
  BY ClaimUnfinished, UnfinishedKeeps DEF Inv
<1> QED BY <1>2, <1>3, ClaimRows DEF Inv

\* A crash: memory is gone, the rows are not.
LEMMA CrashKeeps == ASSUME Inv, Crash PROVE Inv'
<1>1. UNCHANGED <<req, step, status, place, older, restarts, commits, ledger>> /\ reserve' \in BOOLEAN
  BY DEF Crash, process
<1>2. HandlersOK' /\ GatesOK'
  <2>1. /\ handler' = [w \in Workers |-> Idle]
        /\ facade' = EmptyGate(GateLimit) /\ router' = EmptyGate(RouterLimit)
    BY DEF Crash
  <2>2. HandlersOK'
    BY <2>1, IdleFields DEF HandlersOK, HandlerOK, Busy
  <2>3. Leases' = [w \in Workers |-> None]
    BY <2>1, IdleFields DEF Leases
  <2>4. GatesOK'
    <3> DEFINE L == [w \in Workers |-> None]
    <3>1. /\ Counts(facade', DOMAIN GateLimit, L) /\ Within(facade', GateLimit, GateMax)
          /\ Counts(router', DOMAIN RouterLimit, L) /\ Within(router', RouterLimit, RouterMax)
      BY <2>1, GateNames, EmptyCounts
    <3>2. Leases' = L
      BY <2>3
    <3> HIDE DEF L
    <3> QED BY <3>1, <3>2 DEF GatesOK, Counts, Within
  <2> QED BY <2>2, <2>4
<1>3. RowsOK' /\ PlacesOK' /\ RetriesWait' /\ PoolCaps'
  BY <1>1, RowsSame
<1>4. CommitsOK' /\ LedgerOK'
  <2>1. Unfinished
    BY <1>1 DEF Unfinished
  <2> QED BY <2>1, UnfinishedKeeps DEF Inv
<1> QED BY <1>2, <1>3, <1>4 DEF Inv

\* Every step keeps the invariant.
LEMMA NextInv == Inv /\ [Next]_vars => Inv'
<1> SUFFICES ASSUME Inv, [Next]_vars PROVE Inv'
  OBVIOUS
<1>1. CASE Claim
  BY <1>1, ClaimKeeps
<1>2. ASSUME NEW w \in Workers, HandlerStep(w) PROVE Inv'
  BY <1>2, CallsKeepRows, OutcomesKeep DEF HandlerStep, CallsOn
<1>3. ASSUME NEW t \in Tasks, Recover(t) \/ Promote(t) \/ RestartProcess(t) \/ RepairWait(t) \/ CancelTask(t) PROVE Inv'
  BY <1>3, SupervisorKeeps
<1>4. CASE Crash
  BY <1>4, CrashKeeps
<1>5. CASE UNCHANGED vars
  <2>1. UNCHANGED <<req, step, status, place, older, reserve, restarts, commits, ledger, handler, facade, router>>
    BY <1>5 DEF vars, process, gates, evidence, bounds
  <2>2. HandlersOK' /\ GatesOK'
    BY <2>1, HandlersSame
  <2>3. RowsOK' /\ PlacesOK' /\ RetriesWait' /\ PoolCaps'
    BY <2>1, RowsSame DEF Inv, RowsOK
  <2>4. Unfinished
    BY <2>1 DEF Unfinished
  <2> QED BY <2>2, <2>3, <2>4, UnfinishedKeeps DEF Inv
<1> QED BY <1>1, <1>2, <1>3, <1>4, <1>5 DEF Next, Progress

\* The invariant holds in every reachable state.
THEOREM Invariance == Spec => []Inv
BY InitInv, NextInv, PTL DEF Spec

\* No gate of the facade or the router leaks or double-counts a lease, and no
\* gate exceeds its limits, whatever ended the call: facade.py ConcurrencyGate.
THEOREM GatesBalanced == Spec => []GateBalanced
<1>1. Inv => GateBalanced
  <2> SUFFICES ASSUME Inv PROVE GateBalanced
    OBVIOUS
  <2>1. /\ Counts(facade, DOMAIN GateLimit, Leases) /\ Within(facade, GateLimit, GateMax)
        /\ Counts(router, DOMAIN RouterLimit, Leases) /\ Within(router, RouterLimit, RouterMax)
    BY DEF Inv, GatesOK
  <2>2. \A w \in Workers : Leases[w] = handler[w].lease
    BY DEF Leases
  <2>3. /\ \A c : {w \in Workers : Leases[w] = c} = {w \in Workers : handler[w].lease = c}
        /\ \A D : {w \in Workers : Leases[w] \in D} = {w \in Workers : handler[w].lease \in D}
    BY <2>2
  <2> QED BY <2>1, <2>3 DEF Counts, Within, GateBalanced
<1> QED BY <1>1, Invariance, PTL

\* Admission and claim never push a pool over its capacities: runtime_core.py
\* _admit_waiting_processes_tx and claim_next.
THEOREM PoolsBounded == Spec => []PoolCaps
<1>1. Inv => PoolCaps
  BY DEF Inv
<1> QED BY <1>1, Invariance, PTL

\* A call reaches only models its Task's lane allows, on every path, the
\* salvage of a construct through the CLI included.
THEOREM LanesRespected == Spec => []LaneRespected
<1>1. Inv => LaneRespected
  <2> SUFFICES ASSUME Inv, NEW w \in Workers, NEW t \in Tasks, handler[w].task = t
      PROVE  /\ handler[w].pc = "agent" => Priority(t) # "low" \/ req[t].explicit = "non-interactive"
             /\ handler[w].pc = "calling" /\ handler[w].key \in {"transcribe", "structurize", "construct"}
                  => LocalUp /\ \E i \in DOMAIN Lane(t) : Lane(t)[i] = "local-inference"
             /\ reserve /\ Restrained(t) => ~IsGenerate(handler[w].key)
    BY DEF LaneRespected
  <2>1. HandlerOK(handler[w])
    BY DEF Inv, HandlersOK
  <2>2. handler[w].pc = "agent" => Priority(t) # "low" \/ req[t].explicit = "non-interactive"
    BY <2>1 DEF HandlerOK, CliAllowed
  <2>3. handler[w].pc = "calling" /\ handler[w].key \in {"transcribe", "structurize", "construct"}
          => LocalUp /\ \E i \in DOMAIN Lane(t) : Lane(t)[i] = "local-inference"
    BY <2>1 DEF HandlerOK, Busy, Claimed, Placed, InLane, FollowsPool
  <2>4. reserve /\ Restrained(t) => ~IsGenerate(handler[w].key)
    BY <2>1 DEF HandlerOK, Claimed, IsGenerate
  <2> QED BY <2>2, <2>3, <2>4
<1> QED BY <1>1, Invariance, PTL

\* Packages, ledger rows and Outcomes agree: exactly one package and at most one
\* call on record as succeeded for each finished step, none for any other, and
\* never a finished step whose model call is missing.
THEOREM OutcomesCoherent == Spec => []OutcomeCoherent
<1>1. Inv => OutcomeCoherent
  <2> SUFFICES ASSUME Inv, NEW t \in Tasks, NEW k \in DOMAIN Plan(t)
      PROVE  LET done == k < step[t] \/ (k = step[t] /\ status[t] = "succeeded")
                 mine == {c \in commits : c[1] = t /\ c[2] = k}
                 calls == {r \in ledger : r[1] = t /\ r[2] = k /\ r[4] = "succeeded"}
             IN /\ Cardinality(mine) = IF done THEN 1 ELSE 0
                /\ \A c \in mine :
                     c[3] # "none" /\ Plan(t)[k] \in {"transcribe", "structurize", "construct"}
                       => calls # {}
                /\ \A r, q \in calls : done /\ r = q
    BY DEF OutcomeCoherent
  <2> DEFINE mine == {c \in commits : c[1] = t /\ c[2] = k}
             calls == {r \in ledger : r[1] = t /\ r[2] = k /\ r[4] = "succeeded"}
  <2>1. CommitsOK /\ LedgerOK
    BY DEF Inv
  <2>2. Cardinality(mine) = IF Done(t, k) THEN 1 ELSE 0
    <3>1. CASE Done(t, k)
      <4>1. PICK c \in commits : c[1] = t /\ c[2] = k
        BY <2>1, <3>1 DEF CommitsOK
      <4>2. mine = {c}
        BY <2>1, <4>1 DEF CommitsOK
      <4> QED BY <3>1, <4>2, FS_Singleton
    <3>2. CASE ~Done(t, k)
      <4>1. mine = {}
        BY <2>1, <3>2 DEF CommitsOK
      <4> QED BY <3>2, <4>1, FS_EmptySet
    <3> QED BY <3>1, <3>2
  <2>3. ASSUME NEW c \in mine, c[3] # "none", Plan(t)[k] \in {"transcribe", "structurize", "construct"}
        PROVE  calls # {}
    <3>1. PICK u \in Tasks : \E j \in DOMAIN Plan(u) : \E via :
            /\ c = <<u, j, via>> /\ Done(u, j)
            /\ via # "none" /\ Plan(u)[j] \in {"transcribe", "structurize", "construct"} =>
                 \E o : <<u, j, o, "succeeded">> \in ledger
      BY <2>1, <2>3 DEF CommitsOK
    <3>2. PICK j \in DOMAIN Plan(u) : \E via :
            /\ c = <<u, j, via>>
            /\ via # "none" /\ Plan(u)[j] \in {"transcribe", "structurize", "construct"} =>
                 \E o : <<u, j, o, "succeeded">> \in ledger
      BY <3>1
    <3>3. PICK o : <<t, k, o, "succeeded">> \in ledger
      <4>1. c[1] = t /\ c[2] = k /\ u = c[1] /\ j = c[2]
        BY <2>3, <3>2
      <4>2. c[3] # "none" /\ Plan(u)[j] \in {"transcribe", "structurize", "construct"} =>
              \E o : <<u, j, o, "succeeded">> \in ledger
        BY <3>2
      <4>3. u = t /\ j = k
        BY <4>1
      <4> QED BY <2>3, <4>2, <4>3
    <3> DEFINE r == <<t, k, o, "succeeded">>
    <3>4. r \in ledger /\ r[1] = t /\ r[2] = k /\ r[4] = "succeeded"
      BY <3>3
    <3> HIDE DEF r
    <3> QED BY <3>4
  <2>4. ASSUME NEW r \in calls, NEW q \in calls
        PROVE  Done(t, k) /\ r = q
    <3>1. r \in ledger /\ r[1] = t /\ r[2] = k /\ r[4] = "succeeded"
      OBVIOUS
    <3>2. Done(t, k)
      BY <2>1, <3>1 DEF LedgerOK
    <3>3. r = q
      BY <2>1 DEF LedgerOK, OneSuccess
    <3> QED BY <3>2, <3>3
  <2> QED BY <2>2, <2>3, <2>4 DEF Done
<1> QED BY <1>1, Invariance, PTL
=============================================================================
