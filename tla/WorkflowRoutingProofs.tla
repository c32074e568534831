------------------------ MODULE WorkflowRoutingProofs ------------------------
(***************************************************************************)
(* Theorems about WorkflowRouting for every book of plans of its shape,    *)
(* every set of members and every admissible request.                      *)
(*                                                                         *)
(* A message may be delivered again long after it did its work.  It then   *)
(* decides its route once more, from rows that have moved on, and only     *)
(* finding the Process it made the first time keeps the step from running  *)
(* twice.  So the invariant says that start and resume are decided by the  *)
(* frozen request alone (StartOf, ResumeOf), that the Process of that      *)
(* decision is still there (Path, GateOK), and that what the step needed   *)
(* when it was materialized is needed and there still (InputsOf).  Rows    *)
(* and families follow: Row ties an Execution's status to its Processes    *)
(* and messages, Family a root's to its children's.                        *)
(*                                                                         *)
(* A transaction computes its rows as a function of a world, so each of    *)
(* these functions has a lemma that takes a sound world to a sound world;  *)
(* the lemmas of the actions put them together.                            *)
(***************************************************************************)
EXTENDS WorkflowRouting, FiniteSetTheorems, TLAPS

-----------------------------------------------------------------------------
(* The inductive invariant, over a world [ex, procs, gate, mail].          *)

ExStatus == {"absent", "active", "waiting", "cancelling"} \cup TerminalStatus
WaitKinds == {"none", "human_review", "scatter_children", "durable_prerequisite"}
LiveStatus == {"ready", "running", "cancelling"}
GateStatus == {"none", "open", "released", "rejected", "superseded"}
AllSteps == UNION {StepsOf(PlanBook[k]) : k \in RunPlans}
Digests == (AllSteps \cup {"start", "selected_clean", "human_review"})
             \X {"always", "succeeded", "failed"}
             \X SUBSET (({"none"} \cup DOMAIN GuardFact) \X BOOLEAN)
ErrorNames ==
  {"none", "process-failed", "gate-rejected", "gate-target-evidence-invalid",
   "scatter-required-child-failed"} \cup IntegrityErrors \cup RaisedErrors
Rows == [status : ExStatus, waiting : WaitKinds, error : ErrorNames]
WorkSteps == AllSteps \ ({"none", "human_review", "scatter_children_join"} \cup TerminalSteps)
Processes == [step : WorkSteps, digest : Digests, status : LiveStatus \cup TerminalStatus]
Worlds ==
  [ex : [Execs -> Rows], procs : [Execs -> SUBSET Processes], gate : GateStatus,
   mail : SUBSET ({"wake", "gate"} \X Execs)]

PlanName(x) == IF x = root THEN task.plan ELSE "child"

\* Step b comes strictly after step a in the plan of x.
Beyond(x, a, b) ==
  Ahead(PlanName(x), b) \subseteq Ahead(PlanName(x), a) /\ Ahead(PlanName(x), b) # Ahead(PlanName(x), a)

\* Where an Execution starts and where a released review resumes the root: the
\* frozen request alone decides.
StartOf(x) == RouteDecision(PlanOf(x), "start", "always", ContextOf(x, NoFact, "none"))
ResumeOf == RouteDecision(PlanOf(root), "human_review", "succeeded", Context(NoFact, "none"))

\* P holds the Process of decision d.
Holds(P, d) == \E p \in P : p.step = d.to /\ p.digest = d.digest

\* The Processes of an Execution are a path through its plan: one Process per
\* step, the one at work beyond all others, the start among them.
Path(w, x) ==
  /\ \A p, q \in w.procs[x] : p.step = q.step => p = q
  /\ \A p \in w.procs[x] : p.status \in LiveStatus =>
       \A q \in w.procs[x] \ {p} : Beyond(x, q.step, p.step)
  /\ w.procs[x] # {} => Holds(w.procs[x], StartOf(x))

\* What an Execution's status says of its Processes and of what it waits for.
Row(w, x) ==
  LET status == w.ex[x].status
      waiting == w.ex[x].waiting
  IN  /\ \A p \in w.procs[x] :
           /\ p.status \in {"ready", "running"} => status = "active"
           /\ p.status = "cancelling" => status = "cancelling"
      /\ status = "active" => Busy(w, x) \/ (w.procs[x] = {} /\ <<"wake", x>> \in w.mail)
      /\ status \in {"absent", "active"} \cup TerminalStatus => waiting = "none"
      /\ x = root =>
           /\ status # "absent"
           /\ status = "waiting" => waiting \in {"human_review", "scatter_children"}
           /\ status = "cancelling" => waiting \in {"none", "scatter_children"}
      /\ x # root =>
           /\ status \in {"absent", "waiting"} => w.procs[x] = {}
           /\ status = "waiting" => waiting = "durable_prerequisite"
           /\ status = "cancelling" => waiting = "none" /\ Busy(w, x)

\* The gate and the root it holds: a gate is entered once, and a released one
\* has resumed the root at most once.
GateOK(w) ==
  /\ w.gate = "open" => w.ex[root].waiting = "human_review"
  /\ <<"gate", root>> \in w.mail => w.gate \in {"released", "rejected"}
  /\ w.ex[root].waiting = "human_review" =>
       /\ w.gate = "open" \/ <<"gate", root>> \in w.mail
       /\ w.procs[root] # {}
       /\ \A q \in w.procs[root] : Beyond(root, q.step, "human_review")
  /\ w.gate # "none" /\ w.ex[root].status = "active" =>
       /\ w.gate = "released"
       /\ Holds(w.procs[root], ResumeOf)
       /\ \A p \in w.procs[root] : p.status \in LiveStatus => Beyond(root, "human_review", p.step)

\* What the root's row says of its children.
Family(w) ==
  LET status == w.ex[root].status
      waiting == w.ex[root].waiting
      open == \E c \in MembersOf(w) : ~Ended(w, c)
      All(S) == \A c \in MembersOf(w) : w.ex[c].status \in S
  IN  /\ MembersOf(w) # {} => task.plan = "scatter" /\ status # "active" /\ ~Busy(w, root)
      /\ waiting = "human_review" => All({"waiting"})
      /\ status = "waiting" /\ waiting = "scatter_children" => open /\ All({"active"} \cup TerminalStatus)
      /\ status = "cancelling" => (Busy(w, root) \/ open) /\ All({"cancelling"} \cup TerminalStatus)
      /\ status \in TerminalStatus => All({"cancelling"} \cup TerminalStatus)
      /\ task.plan = "scatter" /\ status = "succeeded" =>
           \A c \in MembersOf(w) : w.ex[c].status = "succeeded" /\ Published(w, c)

\* Before a required review is released nothing is generated and no child runs.
Unreviewed(w) ==
  task.review /\ w.gate # "released" =>
    /\ \A p \in w.procs[root] : p.step \notin GenerationSteps
    /\ \A c \in Children : w.procs[c] = {} /\ w.ex[c].status # "active"

\* What a redelivered message finds when it looks a materialized step up again:
\* its required inputs and, where it needs one, a sealed binding.
Done(P, sl) == Succeeded(P) \cup (IF sl = "none" THEN {} ELSE {"selected_clean"})
InputsOf(x, P, sl, sd) ==
  \A p \in P : Unbound(x, p.step, Done(P, sl)) = {} /\ (NeedsSeal(p.step) => sd # "none")

SoundWorld(w) ==
  /\ w \in Worlds
  /\ \A x \in Execs : Path(w, x) /\ Row(w, x)
  /\ GateOK(w) /\ Family(w) /\ Unreviewed(w)

\* The candidate set's admission is what the request asks for.
StagingOK(c) ==
  /\ c \in [state : {"none", "open", "sealed", "accepted", "abandoned"},
            admission : {"none", "auto_admitted", "human_review_required"}, fresh : BOOLEAN]
  /\ c.admission \in {"none", Admission(task.review)}
  /\ c.state \in {"sealed", "accepted"} => c.admission = Admission(task.review)

Inv ==
  /\ task \in AdmissibleTasks
  /\ StagingOK(staging)
  /\ SoundWorld(World)
  /\ \A x \in Execs : InputsOf(x, procs[x], selected, sealed)

-----------------------------------------------------------------------------
(* Plans: what a route decision may lead to. *)

\* Every Execution runs one of the registered plans.
LEMMA PlanKnown ==
  ASSUME task \in AdmissibleTasks, NEW x
  PROVE  /\ PlanName(x) \in RunPlans /\ PlanOf(x) = PlanBook[PlanName(x)]
         /\ PlanShape(PlanName(x)) /\ RoutesValid(PlanOf(x))
         /\ x = root => ReviewShape(PlanName(x))
<1>1. task.plan \in {"inline", "local", "http", "scatter"}
  BY DEF AdmissibleTasks
<1>2. PlanName(x) \in RunPlans /\ PlanOf(x) = PlanBook[PlanName(x)]
  BY <1>1 DEF PlanName, PlanOf, RunPlans
<1>3. x = root => PlanName(x) # "child"
  BY <1>1 DEF PlanName
<1> QED BY <1>2, <1>3, PlanBookAssumption, ShapeAssumption DEF WellFormed

\* A decision follows a route of its step and outcome whose guard matches.
LEMMA RouteTaken ==
  ASSUME NEW plan, NEW step, NEW on, NEW ctx, RouteDecision(plan, step, on, ctx).to # "none"
  PROVE  \E r \in plan.routes :
           /\ r.from = step /\ r.on = on /\ r.to = RouteDecision(plan, step, on, ctx).to
           /\ GuardMatches(r.guard, ctx)
<1> DEFINE C == Candidates(plan, step, on)
           W == Winners(C, ctx)
<1>1. RouteDecision(plan, step, on, ctx).to = IF W = {} THEN "none" ELSE (CHOOSE r \in W : TRUE).to
  BY DEF RouteDecision, Decision
<1>2. W # {} BY <1>1
<1>3. (CHOOSE r \in W : TRUE) \in W BY <1>2
<1> QED BY <1>1, <1>2, <1>3 DEF Winners, Candidates

\* The digest of a decision is typed.
LEMMA DigestTyped ==
  ASSUME NEW plan, RoutesValid(plan), NEW ctx,
         NEW step \in AllSteps \cup {"start", "selected_clean", "human_review"},
         NEW on \in {"always", "succeeded", "failed"}
  PROVE  RouteDecision(plan, step, on, ctx).digest \in Digests
<1> DEFINE C == Candidates(plan, step, on)
           W == Winners(C, ctx)
           E == {<<r.guard, GuardMatches(r.guard, ctx)>> : r \in {q \in C : \A v \in W : q.prio <= v.prio}}
<1>1. RouteDecision(plan, step, on, ctx).digest = <<step, on, E>>
  BY DEF RouteDecision, Decision
<1>2. \A r \in C : r.guard \in {"none"} \cup DOMAIN GuardFact
  BY DEF Candidates, RoutesValid
<1>3. \A r \in C : GuardMatches(r.guard, ctx) \in BOOLEAN
  BY DEF GuardMatches
<1>4. E \subseteq ({"none"} \cup DOMAIN GuardFact) \X BOOLEAN
  BY <1>2, <1>3
<1> QED BY <1>1, <1>4 DEF Digests

\* Contexts that give every guard the same answer lead to the same decision.
LEMMA SameDecision ==
  ASSUME NEW plan, NEW step, NEW on, NEW c1, NEW c2,
         \A r \in Candidates(plan, step, on) : GuardMatches(r.guard, c1) = GuardMatches(r.guard, c2)
  PROVE  RouteDecision(plan, step, on, c1) = RouteDecision(plan, step, on, c2)
<1> DEFINE C == Candidates(plan, step, on)
<1>1. Winners(C, c1) = Winners(C, c2)
  BY DEF Winners
<1> DEFINE S == {q \in C : \A v \in Winners(C, c1) : q.prio <= v.prio}
<1>2. {<<r.guard, GuardMatches(r.guard, c1)>> : r \in S} = {<<r.guard, GuardMatches(r.guard, c2)>> : r \in S}
  BY Zenon
<1> QED BY <1>1, <1>2 DEF RouteDecision, Decision

\* A guard over the frozen request answers the same in every context of the Task.
LEMMA FrozenGuard ==
  ASSUME NEW f, NEW a, NEW g,
         g # "none" => GuardFact[g][1] \in {"intent", "metadata", "markdown", "mode"}
  PROVE  GuardMatches(g, Context(f, a)) = GuardMatches(g, Context(NoFact, "none"))
<1>1. CASE g = "none" BY <1>1 DEF GuardMatches
<1>2. CASE g # "none"
  <2>1. \A n \in {"intent", "metadata", "markdown", "mode"} : Context(f, a)[n] = Context(NoFact, "none")[n]
    BY DEF Context
  <2>2. Context(f, a)[GuardFact[g][1]] = Context(NoFact, "none")[GuardFact[g][1]]
    BY <1>2, <2>1
  <2> QED BY <2>2 DEF GuardMatches
<1> QED BY <1>1, <1>2

\* However often an Execution is woken, it finds the same start.
LEMMA FrozenStart ==
  ASSUME task \in AdmissibleTasks, NEW x, NEW f, NEW a
  PROVE  RouteDecision(PlanOf(x), "start", "always", ContextOf(x, f, a)) = StartOf(x)
<1>1. CASE x = root
  <2>1. \A r \in Candidates(PlanOf(x), "start", "always") :
          GuardMatches(r.guard, Context(f, a)) = GuardMatches(r.guard, Context(NoFact, "none"))
    BY PlanKnown, FrozenGuard DEF Candidates, PlanShape, ResumeRoute
  <2> QED BY <1>1, <2>1, SameDecision DEF ContextOf, StartOf
<1>2. CASE x # root
  BY <1>2 DEF ContextOf, StartOf
<1> QED BY <1>1, <1>2

\* However often a release is delivered, it resumes the root at the same step.
LEMMA FrozenResume ==
  ASSUME task \in AdmissibleTasks, NEW f, NEW a
  PROVE  RouteDecision(PlanOf(root), "human_review", "succeeded", Context(f, a)) = ResumeOf
<1>1. \A r \in Candidates(PlanOf(root), "human_review", "succeeded") :
        GuardMatches(r.guard, Context(f, a)) = GuardMatches(r.guard, Context(NoFact, "none"))
  BY PlanKnown, FrozenGuard DEF Candidates, PlanShape, ResumeRoute
<1> QED BY <1>1, SameDecision DEF ResumeOf

\* The order of a plan is transitive, and no step is beyond itself.
LEMMA BeyondOrder ==
  ASSUME NEW x, NEW a, NEW b, NEW c
  PROVE  /\ Beyond(x, a, b) /\ Beyond(x, b, c) => Beyond(x, a, c)
         /\ ~Beyond(x, a, a)
BY DEF Beyond

\* A route leads beyond the step it leaves.
LEMMA RouteBeyond ==
  ASSUME task \in AdmissibleTasks, NEW x, NEW r \in PlanOf(x).routes
  PROVE  Beyond(x, r.from, r.to)
BY PlanKnown DEF PlanShape, Beyond

-----------------------------------------------------------------------------
(* Landings: where a decision may be applied. *)

StepNames == AllSteps \cup {"start", "selected_clean", "human_review"}
Outcomes == {"always", "succeeded", "failed"}

\* A route that brings x to its next step, directly or through selected_clean.
Leads(r, x, step, on, ctx) ==
  /\ r \in PlanOf(x).routes
  /\ \/ r.from = step /\ r.on = on /\ GuardMatches(r.guard, ctx)
     \/ /\ r.from = "selected_clean" /\ r.on = "succeeded" /\ GuardMatches(r.guard, Context(NoFact, "none"))
        /\ \E q \in PlanOf(x).routes : q.from = step /\ q.on = on /\ q.to = "selected_clean"

\* What a landing without error guarantees of the step it names.
GoodLanding(x, step, on, ctx, P, land) ==
  /\ land.to \in AllSteps \ {"none"} /\ land.digest \in Digests
  /\ Beyond(x, step, land.to)
  /\ \E r : Leads(r, x, step, on, ctx) /\ r.to = land.to
  /\ Unbound(x, land.to, Done(P, IF land.pick = "none" THEN selected ELSE land.pick)) = {}
  /\ NeedsSeal(land.to) => land.seal # "none"

\* What an arrival checks.
LEMMA ArrivalFacts ==
  ASSUME NEW x, NEW to, NEW done, NEW seal
  PROVE  /\ ArrivalError(x, to, done, seal) \in ErrorNames
         /\ ArrivalError(x, to, done, seal) = "none" =>
              to # "none" /\ Unbound(x, to, done) = {} /\ (NeedsSeal(to) => seal # "none")
BY DEF ArrivalError, ErrorNames, RaisedErrors, IntegrityErrors

\* A step a route leads to is a step of a plan.
LEMMA RouteTargetKnown ==
  ASSUME task \in AdmissibleTasks, NEW x, NEW r \in PlanOf(x).routes
  PROVE  r.to \in AllSteps
BY PlanKnown DEF AllSteps, StepsOf

\* A seal, once set, is kept by every landing.
LEMMA SealKept ==
  ASSUME NEW x, NEW step, NEW on, NEW ctx, NEW P
  PROVE  sealed # "none" => Landing(x, step, on, ctx, P).seal # "none"
<1> DEFINE d == RouteDecision(PlanOf(x), step, on, ctx)
<1>1. sealed # "none" => SealedBy(x, d.to) # "none" BY DEF SealedBy
<1> HIDE DEF d
<1>2. Land(x, d, ctx, P).seal \in {sealed, SealedBy(x, d.to)}
  BY DEF Land, Stopped, ProjectSelected, Arrive
<1> QED BY <1>1, <1>2 DEF Landing, d

\* A landing that goes straight to the decision's step.
LEMMA DirectLanding ==
  ASSUME task \in AdmissibleTasks, NEW x, NEW step \in StepNames, NEW on \in Outcomes, NEW ctx, NEW P,
         NEW d, d = RouteDecision(PlanOf(x), step, on, ctx),
         d.to # "selected_clean", ~StrategyUnreachable(d.to, ctx)
  PROVE  /\ Land(x, d, ctx, P) = [to |-> d.to, digest |-> d.digest, pick |-> "none", seal |-> SealedBy(x, d.to),
                                  error |-> ArrivalError(x, d.to, Done(P, selected), SealedBy(x, d.to))]
         /\ Land(x, d, ctx, P).error \in ErrorNames
         /\ Land(x, d, ctx, P).error = "none" => GoodLanding(x, step, on, ctx, P, Land(x, d, ctx, P))
<1>1. Land(x, d, ctx, P) = [to |-> d.to, digest |-> d.digest, pick |-> "none", seal |-> SealedBy(x, d.to),
                            error |-> ArrivalError(x, d.to, Done(P, selected), SealedBy(x, d.to))]
  BY DEF Land, Arrive, Done
<1>2. Land(x, d, ctx, P).error \in ErrorNames
  BY <1>1, ArrivalFacts
<1>3. ASSUME Land(x, d, ctx, P).error = "none"
      PROVE  GoodLanding(x, step, on, ctx, P, Land(x, d, ctx, P))
  <2>1. d.to # "none" /\ Unbound(x, d.to, Done(P, selected)) = {} /\ (NeedsSeal(d.to) => SealedBy(x, d.to) # "none")
    BY <1>1, <1>3, ArrivalFacts
  <2>2. PICK r \in PlanOf(x).routes : r.from = step /\ r.on = on /\ r.to = d.to /\ GuardMatches(r.guard, ctx)
    BY <2>1, RouteTaken
  <2>3. d.to \in AllSteps /\ Beyond(x, step, d.to)
    BY <2>2, RouteTargetKnown, RouteBeyond
  <2>4. d.digest \in Digests
    BY PlanKnown, DigestTyped DEF StepNames, Outcomes
  <2>5. Leads(r, x, step, on, ctx) BY <2>2 DEF Leads
  <2> QED BY <1>1, <2>1, <2>2, <2>3, <2>4, <2>5 DEF GoodLanding
<1> QED BY <1>1, <1>2, <1>3

\* A landing through selected_clean goes on with the decision of that step.
LEMMA ProjectedLanding ==
  ASSUME task \in AdmissibleTasks, NEW x, NEW step \in StepNames, NEW on \in Outcomes, NEW ctx, NEW P,
         "none" \notin Succeeded(P), NEW d, d = RouteDecision(PlanOf(x), step, on, ctx),
         d.to = "selected_clean"
  PROVE  /\ ProjectSelected(x, d, Candidate(x, P), P).error \in ErrorNames
         /\ ProjectSelected(x, d, Candidate(x, P), P).error = "none" =>
              GoodLanding(x, step, on, ctx, P, ProjectSelected(x, d, Candidate(x, P), P))
<1> DEFINE e == RouteDecision(PlanOf(x), "selected_clean", "succeeded", Context(NoFact, "none"))
           pick == CHOOSE c \in Candidate(x, P) : TRUE
           land == ProjectSelected(x, d, Candidate(x, P), P)
<1>1. CASE Cardinality(Candidate(x, P)) # 1
  BY <1>1 DEF ProjectSelected, Stopped, ErrorNames, IntegrityErrors
<1>2. CASE Cardinality(Candidate(x, P)) = 1
  <2>1. land = [to |-> e.to, digest |-> e.digest, pick |-> pick, seal |-> sealed,
                error |-> ArrivalError(x, e.to, Succeeded(P) \cup {"selected_clean"}, sealed)]
    BY <1>2 DEF ProjectSelected, Arrive
  <2>2. land.error \in ErrorNames BY <2>1, ArrivalFacts
  <2>3. ASSUME land.error = "none" PROVE GoodLanding(x, step, on, ctx, P, land)
    <3>1. Candidate(x, P) # {}
      BY <1>2, FS_EmptySet
    <3>2. pick # "none"
      BY <3>1 DEF Candidate
    <3>3. /\ e.to # "none" /\ Unbound(x, e.to, Succeeded(P) \cup {"selected_clean"}) = {}
          /\ NeedsSeal(e.to) => sealed # "none"
      BY <2>1, <2>3, ArrivalFacts
    <3>4. PICK r \in PlanOf(x).routes :
            /\ r.from = "selected_clean" /\ r.on = "succeeded" /\ r.to = e.to
            /\ GuardMatches(r.guard, Context(NoFact, "none"))
      BY <3>3, RouteTaken
    <3>5. PICK q \in PlanOf(x).routes : q.from = step /\ q.on = on /\ q.to = "selected_clean"
      BY RouteTaken
    <3>6. e.to \in AllSteps /\ Beyond(x, step, e.to)
      BY <3>4, <3>5, RouteTargetKnown, RouteBeyond, BeyondOrder
    <3>7. e.digest \in Digests
      BY PlanKnown, DigestTyped
    <3>8. Leads(r, x, step, on, ctx) BY <3>4, <3>5 DEF Leads
    <3>9. Done(P, pick) = Succeeded(P) \cup {"selected_clean"} BY <3>2 DEF Done
    <3> HIDE DEF e, pick, land
    <3> QED BY <2>1, <3>2, <3>3, <3>4, <3>6, <3>7, <3>8, <3>9 DEF GoodLanding
  <2> QED BY <2>2, <2>3
<1> QED BY <1>1, <1>2, FS_CardinalityType

\* Every landing without error is a good one.
LEMMA LandingFacts ==
  ASSUME task \in AdmissibleTasks, NEW x, NEW step \in StepNames, NEW on \in Outcomes, NEW ctx, NEW P,
         "none" \notin Succeeded(P)
  PROVE  /\ Landing(x, step, on, ctx, P).error \in ErrorNames
         /\ Landing(x, step, on, ctx, P).error = "none" =>
              GoodLanding(x, step, on, ctx, P, Landing(x, step, on, ctx, P))
<1> DEFINE d == RouteDecision(PlanOf(x), step, on, ctx)
<1>1. CASE StrategyUnreachable(d.to, ctx)
  BY <1>1 DEF Landing, Land, Stopped, ErrorNames, RaisedErrors
<1>2. CASE ~StrategyUnreachable(d.to, ctx) /\ d.to = "selected_clean"
  BY <1>2, ProjectedLanding DEF Landing, Land
<1>3. CASE ~StrategyUnreachable(d.to, ctx) /\ d.to # "selected_clean"
  BY <1>3, DirectLanding DEF Landing
<1> QED BY <1>1, <1>2, <1>3

-----------------------------------------------------------------------------
(* Ends of Executions keep a world sound. *)

\* The root and its children are different Executions.
LEMMA ExecNames ==
  /\ root \in Execs
  /\ \A c \in Children : c \in Execs /\ c # root
  /\ \A x \in Execs : x # root => x \in Children
BY TasksAssumption DEF Execs

\* The fields of a world in which x has ended.
LEMMA EndAsFields ==
  ASSUME NEW w \in Worlds, NEW x \in Execs, NEW status \in TerminalStatus, NEW error \in ErrorNames
  PROVE  /\ EndAs(w, x, status, error) \in Worlds
         /\ EndAs(w, x, status, error).ex[x] = [status |-> status, waiting |-> "none", error |-> error]
         /\ \A y \in Execs : y # x => EndAs(w, x, status, error).ex[y] = w.ex[y]
         /\ EndAs(w, x, status, error).procs = w.procs
         /\ EndAs(w, x, status, error).gate = w.gate
         /\ EndAs(w, x, status, error).mail = w.mail
BY DEF EndAs, Worlds, Rows, ExStatus, WaitKinds

\* What must hold of everything but the root's own row for the root to end.
RootMayEnd(w) ==
  /\ w \in Worlds
  /\ \A x \in Execs : Path(w, x)
  /\ \A c \in Children : Row(w, c)
  /\ ~Busy(w, root)
  /\ w.gate # "open"
  /\ <<"gate", root>> \in w.mail => w.gate \in {"released", "rejected"}
  /\ MembersOf(w) # {} => task.plan = "scatter"
  /\ Unreviewed(w)

\* A root may end once its children have ended or are being cancelled, and end
\* well only over children that succeeded and published.
LEMMA EndRoot ==
  ASSUME NEW w, RootMayEnd(w), NEW status \in TerminalStatus, NEW error \in ErrorNames,
         \A c \in MembersOf(w) : w.ex[c].status \in {"cancelling"} \cup TerminalStatus,
         task.plan = "scatter" /\ status = "succeeded" =>
           \A c \in MembersOf(w) : w.ex[c].status = "succeeded" /\ Published(w, c)
  PROVE  SoundWorld(EndAs(w, root, status, error))
<1>1. PICK v : v = EndAs(w, root, status, error) OBVIOUS
<1>2. w \in Worlds BY DEF RootMayEnd
<1>3. /\ v \in Worlds
      /\ v.ex[root] = [status |-> status, waiting |-> "none", error |-> error]
      /\ \A c \in Children : v.ex[c] = w.ex[c]
      /\ v.procs = w.procs /\ v.gate = w.gate /\ v.mail = w.mail
  BY <1>1, <1>2, EndAsFields, ExecNames
<1>4. MembersOf(v) = MembersOf(w)
  BY <1>3 DEF MembersOf
<1>5. \A x \in Execs : Path(v, x)
  BY <1>3 DEF Path, RootMayEnd
<1>6. \A x \in Execs : Busy(v, x) = Busy(w, x)
  BY <1>3 DEF Busy
<1>7. \A c \in Children : Row(v, c)
  BY <1>3, <1>6, ExecNames DEF Row, RootMayEnd
<1>8. Row(v, root)
  <2>1. \A p \in v.procs[root] : p.status \notin {"ready", "running", "cancelling"}
    BY <1>3 DEF RootMayEnd, Busy
  <2>2. v.ex[root].status = status /\ v.ex[root].waiting = "none"
    BY <1>3
  <2> QED BY <2>1, <2>2 DEF Row, TerminalStatus
<1>9. \A x \in Execs : Row(v, x)
  BY <1>7, <1>8, ExecNames
<1>10. GateOK(v)
  BY <1>3 DEF GateOK, RootMayEnd, TerminalStatus
<1>11. Family(v)
  <2>1. \A c \in MembersOf(w) : c \in Children BY DEF MembersOf
  <2>2. \A c \in MembersOf(v) : v.ex[c].status \in {"cancelling"} \cup TerminalStatus
    BY <1>3, <1>4, <2>1
  <2>3. task.plan = "scatter" /\ status = "succeeded" =>
          \A c \in MembersOf(v) : v.ex[c].status = "succeeded" /\ Published(v, c)
    BY <1>3, <1>4, <2>1 DEF Published
  <2> QED BY <1>3, <1>4, <1>6, <2>2, <2>3 DEF Family, RootMayEnd, TerminalStatus, root, Execs
<1>12. Unreviewed(v)
  BY <1>3 DEF Unreviewed, RootMayEnd
<1> QED BY <1>1, <1>3, <1>5, <1>9, <1>10, <1>11, <1>12 DEF SoundWorld

\* A world in which child c has just closed its last Process.
MidChild(w, c) ==
  /\ w \in Worlds
  /\ \A x \in Execs : Path(w, x)
  /\ \A x \in Execs : x # c => Row(w, x)
  /\ ~Busy(w, c)
  /\ w.ex[c].status \in {"active", "cancelling"}
  /\ GateOK(w) /\ Family(w) /\ Unreviewed(w)

\* A child that ends leaves its root joining, cancelling or ended as it should.
LEMMA EndChild ==
  ASSUME NEW w, NEW c \in Children, MidChild(w, c), NEW status \in TerminalStatus, NEW error \in ErrorNames
  PROVE  SoundWorld(NotifyParent(EndAs(w, c, status, error), c))
<1>1. PICK v : v = EndAs(w, c, status, error) OBVIOUS
<1>2. w \in Worlds BY DEF MidChild
<1>3. /\ v \in Worlds
      /\ v.ex[c] = [status |-> status, waiting |-> "none", error |-> error]
      /\ \A y \in Execs : y # c => v.ex[y] = w.ex[y]
      /\ v.procs = w.procs /\ v.gate = w.gate /\ v.mail = w.mail
  BY <1>1, <1>2, EndAsFields, ExecNames
<1>4. v.ex[root] = w.ex[root]
  BY <1>3, ExecNames
<1>5. MembersOf(v) = MembersOf(w) /\ c \in MembersOf(w)
  BY <1>3, ExecNames DEF MembersOf, MidChild, TerminalStatus
<1>6. \A x \in Execs : Busy(v, x) = Busy(w, x)
  BY <1>3 DEF Busy
<1>7. \A x \in Execs : Path(v, x)
  BY <1>3 DEF Path, MidChild
<1>8. \A x \in Execs : Row(v, x)
  <2>1. \A x \in Execs : x # c => Row(v, x)
    BY <1>3, <1>6 DEF Row, MidChild
  <2>2. \A p \in v.procs[c] : p.status \notin {"ready", "running", "cancelling"}
    BY <1>3 DEF MidChild, Busy
  <2>3. v.ex[c].status = status /\ v.ex[c].waiting = "none"
    BY <1>3
  <2>4. Row(v, c)
    BY <2>2, <2>3, ExecNames DEF Row, TerminalStatus
  <2> QED BY <2>1, <2>4
<1>9. GateOK(v)
  BY <1>3, <1>4 DEF GateOK, MidChild
<1>10. Unreviewed(v)
  BY <1>3, ExecNames DEF Unreviewed, MidChild, TerminalStatus
<1>11. \A d \in MembersOf(v) : d \in Children /\ d \in Execs /\ (d # c => v.ex[d] = w.ex[d])
  BY <1>3, ExecNames DEF MembersOf
<1>12. MembersOf(v) # {} => task.plan = "scatter" /\ v.ex[root].status # "active" /\ ~Busy(v, root)
  BY <1>4, <1>5, <1>6, ExecNames DEF Family, MidChild
<1>13. w.ex[root].waiting # "human_review"
  BY <1>5 DEF Family, MidChild
<1>14. v.ex[root].waiting # "human_review" /\ v.gate # "open" /\ task.plan = "scatter" /\ ~Busy(v, root)
  BY <1>4, <1>5, <1>9, <1>12, <1>13 DEF GateOK
<1>15. RootMayEnd(v)
  BY <1>3, <1>7, <1>8, <1>9, <1>10, <1>14, ExecNames DEF RootMayEnd, GateOK
<1>16. c # root /\ v.ex[c].status \in TerminalStatus
  BY <1>3, ExecNames
<1>17. CASE v.ex[root].status = "cancelling"
  <2>1. \A d \in MembersOf(v) : v.ex[d].status \in {"cancelling"} \cup TerminalStatus
    BY <1>4, <1>5, <1>11, <1>16, <1>17 DEF Family, MidChild
  <2>2. CASE \A d \in MembersOf(v) : Ended(v, d)
    <3>1. SoundWorld(EndAs(v, root, "cancelled", "none"))
      BY <1>15, <2>1, EndRoot DEF TerminalStatus, ErrorNames
    <3> QED BY <1>1, <1>14, <1>16, <1>17, <2>2, <3>1 DEF NotifyParent, ConvergeCancelledRoot
  <2>3. CASE ~\A d \in MembersOf(v) : Ended(v, d)
    <3>1. Family(v)
      BY <1>12, <1>14, <1>17, <2>1, <2>3 DEF Family, TerminalStatus
    <3>2. NotifyParent(v, c) = v
      BY <1>16, <1>17, <2>3 DEF NotifyParent, ConvergeCancelledRoot
    <3> QED BY <1>1, <1>3, <1>7, <1>8, <1>9, <1>10, <3>1, <3>2 DEF SoundWorld
  <2> QED BY <2>2, <2>3
<1>18. CASE v.ex[root].status = "waiting"
  <2>0. v.ex[root].waiting = "scatter_children"
    BY <1>8, <1>14, <1>18, ExecNames DEF Row
  <2>1. \A d \in MembersOf(v) : v.ex[d].status \in {"active"} \cup TerminalStatus
    BY <1>4, <1>5, <1>11, <1>16, <1>18, <2>0 DEF Family, MidChild
  <2>2. NotifyParent(v, c) = ConvergeScatterRoot(v)
    BY <1>16, <1>18 DEF NotifyParent
  <2>3. CASE \A d \in MembersOf(v) : Ended(v, d)
    <3>1. \A d \in MembersOf(v) : v.ex[d].status \in {"cancelling"} \cup TerminalStatus
      BY <2>3 DEF Ended
    <3>2. SoundWorld(EndAs(v, root, "failed", "scatter-required-child-failed"))
      BY <1>15, <3>1, EndRoot DEF TerminalStatus, ErrorNames
    <3>3. SoundWorld(EndAs(v, root, "failed", "scatter-publication-proof-missing"))
      BY <1>15, <3>1, EndRoot DEF TerminalStatus, ErrorNames, IntegrityErrors
    <3>4. (\A d \in MembersOf(v) : v.ex[d].status = "succeeded" /\ Published(v, d)) =>
            SoundWorld(EndAs(v, root, "succeeded", "none"))
      BY <1>15, <3>1, EndRoot DEF TerminalStatus, ErrorNames
    <3> QED BY <1>1, <1>18, <2>0, <2>2, <2>3, <3>2, <3>3, <3>4 DEF ConvergeScatterRoot
  <2>4. CASE ~\A d \in MembersOf(v) : Ended(v, d)
    <3>1. Family(v)
      BY <1>12, <1>14, <1>18, <2>0, <2>1, <2>4 DEF Family, TerminalStatus
    <3>2. NotifyParent(v, c) = v
      BY <2>2, <2>4 DEF ConvergeScatterRoot
    <3> QED BY <1>1, <1>3, <1>7, <1>8, <1>9, <1>10, <3>1, <3>2 DEF SoundWorld
  <2> QED BY <2>3, <2>4
<1>19. CASE v.ex[root].status \in TerminalStatus
  <2>1. \A d \in MembersOf(v) : v.ex[d].status \in {"cancelling"} \cup TerminalStatus
    BY <1>4, <1>5, <1>11, <1>16, <1>19 DEF Family, MidChild
  <2>2. w.ex[root].status # "succeeded"
    BY <1>5, <1>14 DEF Family, MidChild
  <2>3. Family(v)
    BY <1>4, <1>12, <1>14, <1>19, <2>1, <2>2 DEF Family, TerminalStatus
  <2>4. NotifyParent(v, c) = v
    BY <1>16, <1>19 DEF NotifyParent, ConvergeScatterRoot, TerminalStatus
  <2> QED BY <1>1, <1>3, <1>7, <1>8, <1>9, <1>10, <2>3, <2>4 DEF SoundWorld
<1>20. v.ex[root].status \in {"cancelling", "waiting"} \cup TerminalStatus
  <2>1. v.ex[root].status \in ExStatus /\ v.ex[root].status # "absent"
    BY <1>3, <1>8, ExecNames DEF Worlds, Rows, Row
  <2> QED BY <1>5, <1>12, <2>1 DEF ExStatus
<1> QED BY <1>17, <1>18, <1>19, <1>20

-----------------------------------------------------------------------------
(* Cancellation of a tree. *)

\* What a cancellation does to one Process, and to which Executions.
Halt(p) ==
  IF p.status = "ready" THEN [p EXCEPT !.status = "cancelled"]
  ELSE IF p.status = "running" THEN [p EXCEPT !.status = "cancelling"] ELSE p
OpenIn(w, X) == {x \in X : ~Ended(w, x) /\ w.ex[x].status # "absent"}

\* v is the world after the Executions of X were fenced, before the root is
\* looked at again.
Fenced(w, X, v) ==
  /\ v \in Worlds
  /\ \A x \in Execs : v.procs[x] = IF x \in OpenIn(w, X) THEN {Halt(p) : p \in w.procs[x]} ELSE w.procs[x]
  /\ v.gate = IF root \in OpenIn(w, X) /\ w.gate = "open" THEN "superseded" ELSE w.gate
  /\ v.mail = w.mail
  /\ \A x \in Execs :
       v.ex[x] = IF x \in OpenIn(w, X)
                 THEN IF x # root /\ ~Busy(v, x)
                      THEN [status |-> "cancelled", waiting |-> "none", error |-> "none"]
                      ELSE [w.ex[x] EXCEPT !.status = "cancelling"]
                 ELSE w.ex[x]

\* A halted Process is the same Process, closed or about to be.
LEMMA HaltFacts ==
  ASSUME NEW p \in Processes
  PROVE  /\ Halt(p) \in Processes /\ Halt(p).step = p.step /\ Halt(p).digest = p.digest
         /\ Halt(p).status \notin {"ready", "running"}
         /\ Halt(p).status = "cancelling" <=> p.status \in {"running", "cancelling"}
         /\ Halt(p).status = "succeeded" <=> p.status = "succeeded"
         /\ Halt(p).status \in LiveStatus => p.status \in LiveStatus
BY DEF Halt, Processes, LiveStatus, TerminalStatus

\* Updates of a world's fields.
LEMMA WorldUpdates ==
  ASSUME NEW w \in Worlds, NEW e, NEW p, NEW g
  PROVE  /\ w = [ex |-> w.ex, procs |-> w.procs, gate |-> w.gate, mail |-> w.mail]
         /\ [w EXCEPT !.procs = p, !.gate = g] = [ex |-> w.ex, procs |-> p, gate |-> g, mail |-> w.mail]
         /\ [[ex |-> w.ex, procs |-> p, gate |-> g, mail |-> w.mail] EXCEPT !.ex = e]
              = [ex |-> e, procs |-> p, gate |-> g, mail |-> w.mail]
<1>1. PICK A, B, C, D : w \in [ex : A, procs : B, gate : C, mail : D]
  BY DEF Worlds
<1>2. w = [ex |-> w.ex, procs |-> w.procs, gate |-> w.gate, mail |-> w.mail]
  BY <1>1
<1>3. PICK r : r = [w EXCEPT !.procs = p, !.gate = g] OBVIOUS
<1>4. r \in [ex : A, procs : {p}, gate : {g}, mail : D] /\ r.ex = w.ex /\ r.mail = w.mail
  BY <1>1, <1>3
<1>5. r = [ex |-> r.ex, procs |-> r.procs, gate |-> r.gate, mail |-> r.mail] /\ r.procs = p /\ r.gate = g
  BY <1>4
<1>6. [[ex |-> w.ex, procs |-> p, gate |-> g, mail |-> w.mail] EXCEPT !.ex = e]
        = [ex |-> e, procs |-> p, gate |-> g, mail |-> w.mail]
  OBVIOUS
<1> QED BY <1>2, <1>3, <1>4, <1>5, <1>6

\* CancelTree fences, then converges the root.
LEMMA CancelTreeFences ==
  ASSUME NEW w \in Worlds, NEW X \in SUBSET Execs
  PROVE  \E v : Fenced(w, X, v) /\ CancelTree(w, X) = ConvergeCancelledRoot(v)
<1> DEFINE open == OpenIn(w, X)
           pr == [x \in Execs |-> IF x \in open THEN {Halt(p) : p \in w.procs[x]} ELSE w.procs[x]]
           gt == IF root \in open /\ w.gate = "open" THEN "superseded" ELSE w.gate
           st == [ex |-> w.ex, procs |-> pr, gate |-> gt, mail |-> w.mail]
           New(x) == IF x # root /\ ~Busy(st, x)
                     THEN [status |-> "cancelled", waiting |-> "none", error |-> "none"]
                     ELSE [w.ex[x] EXCEPT !.status = "cancelling"]
           rows == [x \in Execs |-> IF x \in open THEN New(x) ELSE w.ex[x]]
           v == [ex |-> rows, procs |-> pr, gate |-> gt, mail |-> w.mail]
<1>1. CancelTree(w, X) = ConvergeCancelledRoot(v)
  <2> DEFINE Stop(p) == IF p.status = "ready" THEN [p EXCEPT !.status = "cancelled"]
                        ELSE IF p.status = "running" THEN [p EXCEPT !.status = "cancelling"] ELSE p
             op == {x \in X : ~Ended(w, x) /\ w.ex[x].status # "absent"}
             s0 == [w EXCEPT !.procs = [x \in Execs |-> IF x \in op THEN {Stop(p) : p \in @[x]} ELSE @[x]],
                             !.gate = IF root \in op /\ @ = "open" THEN "superseded" ELSE @]
             New0(x) == IF x # root /\ ~Busy(s0, x)
                        THEN [status |-> "cancelled", waiting |-> "none", error |-> "none"]
                        ELSE [w.ex[x] EXCEPT !.status = "cancelling"]
             v0 == [s0 EXCEPT !.ex = [x \in Execs |-> IF x \in op THEN New0(x) ELSE @[x]]]
  <2>1. CancelTree(w, X) = ConvergeCancelledRoot(v0)
    BY Zenon DEF CancelTree
  <2>2. s0 = [w EXCEPT !.procs = pr, !.gate = gt]
    BY Zenon DEF OpenIn, Halt
  <2>3. [w EXCEPT !.procs = pr, !.gate = gt] = st
    <3> HIDE DEF pr, gt
    <3> QED BY WorldUpdates
  <2>4. s0 = st BY <2>2, <2>3
  <2> HIDE DEF s0
  <2>5. v0 = [st EXCEPT !.ex = [x \in Execs |-> IF x \in open THEN New(x) ELSE @[x]]]
    BY <2>4, Zenon DEF OpenIn
  <2>6. [st EXCEPT !.ex = [x \in Execs |-> IF x \in open THEN New(x) ELSE @[x]]] = [st EXCEPT !.ex = rows]
    OBVIOUS
  <2>7. [st EXCEPT !.ex = rows] = v
    <3>1. PICK e, p, g, m : e = w.ex /\ p = pr /\ g = gt /\ m = w.mail OBVIOUS
    <3>2. PICK r : r = rows OBVIOUS
    <3>3. [[ex |-> e, procs |-> p, gate |-> g, mail |-> m] EXCEPT !.ex = r]
            = [ex |-> r, procs |-> p, gate |-> g, mail |-> m]
      OBVIOUS
    <3> QED BY <3>1, <3>2, <3>3, Zenon
  <2> QED BY <2>1, <2>5, <2>6, <2>7, Zenon
<1>2. \A x \in Execs : w.procs[x] \in SUBSET Processes /\ w.ex[x] \in Rows
  BY DEF Worlds
<1>3. pr \in [Execs -> SUBSET Processes]
  BY <1>2, HaltFacts
<1>4. \A x \in Execs : New(x) \in Rows
  BY <1>2 DEF Rows, ExStatus, WaitKinds, TerminalStatus, ErrorNames
<1>5. rows \in [Execs -> Rows]
  BY <1>2, <1>4
<1>6. gt \in GateStatus /\ w.mail \in SUBSET ({"wake", "gate"} \X Execs)
  BY DEF Worlds, GateStatus
<1>7. v \in Worlds
  BY <1>3, <1>5, <1>6 DEF Worlds
<1>8. \A x \in Execs : Busy(v, x) = Busy(st, x)
  BY DEF Busy
<1>9. Fenced(w, X, v)
  BY <1>7, <1>8 DEF Fenced
<1> QED BY <1>1, <1>9

\* Halting the Processes of an Execution keeps its path.
LEMMA HaltedPath ==
  ASSUME NEW w \in Worlds, NEW v \in Worlds, NEW x \in Execs, Path(w, x),
         v.procs[x] = {Halt(p) : p \in w.procs[x]}
  PROVE  Path(v, x)
<1>1. w.procs[x] \subseteq Processes
  BY DEF Worlds
<1>2. ASSUME NEW p \in v.procs[x], NEW q \in v.procs[x], p.step = q.step
      PROVE  p = q
  <2>1. PICK p0 \in w.procs[x], q0 \in w.procs[x] : p = Halt(p0) /\ q = Halt(q0)
    BY <1>2
  <2>2. p0.step = q0.step BY <1>1, <1>2, <2>1, HaltFacts
  <2>3. p0 = q0 BY <2>2 DEF Path
  <2> QED BY <2>1, <2>3
<1>3. ASSUME NEW p \in v.procs[x], p.status \in LiveStatus, NEW q \in v.procs[x] \ {p}
      PROVE  Beyond(x, q.step, p.step)
  <2>1. PICK p0 \in w.procs[x], q0 \in w.procs[x] : p = Halt(p0) /\ q = Halt(q0)
    BY <1>3
  <2>2. p0.status \in LiveStatus /\ p0 # q0 BY <1>1, <1>3, <2>1, HaltFacts
  <2>3. Beyond(x, q0.step, p0.step) BY <2>2 DEF Path
  <2> QED BY <1>1, <2>1, <2>3, HaltFacts
<1>4. ASSUME v.procs[x] # {} PROVE Holds(v.procs[x], StartOf(x))
  <2>1. PICK p0 \in w.procs[x] : p0.step = StartOf(x).to /\ p0.digest = StartOf(x).digest
    BY <1>4 DEF Path, Holds
  <2>2. Halt(p0) \in v.procs[x] /\ Halt(p0).step = p0.step /\ Halt(p0).digest = p0.digest
    BY <1>1, HaltFacts
  <2> QED BY <2>1, <2>2 DEF Holds
<1> QED BY <1>2, <1>3, <1>4 DEF Path

\* What a fenced tree looks like: no path is broken, and every child of X that
\* had not ended is cancelled, or cancelling with a Process to wait for.
LEMMA FencedFacts ==
  ASSUME NEW w \in Worlds, NEW X, X \in {Children, Execs}, NEW v, Fenced(w, X, v),
         \A x \in Execs : Path(w, x), \A c \in Children : Row(w, c), Unreviewed(w)
  PROVE  /\ \A x \in Execs : Path(v, x)
         /\ \A c \in Children : Row(v, c)
         /\ MembersOf(v) = MembersOf(w)
         /\ \A c \in MembersOf(v) : v.ex[c].status \in {"cancelling"} \cup TerminalStatus
         /\ \A c \in Children : w.procs[c] = {} => (c \in MembersOf(v) => Ended(v, c))
         /\ ~Busy(w, root) => ~Busy(v, root)
         /\ Unreviewed(v)
<1>1. v \in Worlds /\ Children \subseteq X /\ OpenIn(w, X) \subseteq X /\ X \subseteq Execs
  BY ExecNames DEF Fenced, OpenIn
<1>2. \A x \in Execs : x \in OpenIn(w, X) => v.procs[x] = {Halt(p) : p \in w.procs[x]}
  BY DEF Fenced
<1>3. \A x \in Execs : x \notin OpenIn(w, X) => v.procs[x] = w.procs[x] /\ v.ex[x] = w.ex[x]
  BY DEF Fenced
<1>4. \A x \in Execs : w.procs[x] \subseteq Processes /\ w.ex[x] \in Rows
  BY DEF Worlds
<1>5. \A x \in Execs : Path(v, x)
  <2> TAKE x \in Execs
  <2>1. CASE x \in OpenIn(w, X) BY <1>1, <1>2, <2>1, HaltedPath
  <2>2. CASE x \notin OpenIn(w, X) BY <1>3, <2>2 DEF Path
  <2> QED BY <2>1, <2>2
<1>6. \A x \in Execs : x \in OpenIn(w, X) => \A p \in v.procs[x] : p.status \notin {"ready", "running"}
  BY <1>2, <1>4, HaltFacts
<1>7. ASSUME NEW c \in Children, c \in OpenIn(w, X)
      PROVE  /\ Row(v, c) /\ v.ex[c].status \in {"cancelling", "cancelled"}
             /\ w.procs[c] = {} => v.ex[c].status = "cancelled"
  <2>1. c \in Execs /\ c # root BY ExecNames
  <2>2. CASE ~Busy(v, c)
    <3>1. v.ex[c] = [status |-> "cancelled", waiting |-> "none", error |-> "none"]
      BY <1>7, <2>1, <2>2 DEF Fenced
    <3>2. \A p \in v.procs[c] : p.status \notin {"ready", "running", "cancelling"}
      BY <2>2 DEF Busy
    <3>3. Row(v, c) BY <2>1, <3>1, <3>2 DEF Row, TerminalStatus
    <3> QED BY <3>1, <3>3
  <2>3. CASE Busy(v, c)
    <3>1. v.ex[c] = [w.ex[c] EXCEPT !.status = "cancelling"]
      BY <1>7, <2>1, <2>3 DEF Fenced
    <3>2. v.ex[c].status = "cancelling" /\ v.ex[c].waiting = w.ex[c].waiting
      BY <1>4, <2>1, <3>1 DEF Rows
    <3>3. w.procs[c] # {}
      BY <1>2, <1>7, <2>1, <2>3 DEF Busy
    <3>4. w.ex[c].status \in ExStatus BY <1>4, <2>1 DEF Rows
    <3>5. w.ex[c].waiting = "none"
      BY <2>1, <3>3, <3>4 DEF Row, ExStatus
    <3>6. Row(v, c)
      BY <1>6, <1>7, <2>1, <2>3, <3>2, <3>5 DEF Row, TerminalStatus
    <3> QED BY <3>2, <3>3, <3>6
  <2> QED BY <2>2, <2>3
<1>8. ASSUME NEW c \in Children, c \notin OpenIn(w, X)
      PROVE  Row(v, c) /\ v.ex[c].status = w.ex[c].status /\ v.ex[c].status \in {"absent"} \cup TerminalStatus
  <2>1. c \in Execs /\ c \in X BY <1>1, ExecNames
  <2>2. v.procs[c] = w.procs[c] /\ v.ex[c] = w.ex[c] /\ v.mail = w.mail
    BY <1>3, <1>8, <2>1 DEF Fenced
  <2>3. w.ex[c].status \in {"absent"} \cup TerminalStatus
    BY <1>8, <2>1 DEF OpenIn, Ended
  <2>4. Busy(v, c) = Busy(w, c) BY <2>2 DEF Busy
  <2>5. Row(w, c) OBVIOUS
  <2>6. Row(v, c) BY <2>2, <2>4, <2>5 DEF Row
  <2> QED BY <2>2, <2>3, <2>6
<1>9. \A c \in Children : Row(v, c)
  BY <1>7, <1>8
<1>10. MembersOf(v) = MembersOf(w)
  <2>1. \A c \in Children : c \in OpenIn(w, X) => w.ex[c].status # "absent" BY DEF OpenIn
  <2> QED BY <1>7, <1>8, <2>1 DEF MembersOf
<1>11. \A c \in MembersOf(v) : v.ex[c].status \in {"cancelling"} \cup TerminalStatus
  BY <1>7, <1>8 DEF MembersOf, TerminalStatus
<1>12. \A c \in Children : w.procs[c] = {} => (c \in MembersOf(v) => Ended(v, c))
  BY <1>7, <1>8 DEF MembersOf, Ended, TerminalStatus
<1>13. ~Busy(w, root) => ~Busy(v, root)
  <2> SUFFICES ASSUME NEW p \in v.procs[root], p.status \in {"ready", "running", "cancelling"}
               PROVE  Busy(w, root)
    BY DEF Busy
  <2>1. CASE root \in OpenIn(w, X)
    <3>1. PICK q \in w.procs[root] : p = Halt(q) BY <1>2, <2>1, ExecNames
    <3>2. q.status \in LiveStatus BY <1>4, <3>1, HaltFacts, ExecNames DEF LiveStatus
    <3> QED BY <3>2 DEF Busy, LiveStatus
  <2>2. CASE root \notin OpenIn(w, X)
    BY <1>3, <2>2, ExecNames DEF Busy
  <2> QED BY <2>1, <2>2
<1>14. Unreviewed(v)
  <2> SUFFICES ASSUME task.review, v.gate # "released"
               PROVE  /\ \A p \in v.procs[root] : p.step \notin GenerationSteps
                      /\ \A c \in Children : v.procs[c] = {} /\ v.ex[c].status # "active"
    BY DEF Unreviewed
  <2>1. w.gate # "released" BY DEF Fenced
  <2>2. /\ \A p \in w.procs[root] : p.step \notin GenerationSteps
        /\ \A c \in Children : w.procs[c] = {}
    BY <2>1 DEF Unreviewed
  <2>3. \A p \in v.procs[root] : p.step \notin GenerationSteps
    <3> TAKE p \in v.procs[root]
    <3>1. CASE root \in OpenIn(w, X)
      BY <1>2, <1>4, <2>2, <3>1, HaltFacts, ExecNames
    <3>2. CASE root \notin OpenIn(w, X)
      BY <1>3, <2>2, <3>2, ExecNames
    <3> QED BY <3>1, <3>2
  <2>4. \A c \in Children : v.procs[c] = {}
    BY <1>2, <1>3, <2>2, ExecNames
  <2>5. \A c \in Children : v.ex[c].status # "active"
    BY <1>7, <1>8 DEF TerminalStatus
  <2> QED BY <2>3, <2>4, <2>5
<1> QED BY <1>5, <1>9, <1>10, <1>11, <1>12, <1>13, <1>14

-----------------------------------------------------------------------------
(* Moves of the root. *)

\* A world in which the root is between two steps; children it has were just
\* created, or are held.
MidRoot(w) ==
  /\ RootMayEnd(w)
  /\ w.ex[root].status = "active" /\ w.ex[root].waiting = "none"
  /\ \A c \in MembersOf(w) : w.ex[c].status \in {"waiting", "active"}

\* A root that fails stops its children and leaves a sound world.
LEMMA FailRoot ==
  ASSUME NEW w, MidRoot(w), NEW status \in {"failed", "cancelled"}, NEW error \in ErrorNames
  PROVE  SoundWorld(Terminalize(w, root, status, error))
<1>1. w \in Worlds BY DEF MidRoot, RootMayEnd
<1>2. PICK v : Fenced(w, Children, v) /\ CancelTree(w, Children) = ConvergeCancelledRoot(v)
  BY <1>1, CancelTreeFences, ExecNames
<1>3. root \notin OpenIn(w, Children) BY TasksAssumption DEF OpenIn
<1>4. v.ex[root] = w.ex[root] /\ v.gate = w.gate /\ v.mail = w.mail /\ v \in Worlds
  BY <1>2, <1>3, ExecNames DEF Fenced
<1>5. CancelTree(w, Children) = v
  BY <1>2, <1>4 DEF ConvergeCancelledRoot, MidRoot
<1>6. /\ \A x \in Execs : Path(v, x)
      /\ \A c \in Children : Row(v, c)
      /\ MembersOf(v) = MembersOf(w)
      /\ \A c \in MembersOf(v) : v.ex[c].status \in {"cancelling"} \cup TerminalStatus
      /\ ~Busy(v, root)
      /\ Unreviewed(v)
  BY <1>1, <1>2, FencedFacts DEF MidRoot, RootMayEnd
<1>7. RootMayEnd(v)
  BY <1>4, <1>6 DEF RootMayEnd, MidRoot
<1>8. SoundWorld(EndAs(v, root, status, error))
  BY <1>6, <1>7, EndRoot DEF TerminalStatus
<1> QED BY <1>5, <1>8 DEF Terminalize, NotifyParent

\* A root without children may succeed.
LEMMA SucceedRoot ==
  ASSUME NEW w, MidRoot(w), MembersOf(w) = {}, NEW error \in ErrorNames
  PROVE  SoundWorld(Terminalize(w, root, "succeeded", error))
<1>1. SoundWorld(EndAs(w, root, "succeeded", error))
  BY EndRoot DEF MidRoot, TerminalStatus
<1> QED BY <1>1 DEF Terminalize, NotifyParent

\* The Process of a new step is the one at work, beyond all others.
LEMMA NewProcess ==
  ASSUME NEW w \in Worlds, NEW x \in Execs, Path(w, x), ~Busy(w, x),
         NEW to \in WorkSteps, NEW digest \in Digests,
         \A q \in w.procs[x] : Beyond(x, q.step, to),
         w.procs[x] = {} => to = StartOf(x).to /\ digest = StartOf(x).digest,
         NEW v, v = Materialize(w, x, to, digest)
  PROVE  /\ v \in Worlds /\ v.gate = w.gate /\ v.mail = w.mail
         /\ v.ex[x] = [status |-> "active", waiting |-> "none", error |-> "none"]
         /\ v.procs[x] = w.procs[x] \cup {[step |-> to, digest |-> digest, status |-> "ready"]}
         /\ \A y \in Execs : y # x => v.ex[y] = w.ex[y] /\ v.procs[y] = w.procs[y]
         /\ Busy(v, x) /\ Path(v, x) /\ Row(v, x)
<1> DEFINE n == [step |-> to, digest |-> digest, status |-> "ready"]
<1>1. \A q \in w.procs[x] : q.step # to
  BY BeyondOrder
<1>2. v = [w EXCEPT !.procs[x] = @ \cup {n}, !.ex[x] = [status |-> "active", waiting |-> "none", error |-> "none"]]
  BY <1>1 DEF Materialize
<1>3. n \in Processes BY DEF Processes, LiveStatus
<1>4. w.procs[x] \subseteq Processes BY DEF Worlds
<1>5. /\ v \in Worlds /\ v.gate = w.gate /\ v.mail = w.mail
      /\ v.ex[x] = [status |-> "active", waiting |-> "none", error |-> "none"]
      /\ v.procs[x] = w.procs[x] \cup {n}
      /\ \A y \in Execs : y # x => v.ex[y] = w.ex[y] /\ v.procs[y] = w.procs[y]
  <2> HIDE DEF n
  <2>1. [status |-> "active", waiting |-> "none", error |-> "none"] \in Rows
    BY DEF Rows, ExStatus, WaitKinds, ErrorNames
  <2>0. PICK A, B, C, D : /\ A = [Execs -> Rows] /\ B = [Execs -> SUBSET Processes]
                          /\ C = GateStatus /\ D = SUBSET ({"wake", "gate"} \X Execs)
    BY Zenon
  <2>2. w \in [ex : A, procs : B, gate : C, mail : D] /\ w.ex \in A /\ w.procs \in B
    BY <2>0 DEF Worlds
  <2>3. PICK e, p : /\ e = [w.ex EXCEPT ![x] = [status |-> "active", waiting |-> "none", error |-> "none"]]
                    /\ p = [w.procs EXCEPT ![x] = w.procs[x] \cup {n}]
    OBVIOUS
  <2>4. e \in A /\ p \in B
    BY <1>3, <2>0, <2>1, <2>2, <2>3
  <2>5. v = [w EXCEPT !.procs = p, !.ex = e]
    BY <1>2, <2>3
  <2>6. v \in [ex : A, procs : B, gate : C, mail : D] /\ v.ex = e /\ v.procs = p /\ v.gate = w.gate /\ v.mail = w.mail
    BY <2>2, <2>4, <2>5
  <2>7. w.ex \in [Execs -> Rows] /\ w.procs \in [Execs -> SUBSET Processes]
    BY <2>0, <2>2
  <2>8. v \in Worlds BY <2>0, <2>6 DEF Worlds
  <2> QED BY <2>3, <2>6, <2>7, <2>8
<1>6. n.step = to /\ n.digest = digest /\ n.status = "ready" OBVIOUS
<1> HIDE DEF n
<1>7. Busy(v, x) BY <1>5, <1>6 DEF Busy
<1>8. \A p \in w.procs[x] : p.status \notin LiveStatus
  BY DEF Busy, LiveStatus
<1>9. Path(v, x)
  <2>1. \A p, q \in v.procs[x] : p.step = q.step => p = q
    BY <1>1, <1>5, <1>6 DEF Path
  <2>2. \A p \in v.procs[x] : p.status \in LiveStatus => \A q \in v.procs[x] \ {p} : Beyond(x, q.step, p.step)
    BY <1>5, <1>6, <1>8
  <2>3. Holds(v.procs[x], StartOf(x))
    <3>1. CASE w.procs[x] = {} BY <1>5, <1>6, <3>1 DEF Holds
    <3>2. CASE w.procs[x] # {} BY <1>5, <3>2 DEF Holds, Path
    <3> QED BY <3>1, <3>2
  <2> QED BY <2>1, <2>2, <2>3 DEF Path
<1>10. Row(v, x)
  <2>1. \A p \in v.procs[x] : p.status # "cancelling"
    BY <1>5, <1>6, <1>8 DEF LiveStatus
  <2>2. v.ex[x].status = "active" /\ v.ex[x].waiting = "none" BY <1>5
  <2> QED BY <1>7, <2>1, <2>2 DEF Row, TerminalStatus
<1> QED BY <1>5, <1>7, <1>9, <1>10 DEF n

\* An Execution none of whose fields changed is as it was.
LEMMA SameExecution ==
  ASSUME NEW w, NEW v, NEW x, Path(w, x) /\ Row(w, x),
         v.procs[x] = w.procs[x], v.ex[x] = w.ex[x], <<"wake", x>> \in w.mail => <<"wake", x>> \in v.mail
  PROVE  Path(v, x) /\ Row(v, x)
<1>1. Busy(v, x) = Busy(w, x) BY DEF Busy
<1> QED BY <1>1 DEF Path, Row

\* The root moves to its next step.
LEMMA MoveRoot ==
  ASSUME NEW w, MidRoot(w), MembersOf(w) = {},
         NEW to \in WorkSteps, NEW digest \in Digests,
         \A q \in w.procs[root] : Beyond(root, q.step, to),
         w.procs[root] = {} => to = StartOf(root).to /\ digest = StartOf(root).digest,
         w.gate # "none" =>
           /\ w.gate = "released" /\ Beyond(root, "human_review", to)
           /\ Holds(w.procs[root], ResumeOf) \/ (to = ResumeOf.to /\ digest = ResumeOf.digest),
         task.review /\ w.gate # "released" => to \notin GenerationSteps
  PROVE  SoundWorld(Materialize(w, root, to, digest))
<1>1. PICK v : v = Materialize(w, root, to, digest) OBVIOUS
<1>2. w \in Worlds /\ (\A x \in Execs : Path(w, x)) /\ ~Busy(w, root) /\ \A c \in Children : Row(w, c)
  BY DEF MidRoot, RootMayEnd
<1>3. /\ v \in Worlds /\ v.gate = w.gate /\ v.mail = w.mail
      /\ v.ex[root] = [status |-> "active", waiting |-> "none", error |-> "none"]
      /\ v.procs[root] = w.procs[root] \cup {[step |-> to, digest |-> digest, status |-> "ready"]}
      /\ \A y \in Execs : y # root => v.ex[y] = w.ex[y] /\ v.procs[y] = w.procs[y]
      /\ Busy(v, root) /\ Path(v, root) /\ Row(v, root)
  BY <1>1, <1>2, NewProcess, ExecNames
<1>4. \A c \in Children : Path(v, c) /\ Row(v, c)
  BY <1>2, <1>3, SameExecution, ExecNames
<1>5. \A x \in Execs : Path(v, x) /\ Row(v, x)
  BY <1>3, <1>4, ExecNames
<1>6. MembersOf(v) = {}
  BY <1>3, ExecNames DEF MembersOf
<1>7. v.ex[root].status = "active" /\ v.ex[root].waiting = "none" BY <1>3
<1>8. Family(v)
  BY <1>6, <1>7 DEF Family, TerminalStatus
<1>9. GateOK(v)
  <2>1. ASSUME w.gate # "none"
        PROVE  /\ Holds(v.procs[root], ResumeOf)
               /\ \A p \in v.procs[root] : p.status \in LiveStatus => Beyond(root, "human_review", p.step)
    <3>1. \A p \in w.procs[root] : p.status \notin LiveStatus
      BY <1>2 DEF Busy, LiveStatus
    <3>2. PICK n : n = [step |-> to, digest |-> digest, status |-> "ready"] OBVIOUS
    <3>3. n.step = to /\ n.digest = digest /\ v.procs[root] = w.procs[root] \cup {n}
      BY <1>3, <3>2
    <3>4. Holds(v.procs[root], ResumeOf)
      BY <2>1, <3>3 DEF Holds
    <3> QED BY <2>1, <3>1, <3>3, <3>4
  <2> QED BY <1>3, <1>7, <2>1 DEF GateOK, MidRoot, RootMayEnd
<1>10. Unreviewed(v)
  BY <1>3, ExecNames DEF Unreviewed, MidRoot, RootMayEnd
<1> QED BY <1>1, <1>3, <1>5, <1>8, <1>9, <1>10 DEF SoundWorld

\* A child moves to its next step.
LEMMA MoveChild ==
  ASSUME NEW w, NEW c \in Children, MidChild(w, c), w.ex[c].status = "active",
         NEW to \in WorkSteps, NEW digest \in Digests,
         \A q \in w.procs[c] : Beyond(c, q.step, to),
         w.procs[c] = {} => to = StartOf(c).to /\ digest = StartOf(c).digest
  PROVE  SoundWorld(Materialize(w, c, to, digest))
<1>1. PICK v : v = Materialize(w, c, to, digest) OBVIOUS
<1>2. w \in Worlds /\ (\A x \in Execs : Path(w, x)) /\ ~Busy(w, c) /\ \A x \in Execs : x # c => Row(w, x)
  BY DEF MidChild
<1>3. /\ v \in Worlds /\ v.gate = w.gate /\ v.mail = w.mail
      /\ v.ex[c] = [status |-> "active", waiting |-> "none", error |-> "none"]
      /\ \A y \in Execs : y # c => v.ex[y] = w.ex[y] /\ v.procs[y] = w.procs[y]
      /\ Busy(v, c) /\ Path(v, c) /\ Row(v, c)
  BY <1>1, <1>2, NewProcess, ExecNames
<1>4. \A x \in Execs : Path(v, x) /\ Row(v, x)
  <2> TAKE x \in Execs
  <2>1. CASE x = c BY <1>3, <2>1
  <2>2. CASE x # c BY <1>2, <1>3, <2>2, SameExecution
  <2> QED BY <2>1, <2>2
<1>5. v.ex[c].status = "active" BY <1>3
<1>6. c \in Execs /\ c # root /\ root \in Execs BY ExecNames
<1>7. v.ex[root] = w.ex[root] /\ v.procs[root] = w.procs[root] BY <1>3, <1>6
<1>8. \A d \in Children : d \in Execs /\ v.ex[d].status = w.ex[d].status
  BY <1>3, <1>5, ExecNames
<1>9. MembersOf(v) = MembersOf(w) /\ c \in MembersOf(w)
  BY <1>8 DEF MembersOf
<1>10. Busy(v, root) = Busy(w, root) BY <1>7 DEF Busy
<1>11. Family(w) BY DEF MidChild
<1>12. w.ex[root].status = "waiting" /\ w.ex[root].waiting = "scatter_children"
  <2>1. w.ex[root].status \in ExStatus /\ Row(w, root)
    BY <1>2, <1>6 DEF Worlds, Rows
  <2> QED BY <1>9, <1>11, <2>1 DEF Family, Row, ExStatus, TerminalStatus
<1>13. Family(v)
  <2>1. \A d \in MembersOf(w) : d \in Children BY DEF MembersOf
  <2> QED BY <1>7, <1>8, <1>9, <1>10, <1>11, <1>12, <2>1 DEF Family, Ended, TerminalStatus
<1>14. GateOK(v)
  BY <1>3, <1>7 DEF GateOK, MidChild
<1>15. Unreviewed(v)
  <2>1. ~(task.review /\ w.gate # "released") BY DEF Unreviewed, MidChild
  <2> QED BY <1>3, <2>1 DEF Unreviewed
<1> QED BY <1>1, <1>3, <1>4, <1>13, <1>14, <1>15 DEF SoundWorld

\* The root's status and wait updated, alone and with the gate.
RootAs(w, s, k) == [w EXCEPT !.ex[root].status = s, !.ex[root].waiting = k]
GatedAs(w, g, s, k) == [w EXCEPT !.gate = g, !.ex[root].status = s, !.ex[root].waiting = k]

\* The fields of a world after such an update.
LEMMA RowUpdate ==
  ASSUME NEW w \in Worlds, NEW s \in ExStatus, NEW k \in WaitKinds, NEW g \in GateStatus, NEW v,
         v = GatedAs(w, g, s, k) \/ (g = w.gate /\ v = RootAs(w, s, k))
  PROVE  /\ v \in Worlds /\ v.gate = g /\ v.procs = w.procs /\ v.mail = w.mail
         /\ v.ex[root].status = s /\ v.ex[root].waiting = k
         /\ \A x \in Execs : x # root => v.ex[x] = w.ex[x]
<1>0. PICK S, W, E, B, C, D : /\ S = ExStatus /\ W = WaitKinds /\ E = ErrorNames
                              /\ B = [Execs -> SUBSET Processes] /\ C = GateStatus
                              /\ D = SUBSET ({"wake", "gate"} \X Execs)
  BY Zenon
<1>1. /\ w \in [ex : [Execs -> [status : S, waiting : W, error : E]], procs : B, gate : C, mail : D]
      /\ s \in S /\ k \in W /\ g \in C /\ root \in Execs
  BY <1>0, ExecNames DEF Worlds, Rows
<1>2. PICK e : e = [[w.ex EXCEPT ![root].status = s] EXCEPT ![root].waiting = k] OBVIOUS
<1>3. /\ e \in [Execs -> [status : S, waiting : W, error : E]]
      /\ e[root].status = s /\ e[root].waiting = k
      /\ \A x \in Execs : x # root => e[x] = w.ex[x]
  BY <1>1, <1>2
<1>4. CASE v = GatedAs(w, g, s, k)
  <2>1. v = [w EXCEPT !.gate = g, !.ex = e]
    BY <1>1, <1>2, <1>4 DEF GatedAs
  <2>2. /\ v \in [ex : [Execs -> [status : S, waiting : W, error : E]], procs : B, gate : C, mail : D]
        /\ v.ex = e /\ v.gate = g /\ v.procs = w.procs /\ v.mail = w.mail
    BY <1>1, <1>3, <2>1
  <2> QED BY <1>0, <1>3, <2>2 DEF Worlds, Rows
<1>5. CASE g = w.gate /\ v = RootAs(w, s, k)
  <2>1. v = [w EXCEPT !.ex = e]
    BY <1>1, <1>2, <1>5 DEF RootAs
  <2>2. /\ v \in [ex : [Execs -> [status : S, waiting : W, error : E]], procs : B, gate : C, mail : D]
        /\ v.ex = e /\ v.gate = g /\ v.procs = w.procs /\ v.mail = w.mail
    BY <1>1, <1>3, <1>5, <2>1
  <2> QED BY <1>0, <1>3, <2>2 DEF Worlds, Rows
<1> QED BY <1>4, <1>5

\* The root enters its review: a gate opens over held children, or it fails.
LEMMA ReviewRoot ==
  ASSUME NEW w, MidRoot(w), w.gate = "none", w.procs[root] # {},
         \A q \in w.procs[root] : Beyond(root, q.step, "human_review"),
         NEW c, NEW seal,
         c.admission = "human_review_required" => \A d \in MembersOf(w) : w.ex[d].status = "waiting"
  PROVE  SoundWorld(OpenGate(w, root, c, seal))
<1>1. w \in Worlds BY DEF MidRoot, RootMayEnd
<1>2. w.ex[root].status \notin TerminalStatus \cup {"cancelling"} /\ w.gate # "open"
  BY DEF MidRoot, TerminalStatus
<1>3. SoundWorld(Terminalize(w, root, "failed", "gate-target-evidence-invalid"))
  BY FailRoot DEF ErrorNames
<1>4. SoundWorld(Terminalize(w, root, "failed", "ACTUAL_S05_UNSEALED"))
  BY FailRoot DEF ErrorNames, RaisedErrors
<1>5. PICK v : v = GatedAs(w, "open", "waiting", "human_review")
  OBVIOUS
<1>6. ASSUME \A d \in MembersOf(w) : w.ex[d].status = "waiting"
      PROVE  SoundWorld(v)
  <2>1. /\ v \in Worlds /\ v.gate = "open" /\ v.procs = w.procs /\ v.mail = w.mail
        /\ v.ex[root].status = "waiting" /\ v.ex[root].waiting = "human_review"
        /\ \A x \in Execs : x # root => v.ex[x] = w.ex[x]
    <3>1. "waiting" \in ExStatus /\ "human_review" \in WaitKinds /\ "open" \in GateStatus
      BY DEF ExStatus, WaitKinds, GateStatus
    <3> QED BY <1>1, <1>5, <3>1, RowUpdate
  <2>2. \A x \in Execs : Path(v, x)
    BY <2>1 DEF Path, MidRoot, RootMayEnd
  <2>3. \A d \in Children : Row(v, d)
    <3>1. \A d \in Children : Path(w, d) /\ Row(w, d) /\ d \in Execs /\ d # root
      BY ExecNames DEF MidRoot, RootMayEnd
    <3>2. \A d \in Children : v.procs[d] = w.procs[d] /\ v.ex[d] = w.ex[d] /\ v.mail = w.mail
      BY <2>1, <3>1
    <3> QED BY <3>1, <3>2, SameExecution
  <2>4. \A p \in v.procs[root] : p.status \notin {"ready", "running", "cancelling"}
    BY <2>1 DEF Busy, MidRoot, RootMayEnd
  <2>5. Row(v, root)
    BY <2>1, <2>4 DEF Row, TerminalStatus
  <2>6. MembersOf(v) = MembersOf(w) /\ \A d \in MembersOf(w) : d \in Children /\ v.ex[d] = w.ex[d]
    BY <2>1, ExecNames DEF MembersOf
  <2>7. ~Busy(v, root) BY <2>4 DEF Busy
  <2>8. Family(v)
    BY <1>6, <2>1, <2>6, <2>7 DEF Family, MidRoot, RootMayEnd, TerminalStatus
  <2>9. GateOK(v)
    BY <2>1 DEF GateOK, MidRoot, RootMayEnd
  <2>10. Unreviewed(v)
    BY <2>1, ExecNames DEF Unreviewed, MidRoot, RootMayEnd
  <2>11. \A x \in Execs : Row(v, x)
    BY <2>3, <2>5, ExecNames
  <2> QED BY <2>1, <2>2, <2>8, <2>9, <2>10, <2>11 DEF SoundWorld
<1> QED BY <1>2, <1>3, <1>4, <1>5, <1>6 DEF OpenGate, GatedAs

\* The fields of a world whose held children were released.
LEMMA ReleaseFields ==
  ASSUME NEW w \in Worlds, NEW v, v = ReleaseChildren(w)
  PROVE  /\ v \in Worlds /\ v.gate = w.gate /\ v.procs = w.procs
         /\ v.ex[root] = w.ex[root]
         /\ \A c \in Children : w.ex[c].waiting = "durable_prerequisite" =>
              v.ex[c].status = "active" /\ v.ex[c].waiting = "none" /\ <<"wake", c>> \in v.mail
         /\ \A c \in Children : w.ex[c].waiting # "durable_prerequisite" => v.ex[c] = w.ex[c]
         /\ w.mail \subseteq v.mail
         /\ \A m \in v.mail : m \in w.mail \/ \E c \in Children : m = <<"wake", c>>
<1> DEFINE held == {c \in Children : w.ex[c].waiting = "durable_prerequisite"}
           rows == [x \in Execs |-> IF x \in held THEN [w.ex[x] EXCEPT !.status = "active", !.waiting = "none"]
                                    ELSE w.ex[x]]
           wakes == {<<"wake", c>> : c \in held}
<1>1. v = [w EXCEPT !.ex = rows, !.mail = w.mail \cup wakes]
  BY DEF ReleaseChildren
<1>2. w.ex \in [Execs -> Rows] BY DEF Worlds
<1>3. \A x \in Execs : /\ w.ex[x] \in Rows
                       /\ [w.ex[x] EXCEPT !.status = "active", !.waiting = "none"] \in Rows
                       /\ [w.ex[x] EXCEPT !.status = "active", !.waiting = "none"].status = "active"
                       /\ [w.ex[x] EXCEPT !.status = "active", !.waiting = "none"].waiting = "none"
  BY <1>2 DEF Rows, ExStatus, WaitKinds
<1>4. /\ rows \in [Execs -> Rows]
      /\ \A c \in Children : c \in held => rows[c].status = "active" /\ rows[c].waiting = "none"
      /\ \A c \in Children : c \notin held => rows[c] = w.ex[c]
      /\ rows[root] = w.ex[root]
  BY <1>3, ExecNames
<1>5. wakes \subseteq {"wake", "gate"} \X Execs /\ w.mail \cup wakes \in SUBSET ({"wake", "gate"} \X Execs)
  BY ExecNames DEF Worlds
<1>6. PICK e, m : e = rows /\ m = w.mail \cup wakes OBVIOUS
<1>7. v \in Worlds /\ v.ex = e /\ v.mail = m /\ v.gate = w.gate /\ v.procs = w.procs
  <2>1. v = [w EXCEPT !.ex = e, !.mail = m] BY <1>1, <1>6
  <2>2. e \in [Execs -> Rows] /\ m \in SUBSET ({"wake", "gate"} \X Execs) BY <1>4, <1>5, <1>6
  <2> HIDE DEF rows, wakes, held
  <2> QED BY <2>1, <2>2 DEF Worlds
<1>8. \A c \in Children : w.ex[c].waiting = "durable_prerequisite" <=> c \in held
  OBVIOUS
<1>9. /\ \A c \in held : <<"wake", c>> \in wakes
      /\ \A n \in wakes : \E c \in Children : n = <<"wake", c>>
  BY Zenon
<1> HIDE DEF rows, wakes, held
<1> QED BY <1>4, <1>6, <1>7, <1>8, <1>9

\* The root joins its children, or succeeds when it has none.
LEMMA JoinRoot ==
  ASSUME NEW w, MidRoot(w), task.review => w.gate = "released"
  PROVE  SoundWorld(JoinChildren(w))
<1>1. w \in Worlds /\ \A c \in Children : Row(w, c) BY DEF MidRoot, RootMayEnd
<1>2. CASE MembersOf(w) = {}
  BY <1>2, SucceedRoot DEF JoinChildren, ErrorNames
<1>3. CASE MembersOf(w) # {}
  <2>1. PICK u : u = ReleaseChildren(w) OBVIOUS
  <2>2. /\ u \in Worlds /\ u.gate = w.gate /\ u.procs = w.procs
        /\ u.ex[root] = w.ex[root]
        /\ \A c \in Children : w.ex[c].waiting = "durable_prerequisite" =>
             u.ex[c].status = "active" /\ u.ex[c].waiting = "none" /\ <<"wake", c>> \in u.mail
        /\ \A c \in Children : w.ex[c].waiting # "durable_prerequisite" => u.ex[c] = w.ex[c]
        /\ w.mail \subseteq u.mail
        /\ \A m \in u.mail : m \in w.mail \/ \E c \in Children : m = <<"wake", c>>
    BY <1>1, <2>1, ReleaseFields
  <2>3. PICK v : v = RootAs(u, "waiting", "scatter_children")
    OBVIOUS
  <2>4. JoinChildren(w) = v
    BY <1>3, <2>1, <2>3 DEF JoinChildren, RootAs
  <2>5. /\ v \in Worlds /\ v.gate = w.gate /\ v.procs = w.procs /\ v.mail = u.mail
        /\ v.ex[root].status = "waiting" /\ v.ex[root].waiting = "scatter_children"
        /\ \A x \in Execs : x # root => v.ex[x] = u.ex[x]
    <3>1. u.gate \in GateStatus /\ "waiting" \in ExStatus /\ "scatter_children" \in WaitKinds
      BY <2>2 DEF Worlds, ExStatus, WaitKinds
    <3>2. /\ v \in Worlds /\ v.gate = u.gate /\ v.procs = u.procs /\ v.mail = u.mail
          /\ v.ex[root].status = "waiting" /\ v.ex[root].waiting = "scatter_children"
          /\ \A x \in Execs : x # root => v.ex[x] = u.ex[x]
      BY <2>2, <2>3, <3>1, RowUpdate
    <3> QED BY <2>2, <3>2
  <2>6. \A x \in Execs : Path(v, x)
    BY <2>5 DEF Path, MidRoot, RootMayEnd
  <2>7. ASSUME NEW c \in Children
        PROVE  /\ Row(v, c) /\ (v.ex[c].status = "absent" <=> w.ex[c].status = "absent")
               /\ w.ex[c].status \in {"waiting", "active"} => v.ex[c].status = "active"
    <3>1. c \in Execs /\ c # root /\ Row(w, c) /\ w.ex[c] \in Rows
      BY <1>1, ExecNames DEF Worlds
    <3>2. CASE w.ex[c].waiting = "durable_prerequisite"
      <4>1. w.ex[c].status = "waiting" /\ w.procs[c] = {}
        BY <3>1, <3>2 DEF Row, Rows, ExStatus
      <4>2. v.ex[c].status = "active" /\ v.ex[c].waiting = "none" /\ <<"wake", c>> \in v.mail /\ v.procs[c] = {}
        BY <2>2, <2>5, <3>1, <3>2, <4>1
      <4>3. Row(v, c) BY <3>1, <4>2 DEF Row, TerminalStatus
      <4> QED BY <4>1, <4>2, <4>3
    <3>3. CASE w.ex[c].waiting # "durable_prerequisite"
      <4>1. v.ex[c] = w.ex[c] /\ v.procs[c] = w.procs[c] /\ w.mail \subseteq v.mail
        BY <2>2, <2>5, <3>1, <3>3
      <4>2. Path(w, c) /\ Row(w, c)
        BY <3>1 DEF MidRoot, RootMayEnd
      <4>3. Row(v, c) BY <4>1, <4>2, SameExecution
      <4>4. w.ex[c].status # "waiting" BY <3>1, <3>3 DEF Row
      <4> QED BY <4>1, <4>3, <4>4
    <3> QED BY <3>2, <3>3
  <2>8. \A p \in v.procs[root] : p.status \notin {"ready", "running", "cancelling"}
    BY <2>5 DEF Busy, MidRoot, RootMayEnd
  <2>9. Row(v, root)
    BY <2>5, <2>8 DEF Row, TerminalStatus
  <2>10. \A x \in Execs : Row(v, x)
    BY <2>7, <2>9, ExecNames
  <2>11. MembersOf(v) = MembersOf(w) /\ \A c \in MembersOf(v) : v.ex[c].status = "active"
    BY <2>7 DEF MembersOf, MidRoot
  <2>12. Family(v)
    <3>1. ~Busy(v, root) BY <2>8 DEF Busy
    <3>2. \E c \in MembersOf(v) : ~Ended(v, c)
      BY <1>3, <2>11 DEF Ended, TerminalStatus
    <3> QED BY <2>5, <2>11, <3>1, <3>2 DEF Family, MidRoot, RootMayEnd, TerminalStatus
  <2>13. <<"gate", root>> \in v.mail => <<"gate", root>> \in w.mail
    BY <2>2, <2>5
  <2>14. GateOK(v)
    BY <2>5, <2>13 DEF GateOK, MidRoot, RootMayEnd
  <2>15. Unreviewed(v)
    BY <2>5 DEF Unreviewed
  <2> QED BY <2>4, <2>5, <2>6, <2>10, <2>12, <2>14, <2>15 DEF SoundWorld
<1> QED BY <1>2, <1>3

\* A cancellation of the whole tree leaves a sound world: what is not over at
\* once has a Process to wait for.
LEMMA CancelAll ==
  ASSUME NEW w, SoundWorld(w), w.ex[root].status \notin TerminalStatus \cup {"cancelling"}
  PROVE  SoundWorld(CancelTree(w, Execs))
<1>1. /\ w \in Worlds /\ (\A x \in Execs : Path(w, x) /\ Row(w, x)) /\ GateOK(w) /\ Family(w) /\ Unreviewed(w)
      /\ root \in Execs /\ \A c \in Children : c \in Execs
  BY ExecNames DEF SoundWorld
<1>2. PICK v : Fenced(w, Execs, v) /\ CancelTree(w, Execs) = ConvergeCancelledRoot(v)
  BY <1>1, CancelTreeFences
<1>3. /\ \A x \in Execs : Path(v, x)
      /\ \A c \in Children : Row(v, c)
      /\ MembersOf(v) = MembersOf(w)
      /\ \A c \in MembersOf(v) : v.ex[c].status \in {"cancelling"} \cup TerminalStatus
      /\ \A c \in Children : w.procs[c] = {} => (c \in MembersOf(v) => Ended(v, c))
      /\ ~Busy(w, root) => ~Busy(v, root)
      /\ Unreviewed(v)
  BY <1>1, <1>2, FencedFacts
<1>4. root \in OpenIn(w, Execs)
  BY <1>1 DEF OpenIn, Ended, Row
<1>5. v.ex[root] = [w.ex[root] EXCEPT !.status = "cancelling"]
  BY <1>1, <1>2, <1>4 DEF Fenced
<1>6. w.ex[root] \in Rows BY <1>1 DEF Worlds
<1>7. v.ex[root].status = "cancelling" /\ v.ex[root].waiting = w.ex[root].waiting
  BY <1>5, <1>6 DEF Rows
<1>8. /\ v \in Worlds /\ v.mail = w.mail /\ v.gate # "open"
      /\ v.gate = w.gate \/ w.gate = "open"
      /\ v.procs[root] = {Halt(p) : p \in w.procs[root]}
  BY <1>1, <1>2, <1>4 DEF Fenced
<1>9. <<"gate", root>> \in v.mail => v.gate \in {"released", "rejected"}
  BY <1>1, <1>8 DEF GateOK
<1>10. MembersOf(v) # {} => task.plan = "scatter" /\ ~Busy(v, root)
  BY <1>1, <1>3 DEF Family
<1>11. CASE ~Busy(v, root) /\ \A c \in MembersOf(v) : Ended(v, c)
  <2>1. RootMayEnd(v)
    BY <1>3, <1>8, <1>9, <1>10, <1>11 DEF RootMayEnd
  <2>2. SoundWorld(EndAs(v, root, "cancelled", "none"))
    BY <1>3, <2>1, EndRoot DEF TerminalStatus, ErrorNames
  <2> QED BY <1>2, <1>7, <1>11, <2>2 DEF ConvergeCancelledRoot
<1>12. CASE ~(~Busy(v, root) /\ \A c \in MembersOf(v) : Ended(v, c))
  <2>1. CancelTree(w, Execs) = v
    BY <1>2, <1>12 DEF ConvergeCancelledRoot
  <2>2. w.ex[root].waiting # "human_review"
    <3> SUFFICES ASSUME w.ex[root].waiting = "human_review" PROVE FALSE
      OBVIOUS
    <3>1. w.ex[root].status = "waiting"
      BY <1>1, <1>6 DEF Row, Rows, ExStatus
    <3>2. \A p \in w.procs[root] : p.status \notin {"ready", "running", "cancelling"}
      BY <1>1, <3>1 DEF Row
    <3>3. ~Busy(v, root) BY <1>3, <3>2 DEF Busy
    <3>4. \A c \in MembersOf(v) : c \in Children /\ w.ex[c].status = "waiting"
      BY <1>1, <1>3 DEF Family, MembersOf
    <3>5. \A c \in MembersOf(v) : w.procs[c] = {}
      BY <1>1, <3>4, ExecNames DEF Row
    <3> QED BY <1>3, <1>12, <3>3, <3>4, <3>5
  <2>3. Row(v, root)
    <3>1. w.procs[root] \subseteq Processes BY <1>1 DEF Worlds
    <3>2. \A p \in v.procs[root] : p.status \notin {"ready", "running"}
      BY <1>8, <3>1, HaltFacts
    <3>3. w.ex[root].waiting \in {"none", "scatter_children"}
      BY <1>1, <1>6, <2>2 DEF Row, Rows, ExStatus
    <3> QED BY <1>7, <3>2, <3>3 DEF Row, TerminalStatus
  <2>4. Family(v)
    BY <1>3, <1>7, <1>10, <1>12, <2>2 DEF Family, TerminalStatus
  <2>5. GateOK(v)
    BY <1>7, <1>8, <1>9, <2>2 DEF GateOK
  <2>6. \A x \in Execs : Path(v, x) /\ Row(v, x)
    BY <1>3, <2>3, ExecNames
  <2> QED BY <1>3, <1>8, <2>1, <2>4, <2>5, <2>6 DEF SoundWorld
<1> QED BY <1>11, <1>12

\* A closed Process of the root, or a message, re-evaluates a cancelled root.
LEMMA ConvergeRoot ==
  ASSUME NEW w, w \in Worlds, \A x \in Execs : Path(w, x) /\ Row(w, x),
         GateOK(w), Unreviewed(w), w.ex[root].status = "cancelling",
         MembersOf(w) # {} => task.plan = "scatter" /\ ~Busy(w, root),
         \A c \in MembersOf(w) : w.ex[c].status \in {"cancelling"} \cup TerminalStatus
  PROVE  SoundWorld(ConvergeCancelledRoot(w))
<1>1. root \in Execs /\ \A c \in Children : c \in Execs BY ExecNames
<1>2. w.ex[root].waiting # "human_review" BY <1>1 DEF Row
<1>3. CASE ~Busy(w, root) /\ \A c \in MembersOf(w) : Ended(w, c)
  <2>1. RootMayEnd(w)
    BY <1>1, <1>2, <1>3 DEF RootMayEnd, GateOK
  <2>2. SoundWorld(EndAs(w, root, "cancelled", "none"))
    BY <2>1, EndRoot DEF TerminalStatus, ErrorNames
  <2> QED BY <1>3, <2>2 DEF ConvergeCancelledRoot
<1>4. CASE ~(~Busy(w, root) /\ \A c \in MembersOf(w) : Ended(w, c))
  <2>1. Family(w)
    BY <1>2, <1>4 DEF Family, TerminalStatus
  <2> QED BY <1>4, <2>1 DEF ConvergeCancelledRoot, SoundWorld
<1> QED BY <1>3, <1>4

-----------------------------------------------------------------------------
(* Processes change status. *)

\* The fields of a world in which Process p of x has status s.
LEMMA SetStatusFields ==
  ASSUME NEW w \in Worlds, NEW x \in Execs, NEW p \in w.procs[x], NEW s \in LiveStatus \cup TerminalStatus,
         NEW v, v = SetStatus(w, x, p, s)
  PROVE  /\ v \in Worlds /\ v.ex = w.ex /\ v.gate = w.gate /\ v.mail = w.mail
         /\ \A y \in Execs : y # x => v.procs[y] = w.procs[y]
         /\ \E n \in Processes :
              /\ n.step = p.step /\ n.digest = p.digest /\ n.status = s
              /\ v.procs[x] = (w.procs[x] \ {p}) \cup {n}
<1>1. w.procs \in [Execs -> SUBSET Processes] /\ p \in Processes BY DEF Worlds
<1>2. PICK n : n = [p EXCEPT !.status = s] OBVIOUS
<1>3. n \in Processes /\ n.step = p.step /\ n.digest = p.digest /\ n.status = s
  BY <1>1, <1>2 DEF Processes
<1>4. PICK f : f = [w.procs EXCEPT ![x] = (w.procs[x] \ {p}) \cup {n}] OBVIOUS
<1>5. /\ f \in [Execs -> SUBSET Processes] /\ f[x] = (w.procs[x] \ {p}) \cup {n}
      /\ \A y \in Execs : y # x => f[y] = w.procs[y]
  BY <1>1, <1>3, <1>4
<1>6. v = [w EXCEPT !.procs = f]
  BY <1>2, <1>4 DEF SetStatus
<1>7. v \in Worlds /\ v.procs = f /\ v.ex = w.ex /\ v.gate = w.gate /\ v.mail = w.mail
  BY <1>5, <1>6 DEF Worlds
<1> QED BY <1>3, <1>5, <1>7

\* A status change keeps the path, unless it revives a Process.
LEMMA SetStatusPath ==
  ASSUME NEW w \in Worlds, NEW x \in Execs, NEW p \in w.procs[x], Path(w, x),
         NEW n, n.step = p.step, n.digest = p.digest, n.status \in LiveStatus => p.status \in LiveStatus,
         NEW v, v.procs[x] = (w.procs[x] \ {p}) \cup {n}
  PROVE  Path(v, x)
<1>1. \A a, b \in v.procs[x] : a.step = b.step => a = b
  BY DEF Path
<1>2. ASSUME NEW a \in v.procs[x], a.status \in LiveStatus, NEW b \in v.procs[x] \ {a}
      PROVE  Beyond(x, b.step, a.step)
  <2>1. PICK a0 \in w.procs[x] : a0.step = a.step /\ a0.status \in LiveStatus BY <1>2
  <2>2. PICK b0 \in w.procs[x] : b0.step = b.step BY <1>2
  <2>3. a0 # b0 BY <1>1, <1>2, <2>1, <2>2
  <2>4. Beyond(x, b0.step, a0.step) BY <2>1, <2>3 DEF Path
  <2> QED BY <2>1, <2>2, <2>4
<1>3. Holds(v.procs[x], StartOf(x))
  BY DEF Holds, Path
<1> QED BY <1>1, <1>2, <1>3 DEF Path

\* Two Processes at work are one Process.
LEMMA OneLive ==
  ASSUME NEW w, NEW x, Path(w, x), NEW p \in w.procs[x], NEW q \in w.procs[x],
         p.status \in LiveStatus, q.status \in LiveStatus
  PROVE  p = q
<1> SUFFICES ASSUME p # q PROVE FALSE OBVIOUS
<1>1. Beyond(x, q.step, p.step) /\ Beyond(x, p.step, q.step) BY DEF Path
<1> QED BY <1>1, BeyondOrder

\* Closing the Process at work leaves an Execution with none, every Process of
\* it at or before the step just closed.
LEMMA Closed ==
  ASSUME NEW w, SoundWorld(w), NEW x \in Execs, NEW p \in w.procs[x], p.status \in LiveStatus,
         NEW s \in TerminalStatus, NEW v, v = SetStatus(w, x, p, s)
  PROVE  /\ v \in Worlds /\ v.ex = w.ex /\ v.gate = w.gate /\ v.mail = w.mail
         /\ \A y \in Execs : Path(v, y)
         /\ \A y \in Execs : y # x => Row(v, y) /\ v.procs[y] = w.procs[y]
         /\ ~Busy(v, x)
         /\ \A q \in v.procs[x] : q.step = p.step \/ Beyond(x, q.step, p.step)
         /\ \E n \in v.procs[x] : n.step = p.step /\ n.status = s
         /\ Unreviewed(v)
         /\ \A d : Holds(w.procs[x], d) => Holds(v.procs[x], d)
         /\ \A q \in v.procs[x] : q \in w.procs[x] \/ (q.step = p.step /\ q.status = s)
         /\ \A q \in w.procs[x] : q = p \/ q \in v.procs[x]
<1>1. w \in Worlds /\ (\A y \in Execs : Path(w, y) /\ Row(w, y)) /\ Unreviewed(w) BY DEF SoundWorld
<1>2. /\ v \in Worlds /\ v.ex = w.ex /\ v.gate = w.gate /\ v.mail = w.mail
      /\ \A y \in Execs : y # x => v.procs[y] = w.procs[y]
  BY <1>1, SetStatusFields
<1>3. PICK n \in Processes : /\ n.step = p.step /\ n.digest = p.digest /\ n.status = s
                             /\ v.procs[x] = (w.procs[x] \ {p}) \cup {n}
  BY <1>1, SetStatusFields
<1>4. s \notin LiveStatus BY DEF LiveStatus, TerminalStatus
<1>5. Path(v, x)
  BY <1>1, <1>3, SetStatusPath
<1>6. \A y \in Execs : y # x => Path(v, y) /\ Row(v, y)
  BY <1>1, <1>2, SameExecution
<1>7. \A q \in v.procs[x] : q.status \notin LiveStatus
  <2> SUFFICES ASSUME NEW q \in v.procs[x], q.status \in LiveStatus PROVE FALSE
    OBVIOUS
  <2>1. q \in w.procs[x] /\ q # p BY <1>3, <1>4
  <2> QED BY <1>1, <2>1, OneLive
<1>8. ~Busy(v, x) BY <1>7 DEF Busy, LiveStatus
<1>9. \A q \in v.procs[x] : q.step = p.step \/ Beyond(x, q.step, p.step)
  BY <1>1, <1>3 DEF Path
<1>10. Unreviewed(v)
  <2>1. x = root => \A q \in v.procs[x] : \E q0 \in w.procs[x] : q0.step = q.step
    BY <1>3
  <2>2. \A c \in Children : v.ex[c] = w.ex[c] /\ (w.procs[c] = {} => v.procs[c] = {})
    BY <1>2, <1>3, ExecNames
  <2>3. x # root => v.procs[root] = w.procs[root]
    BY <1>2, ExecNames
  <2> QED BY <1>1, <1>2, <2>1, <2>2, <2>3 DEF Unreviewed
<1>11. \A d : Holds(w.procs[x], d) => Holds(v.procs[x], d)
  BY <1>3 DEF Holds
<1> QED BY <1>2, <1>3, <1>5, <1>6, <1>8, <1>9, <1>10, <1>11

\* A running Process belongs to an active Execution, and the root's to a root
\* without children.
LEMMA RunningFacts ==
  ASSUME NEW w, SoundWorld(w), NEW x \in Execs, NEW p \in w.procs[x], p.status \in {"ready", "running"}
  PROVE  /\ w.ex[x].status = "active" /\ w.ex[x].waiting = "none" /\ Busy(w, x)
         /\ x = root => /\ MembersOf(w) = {} /\ w.gate # "open"
                        /\ w.gate # "none" => /\ w.gate = "released"
                                              /\ Holds(w.procs[root], ResumeOf)
                                              /\ Beyond(root, "human_review", p.step)
<1>1. w.ex[x].status = "active" /\ w.ex[x].waiting = "none"
  BY DEF SoundWorld, Row
<1>2. Busy(w, x) BY DEF Busy
<1>3. ASSUME x = root PROVE MembersOf(w) = {} /\ w.gate # "open"
  BY <1>1, <1>3 DEF SoundWorld, Family, GateOK
<1>4. ASSUME x = root, w.gate # "none"
      PROVE  w.gate = "released" /\ Holds(w.procs[root], ResumeOf) /\ Beyond(root, "human_review", p.step)
  BY <1>1, <1>4 DEF SoundWorld, GateOK, LiveStatus
<1> QED BY <1>1, <1>2, <1>3, <1>4

-----------------------------------------------------------------------------
(* Routes applied. *)

\* Under a required review no guard that lets content through matches.
LEMMA ReviewGuards ==
  ASSUME task \in AdmissibleTasks, task.review, NEW f, NEW a \in {"none", Admission(task.review)},
         NEW g \in {"admission_auto_markdown", "admission_auto_admitted",
                    "request_intent_rebuild", "request_intent_metadata_refresh"}
  PROVE  ~GuardMatches(g, Context(f, a))
<1>1. task.intent = "intake.ingest" BY DEF AdmissibleTasks
<1>2. a # "auto_admitted" BY DEF Admission
<1>3. /\ Context(f, a)["intent"] = "intake.ingest" /\ Context(f, a)["admission"] = a
      /\ Context(f, a)["autoMarkdown"] \in {a, "none"}
  BY <1>1 DEF Context
<1>4. /\ GuardFact["admission_auto_markdown"] = <<"autoMarkdown", "auto_admitted">>
      /\ GuardFact["admission_auto_admitted"] = <<"admission", "auto_admitted">>
      /\ GuardFact["request_intent_rebuild"] = <<"intent", "intake.rebuild">>
      /\ GuardFact["request_intent_metadata_refresh"] = <<"intent", "intake.update_metadata">>
  BY DEF GuardFact
<1>5. CASE g = "admission_auto_markdown" BY <1>2, <1>3, <1>4, <1>5 DEF GuardMatches
<1>6. CASE g = "admission_auto_admitted" BY <1>2, <1>3, <1>4, <1>6 DEF GuardMatches
<1>7. CASE g = "request_intent_rebuild" BY <1>3, <1>4, <1>7 DEF GuardMatches
<1>8. CASE g = "request_intent_metadata_refresh" BY <1>3, <1>4, <1>8 DEF GuardMatches
<1> QED BY <1>5, <1>6, <1>7, <1>8

\* Under a required review the root reaches generation and the join only from
\* its review or from generation itself.
LEMMA ReviewedRoutes ==
  ASSUME task \in AdmissibleTasks, task.review, NEW f, NEW a \in {"none", Admission(task.review)},
         NEW step, NEW on, NEW r, Leads(r, root, step, on, Context(f, a)),
         r.to \in GenerationSteps \cup {"scatter_children_join"}
  PROVE  step \in GenerationSteps \cup {"human_review"}
<1>1. r \in PlanBook[PlanName(root)].routes /\ ReviewShape(PlanName(root))
  BY PlanKnown DEF Leads
<1>2. \/ r.from \in GenerationSteps \cup {"human_review"}
      \/ r.guard \in {"admission_auto_markdown", "admission_auto_admitted",
                      "request_intent_rebuild", "request_intent_metadata_refresh"}
  BY <1>1 DEF ReviewShape
<1>3. GuardMatches(r.guard, Context(f, a)) \/ GuardMatches(r.guard, Context(NoFact, "none"))
  BY DEF Leads
<1>4. r.from \in GenerationSteps \cup {"human_review"}
  BY <1>2, <1>3, ReviewGuards
<1>5. r.from = step
  BY <1>4 DEF Leads, GenerationSteps
<1> QED BY <1>4, <1>5

\* A world of the right type holds no Process of a step without a name.
LEMMA NamedSteps ==
  ASSUME NEW w \in Worlds, NEW x \in Execs
  PROVE  "none" \notin Succeeded(w.procs[x]) /\ \A p \in w.procs[x] : p.step \in WorkSteps /\ p.step \in StepNames
BY DEF Worlds, Processes, Succeeded, WorkSteps, StepNames

\* The root applies the route its last step decided.
LEMMA EnterRoot ==
  ASSUME task \in AdmissibleTasks, NEW w, MidRoot(w),
         NEW step \in StepNames, NEW on \in Outcomes, NEW f, NEW c, StagingOK(c), NEW code \in ErrorNames,
         NEW land, land = Landing(root, step, on, Context(f, c.admission), w.procs[root]),
         \A q \in w.procs[root] : q.step = step \/ Beyond(root, q.step, step),
         \/ \E q \in w.procs[root] : q.step = step
         \/ w.procs[root] = {} /\ step = "start" /\ on = "always" /\ w.gate = "none",
         w.gate # "none" =>
           w.gate = "released" /\ Holds(w.procs[root], ResumeOf) /\ Beyond(root, "human_review", step),
         MembersOf(w) # {} =>
           /\ step = "accept_snapshot" /\ on = "succeeded"
           /\ c.admission = "human_review_required" => \A d \in MembersOf(w) : w.ex[d].status = "waiting"
  PROVE  SoundWorld(Enter(w, root, land, code, c))
<1>1. w \in Worlds /\ Unreviewed(w) /\ root \in Execs /\ (MembersOf(w) # {} => task.plan = "scatter")
  BY ExecNames DEF MidRoot, RootMayEnd
<1>2. "none" \notin Succeeded(w.procs[root]) BY <1>1, NamedSteps
<1>3. land.error \in ErrorNames
  BY <1>2, LandingFacts
<1>4. CASE land.error # "none"
  BY <1>3, <1>4, FailRoot DEF Enter
<1>5. CASE land.error = "none"
  <2>1. GoodLanding(root, step, on, Context(f, c.admission), w.procs[root], land)
    BY <1>2, <1>5, LandingFacts
  <2>2. PICK r : Leads(r, root, step, on, Context(f, c.admission)) /\ r.to = land.to
    BY <2>1 DEF GoodLanding
  <2>3. r \in PlanBook[PlanName(root)].routes /\ PlanShape(PlanName(root))
    BY <2>2, PlanKnown DEF Leads
  <2>4. Beyond(root, step, land.to) /\ land.to \in AllSteps \ {"none"} /\ land.digest \in Digests
    BY <2>1 DEF GoodLanding
  <2>5. \A q \in w.procs[root] : Beyond(root, q.step, land.to)
    BY <2>4, BeyondOrder
  <2>6. MembersOf(w) # {} => land.to \in {"human_review", "scatter_children_join", "failed"}
    <3> SUFFICES ASSUME MembersOf(w) # {} PROVE land.to \in {"human_review", "scatter_children_join", "failed"}
      OBVIOUS
    <3>1. PlanOf(root) = PlanBook["scatter"] /\ step = "accept_snapshot" /\ on = "succeeded"
      BY <1>1 DEF PlanOf
    <3>2. \A q \in PlanOf(root).routes : q.from = "accept_snapshot" /\ q.on = "succeeded" =>
            q.to \in {"human_review", "scatter_children_join", "failed"}
      BY <3>1, ShapeAssumption DEF ScatterShape
    <3> QED BY <2>2, <3>1, <3>2 DEF Leads
  <2>7. ASSUME task.review, w.gate # "released",
               land.to \in GenerationSteps \cup {"scatter_children_join"}
        PROVE  FALSE
    <3>1. step \in GenerationSteps \cup {"human_review"}
      BY <2>2, <2>7, ReviewedRoutes DEF StagingOK
    <3>2. PICK q \in w.procs[root] : q.step = step
      BY <3>1 DEF GenerationSteps
    <3>3. step # "human_review" BY <1>1, <3>2, NamedSteps DEF WorkSteps
    <3> QED BY <1>1, <2>7, <3>1, <3>2, <3>3 DEF Unreviewed
  <2>8. CASE land.to \in TerminalSteps
    <3>1. CASE land.to = "succeeded"
      <4>1. MembersOf(w) = {} BY <2>6, <3>1
      <4> QED BY <1>5, <2>8, <3>1, <4>1, SucceedRoot DEF Enter
    <3>2. CASE land.to # "succeeded"
      <4>1. land.to \in {"failed", "cancelled"} BY <2>8, <3>2 DEF TerminalSteps
      <4> QED BY <1>5, <2>8, <4>1, FailRoot DEF Enter
    <3> QED BY <3>1, <3>2
  <2>9. CASE land.to = "human_review"
    <3>1. w.gate = "none" BY <2>4, <2>9, BeyondOrder
    <3>2. step # "start"
      <4>1. \A q \in PlanOf(root).routes : q.from = "start" => q.to \notin {"human_review", "selected_clean"}
        BY <2>3, PlanKnown DEF PlanShape, ResumeRoute
      <4> QED BY <2>2, <2>9, <4>1 DEF Leads
    <3>3. w.procs[root] # {} BY <3>2
    <3>4. SoundWorld(OpenGate(w, root, c, land.seal))
      BY <2>5, <2>9, <3>1, <3>3, ReviewRoot
    <3> QED BY <1>5, <2>9, <3>4 DEF Enter, TerminalSteps
  <2>10. CASE land.to = "scatter_children_join"
    <3>1. task.review => w.gate = "released" BY <2>7, <2>10
    <3>2. SoundWorld(JoinChildren(w)) BY <3>1, JoinRoot
    <3> QED BY <1>5, <2>10, <3>2 DEF Enter, TerminalSteps
  <2>11. CASE land.to \notin TerminalSteps \cup {"human_review", "scatter_children_join"}
    <3>1. MembersOf(w) = {} BY <2>6, <2>11 DEF TerminalSteps
    <3>2. land.to \in WorkSteps BY <2>4, <2>11 DEF WorkSteps
    <3>3. w.procs[root] = {} => land.to = StartOf(root).to /\ land.digest = StartOf(root).digest
      <4> SUFFICES ASSUME w.procs[root] = {}
                   PROVE  land.to = StartOf(root).to /\ land.digest = StartOf(root).digest
        OBVIOUS
      <4> DEFINE ctx == Context(f, c.admission)
                 d == RouteDecision(PlanOf(root), step, on, ctx)
      <4>1. step = "start" /\ on = "always" OBVIOUS
      <4>2. d = StartOf(root)
        BY <4>1, FrozenStart DEF ContextOf
      <4>3. ~StrategyUnreachable(d.to, ctx)
        BY <1>5, <4>1 DEF Landing, Land, Stopped
      <4>4. d.to # "selected_clean"
        <5>1. \A q \in PlanOf(root).routes : q.from = "start" => q.to # "selected_clean"
          BY <2>3, PlanKnown DEF PlanShape, ResumeRoute
        <5> QED BY <4>1, <5>1, RouteTaken
      <4>5. land.to = d.to /\ land.digest = d.digest
        BY <4>3, <4>4, DirectLanding DEF Landing
      <4> QED BY <4>2, <4>5
    <3>4. w.gate # "none" =>
            /\ w.gate = "released" /\ Beyond(root, "human_review", land.to)
            /\ Holds(w.procs[root], ResumeOf)
      BY <2>4, BeyondOrder
    <3>5. SoundWorld(Materialize(w, root, land.to, land.digest))
      BY <2>4, <2>5, <2>7, <3>1, <3>2, <3>3, <3>4, MoveRoot
    <3> QED BY <1>5, <2>11, <3>5 DEF Enter
  <2> QED BY <2>8, <2>9, <2>10, <2>11
<1> QED BY <1>4, <1>5

\* A child applies the route its last step decided.
LEMMA EnterChild ==
  ASSUME task \in AdmissibleTasks, NEW w, NEW x \in Children, MidChild(w, x), w.ex[x].status = "active",
         NEW step \in StepNames, NEW on \in Outcomes, NEW f, NEW a, NEW c, NEW code \in ErrorNames,
         NEW land, land = Landing(x, step, on, ContextOf(x, f, a), w.procs[x]),
         \A q \in w.procs[x] : q.step = step \/ Beyond(x, q.step, step),
         w.procs[x] = {} => step = "start" /\ on = "always"
  PROVE  SoundWorld(Enter(w, x, land, code, c))
<1>1. w \in Worlds /\ x \in Execs /\ x # root BY ExecNames DEF MidChild
<1>2. "none" \notin Succeeded(w.procs[x]) BY <1>1, NamedSteps
<1>3. land.error \in ErrorNames BY <1>2, LandingFacts
<1>4. ASSUME NEW s \in TerminalStatus, NEW e \in ErrorNames
      PROVE  SoundWorld(Terminalize(w, x, s, e))
  <2>1. SoundWorld(NotifyParent(EndAs(w, x, s, e), x)) BY <1>4, EndChild
  <2> QED BY <1>1, <2>1 DEF Terminalize
<1>5. CASE land.error # "none"
  BY <1>3, <1>4, <1>5 DEF Enter, TerminalStatus
<1>6. CASE land.error = "none"
  <2> DEFINE ctx == ContextOf(x, f, a)
  <2>1. GoodLanding(x, step, on, ctx, w.procs[x], land)
    BY <1>2, <1>6, LandingFacts
  <2>2. PICK r : Leads(r, x, step, on, ctx) /\ r.to = land.to
    BY <2>1 DEF GoodLanding
  <2>3. PlanOf(x) = PlanBook["child"] BY <1>1 DEF PlanOf
  <2>4. \A q \in PlanOf(x).routes : q.to \notin ControlSteps
    BY <2>3, ShapeAssumption DEF ScatterShape
  <2>5. land.to \notin {"human_review", "scatter_children_join"}
    BY <2>2, <2>4 DEF Leads, ControlSteps
  <2>6. Beyond(x, step, land.to) /\ land.to \in AllSteps \ {"none"} /\ land.digest \in Digests
    BY <2>1 DEF GoodLanding
  <2>7. CASE land.to \in TerminalSteps
    BY <1>4, <1>6, <2>7 DEF Enter, TerminalSteps, TerminalStatus
  <2>8. CASE land.to \notin TerminalSteps
    <3>1. land.to \in WorkSteps BY <2>5, <2>6, <2>8 DEF WorkSteps
    <3>2. \A q \in w.procs[x] : Beyond(x, q.step, land.to) BY <2>6, BeyondOrder
    <3>3. w.procs[x] = {} => land.to = StartOf(x).to /\ land.digest = StartOf(x).digest
      <4> SUFFICES ASSUME w.procs[x] = {}
                   PROVE  land.to = StartOf(x).to /\ land.digest = StartOf(x).digest
        OBVIOUS
      <4> DEFINE d == RouteDecision(PlanOf(x), step, on, ctx)
      <4>1. d = StartOf(x) BY FrozenStart
      <4>2. ~StrategyUnreachable(d.to, ctx)
        BY <1>6 DEF Landing, Land, Stopped
      <4>3. d.to # "selected_clean"
        BY <2>4, RouteTaken DEF ControlSteps
      <4>4. land.to = d.to /\ land.digest = d.digest
        BY <4>2, <4>3, DirectLanding DEF Landing
      <4> QED BY <4>1, <4>4
    <3>4. SoundWorld(Materialize(w, x, land.to, land.digest))
      BY <2>6, <3>1, <3>2, <3>3, MoveChild
    <3> QED BY <1>6, <2>5, <2>8, <3>4 DEF Enter
  <2> QED BY <2>7, <2>8
<1> QED BY <1>5, <1>6

\* A decided gate resumes the root, or ends it.
LEMMA EnterResume ==
  ASSUME task \in AdmissibleTasks, NEW w, MidRoot(w), w.gate \in {"released", "rejected"},
         w.procs[root] # {}, \A q \in w.procs[root] : Beyond(root, q.step, "human_review"),
         NEW f, NEW a, NEW c, NEW code \in ErrorNames,
         NEW on, on = (IF w.gate = "released" THEN "succeeded" ELSE "failed"),
         NEW land, land = Landing(root, "human_review", on, Context(f, a), w.procs[root])
  PROVE  SoundWorld(Enter(w, root, land, code, c))
<1>1. w \in Worlds /\ root \in Execs /\ (MembersOf(w) # {} => task.plan = "scatter")
  BY ExecNames DEF MidRoot, RootMayEnd
<1>2. "none" \notin Succeeded(w.procs[root]) BY <1>1, NamedSteps
<1>3. on \in Outcomes /\ "human_review" \in StepNames BY DEF Outcomes, StepNames
<1>4. land.error \in ErrorNames BY <1>2, <1>3, LandingFacts
<1>5. CASE land.error # "none"
  BY <1>4, <1>5, FailRoot DEF Enter
<1>6. CASE land.error = "none"
  <2> DEFINE ctx == Context(f, a)
  <2>1. GoodLanding(root, "human_review", on, ctx, w.procs[root], land)
    BY <1>2, <1>3, <1>6, LandingFacts
  <2>2. PICK r : Leads(r, root, "human_review", on, ctx) /\ r.to = land.to
    BY <2>1 DEF GoodLanding
  <2>3. PlanShape(PlanName(root)) /\ PlanOf(root) = PlanBook[PlanName(root)]
    BY PlanKnown
  <2>4. Beyond(root, "human_review", land.to) /\ land.to \in AllSteps \ {"none"} /\ land.digest \in Digests
    BY <2>1 DEF GoodLanding
  <2>5. CASE w.gate = "rejected"
    <3>1. on = "failed" BY <2>5
    <3>2. \A q \in PlanOf(root).routes : q.on = "failed" => q.to = "failed"
      BY <2>3 DEF PlanShape
    <3>3. land.to = "failed" BY <2>2, <3>1, <3>2 DEF Leads
    <3> QED BY <1>6, <3>3, FailRoot DEF Enter, TerminalSteps
  <2>6. CASE w.gate = "released"
    <3>1. on = "succeeded" BY <2>6
    <3>2. \A q \in PlanOf(root).routes : q.from = "human_review" /\ q.on = "succeeded" =>
            q.to \notin CleanSteps \cup TerminalSteps \cup {"human_review", "selected_clean"}
      BY <2>3 DEF PlanShape, ResumeRoute
    <3>3. land.to \notin TerminalSteps \cup {"human_review"}
      BY <2>2, <3>1, <3>2 DEF Leads
    <3>4. CASE land.to = "scatter_children_join"
      <4>1. SoundWorld(JoinChildren(w)) BY <2>6, JoinRoot
      <4> QED BY <1>6, <3>3, <3>4, <4>1 DEF Enter
    <3>5. CASE land.to # "scatter_children_join"
      <4>1. MembersOf(w) = {}
        <5> SUFFICES ASSUME MembersOf(w) # {} PROVE FALSE OBVIOUS
        <5>1. PlanOf(root) = PlanBook["scatter"] BY <1>1 DEF PlanOf
        <5>2. \A q \in PlanOf(root).routes : q.from = "human_review" /\ q.on = "succeeded" =>
                q.to = "scatter_children_join"
          BY <5>1, ShapeAssumption DEF ScatterShape
        <5> QED BY <2>2, <3>1, <3>5, <5>2 DEF Leads
      <4>2. land.to \in WorkSteps BY <2>4, <3>3, <3>5 DEF WorkSteps
      <4>3. \A q \in w.procs[root] : Beyond(root, q.step, land.to) BY <2>4, BeyondOrder
      <4>4. land.to = ResumeOf.to /\ land.digest = ResumeOf.digest
        <5> DEFINE d == RouteDecision(PlanOf(root), "human_review", on, ctx)
        <5>1. d = ResumeOf BY <3>1, FrozenResume
        <5>2. ~StrategyUnreachable(d.to, ctx)
          BY <1>6 DEF Landing, Land, Stopped
        <5>3. d.to # "selected_clean"
          BY <3>1, <3>2, RouteTaken
        <5>4. land.to = d.to /\ land.digest = d.digest
          BY <1>3, <5>2, <5>3, DirectLanding DEF Landing
        <5> QED BY <5>1, <5>4
      <4>5. SoundWorld(Materialize(w, root, land.to, land.digest))
        BY <2>4, <2>6, <4>1, <4>2, <4>3, <4>4, MoveRoot
      <4> QED BY <1>6, <3>3, <3>5, <4>5 DEF Enter
    <3> QED BY <3>4, <3>5
  <2> QED BY <2>5, <2>6
<1> QED BY <1>5, <1>6

-----------------------------------------------------------------------------
(* Redelivery: a step looked up again is found as it was. *)

\* A message that comes again for a step already materialized changes nothing.
LEMMA Redelivered ==
  ASSUME task \in AdmissibleTasks, NEW x \in Execs, NEW w \in Worlds,
         NEW step \in StepNames, NEW on \in Outcomes, NEW ctx, NEW code, NEW c,
         NEW d, d = RouteDecision(PlanOf(x), step, on, ctx),
         d.to \notin CleanSteps \cup {"selected_clean"},
         Holds(w.procs[x], d), InputsOf(x, w.procs[x], selected, sealed),
         NEW land, land = Landing(x, step, on, ctx, w.procs[x])
  PROVE  Enter(w, x, land, code, c) = w
<1>1. PICK p \in w.procs[x] : p.step = d.to /\ p.digest = d.digest BY DEF Holds
<1>2. d.to \in WorkSteps BY <1>1, NamedSteps
<1>3. ~StrategyUnreachable(d.to, ctx) BY DEF StrategyUnreachable, CleanSteps
<1>4. SealedBy(x, d.to) = sealed BY DEF SealedBy
<1>5. Unbound(x, d.to, Done(w.procs[x], selected)) = {} /\ (NeedsSeal(d.to) => sealed # "none")
  BY <1>1 DEF InputsOf
<1>6. ArrivalError(x, d.to, Done(w.procs[x], selected), sealed) = "none"
  BY <1>2, <1>5 DEF ArrivalError, WorkSteps
<1>7. land.to = d.to /\ land.digest = d.digest /\ land.error = "none"
  BY <1>3, <1>4, <1>6, DirectLanding DEF Landing
<1>8. Materialize(w, x, land.to, land.digest) = w
  BY <1>1, <1>7 DEF Materialize
<1> QED BY <1>2, <1>7, <1>8 DEF Enter, WorkSteps

\* The step an Execution starts at, and the one a release resumes it at, is
\* neither a cleaner nor the selected output.
LEMMA PlainStarts ==
  ASSUME task \in AdmissibleTasks, NEW x
  PROVE  /\ StartOf(x).to \notin CleanSteps \cup {"selected_clean"}
         /\ ResumeOf.to \notin CleanSteps \cup {"selected_clean"}
<1>1. \A y, r : r \in PlanOf(y).routes /\ ResumeRoute(r) => r.to \notin CleanSteps \cup {"selected_clean"}
  BY PlanKnown DEF PlanShape
<1>2. "none" \notin CleanSteps
  BY DEF CleanSteps, CleanStepStrategy
<1>3. StartOf(x).to = "none" \/ \E r \in PlanOf(x).routes : r.from = "start" /\ r.to = StartOf(x).to
  BY RouteTaken DEF StartOf
<1>4. \/ ResumeOf.to = "none"
      \/ \E r \in PlanOf(root).routes : r.from = "human_review" /\ r.on = "succeeded" /\ r.to = ResumeOf.to
  BY RouteTaken DEF ResumeOf
<1> QED BY <1>1, <1>2, <1>3, <1>4 DEF ResumeRoute

\* A delivered message, acknowledged or not.
Acked(o, m, acked) == [o EXCEPT !.mail = IF acked THEN @ \ {m} ELSE @]

\* The fields of a world after a delivery.
LEMMA AckFields ==
  ASSUME NEW o \in Worlds, NEW m, NEW acked, NEW w, w = Acked(o, m, acked)
  PROVE  /\ w \in Worlds /\ w.ex = o.ex /\ w.procs = o.procs /\ w.gate = o.gate
         /\ w.mail \subseteq o.mail /\ \A n \in o.mail : n # m => n \in w.mail
<1>1. PICK k : k = (IF acked THEN o.mail \ {m} ELSE o.mail) OBVIOUS
<1>2. w = [o EXCEPT !.mail = k] BY <1>1 DEF Acked
<1>3. k \subseteq o.mail /\ \A n \in o.mail : n # m => n \in k BY <1>1
<1>4. k \in SUBSET ({"wake", "gate"} \X Execs) BY <1>3 DEF Worlds
<1> QED BY <1>2, <1>3, <1>4 DEF Worlds

\* A delivered wake leaves everything sound but an Execution it has to start.
LEMMA WakeDelivered ==
  ASSUME NEW o, SoundWorld(o), NEW x \in Execs, NEW acked, NEW w, w = Acked(o, <<"wake", x>>, acked)
  PROVE  /\ w \in Worlds /\ \A y \in Execs : Path(w, y)
         /\ \A y \in Execs : y # x => Row(w, y)
         /\ GateOK(w) /\ Family(w) /\ Unreviewed(w)
         /\ Busy(w, x) \/ w.ex[x].status # "active" => SoundWorld(w)
<1>1. o \in Worlds /\ (\A y \in Execs : Path(o, y) /\ Row(o, y)) /\ GateOK(o) /\ Family(o) /\ Unreviewed(o)
  BY DEF SoundWorld
<1>2. /\ w \in Worlds /\ w.ex = o.ex /\ w.procs = o.procs /\ w.gate = o.gate
      /\ w.mail \subseteq o.mail /\ \A n \in o.mail : n # <<"wake", x>> => n \in w.mail
  BY <1>1, AckFields
<1>3. \A y \in Execs : Path(w, y) BY <1>1, <1>2 DEF Path
<1>4. ASSUME NEW y \in Execs, y # x PROVE Row(w, y)
  <2>1. <<"wake", y>> \in o.mail => <<"wake", y>> \in w.mail BY <1>2, <1>4
  <2>2. Path(o, y) /\ Row(o, y) /\ w.procs[y] = o.procs[y] /\ w.ex[y] = o.ex[y] BY <1>1, <1>2
  <2> QED BY <2>1, <2>2, SameExecution
<1>5. <<"gate", root>> \in o.mail <=> <<"gate", root>> \in w.mail
  <2>1. <<"gate", root>> # <<"wake", x>> OBVIOUS
  <2> QED BY <1>2, <2>1
<1>6. GateOK(w) BY <1>1, <1>2, <1>5 DEF GateOK
<1>7. MembersOf(w) = MembersOf(o) /\ Busy(w, root) = Busy(o, root) /\ Busy(w, x) = Busy(o, x)
  BY <1>2 DEF MembersOf, Busy
<1>8. Family(w) BY <1>1, <1>2, <1>7 DEF Family, Ended, Published
<1>9. Unreviewed(w) BY <1>1, <1>2 DEF Unreviewed
<1>10. ASSUME Busy(w, x) \/ w.ex[x].status # "active" PROVE SoundWorld(w)
  <2>1. Row(w, x)
    <3>1. w.procs[x] = o.procs[x] /\ w.ex[x] = o.ex[x] /\ Row(o, x) BY <1>1, <1>2
    <3> QED BY <1>7, <1>10, <3>1 DEF Row
  <2>2. \A y \in Execs : Path(w, y) /\ Row(w, y) BY <1>3, <1>4, <2>1
  <2> QED BY <1>2, <1>6, <1>8, <1>9, <2>2 DEF SoundWorld
<1> QED BY <1>2, <1>3, <1>4, <1>6, <1>8, <1>9, <1>10

\* A wake, however often it comes, starts an Execution that has not started,
\* looks a cancelled root over, and changes nothing else.
LEMMA WakeSound ==
  ASSUME task \in AdmissibleTasks, NEW o, SoundWorld(o), NEW x \in Execs, NEW acked,
         NEW f, NEW c, StagingOK(c), InputsOf(x, o.procs[x], selected, sealed),
         NEW w, w = Acked(o, <<"wake", x>>, acked),
         NEW land, land = Landing(x, "start", "always", ContextOf(x, f, c.admission), o.procs[x])
  PROVE  SoundWorld(IF o.ex[x].status = "cancelling" /\ x = root THEN ConvergeCancelledRoot(w)
                    ELSE IF o.ex[x].waiting = "scatter_children" THEN ConvergeScatterRoot(w)
                    ELSE IF o.ex[x].status = "active" THEN Enter(w, x, land, "none", c)
                    ELSE w)
<1>1. /\ w \in Worlds /\ \A y \in Execs : Path(w, y)
      /\ \A y \in Execs : y # x => Row(w, y)
      /\ GateOK(w) /\ Family(w) /\ Unreviewed(w)
      /\ Busy(w, x) \/ w.ex[x].status # "active" => SoundWorld(w)
  BY WakeDelivered
<1>2. o \in Worlds /\ Row(o, x) /\ Path(o, x) /\ GateOK(o) BY DEF SoundWorld
<1>3. w.ex = o.ex /\ w.procs = o.procs /\ w.gate = o.gate BY <1>2, AckFields
<1>4. CASE o.ex[x].status = "cancelling" /\ x = root
  <2>1. SoundWorld(w) BY <1>1, <1>3, <1>4
  <2>2. SoundWorld(ConvergeCancelledRoot(w))
    <3>1. /\ MembersOf(w) # {} => task.plan = "scatter" /\ ~Busy(w, root)
          /\ \A d \in MembersOf(w) : w.ex[d].status \in {"cancelling"} \cup TerminalStatus
      BY <1>1, <1>3, <1>4 DEF Family
    <3> QED BY <1>3, <1>4, <2>1, <3>1, ConvergeRoot DEF SoundWorld
  <2> QED BY <1>4, <2>2
<1>5. CASE ~(o.ex[x].status = "cancelling" /\ x = root) /\ o.ex[x].waiting = "scatter_children"
  <2>1. o.ex[x].status \in ExStatus BY <1>2 DEF Worlds, Rows
  <2>2. x = root /\ o.ex[x].status = "waiting" BY <1>2, <1>5, <2>1 DEF Row, ExStatus
  <2>3. SoundWorld(w) BY <1>1, <1>3, <2>2
  <2>4. \E d \in MembersOf(w) : ~Ended(w, d) BY <1>1, <1>3, <1>5, <2>2 DEF Family
  <2> QED BY <1>5, <2>3, <2>4 DEF ConvergeScatterRoot
<1>6. CASE ~(o.ex[x].status = "cancelling" /\ x = root) /\ o.ex[x].waiting # "scatter_children"
           /\ o.ex[x].status = "active"
  <2> SUFFICES SoundWorld(Enter(w, x, land, "none", c)) BY <1>6
  <2>1. "start" \in StepNames /\ "always" \in Outcomes /\ "none" \in ErrorNames
    BY DEF StepNames, Outcomes, ErrorNames
  <2>2. land = Landing(x, "start", "always", ContextOf(x, f, c.admission), w.procs[x]) BY <1>3
  <2>3. CASE Busy(w, x)
    <3>1. Holds(w.procs[x], StartOf(x)) BY <1>1, <2>3 DEF Path, Busy
    <3>2. RouteDecision(PlanOf(x), "start", "always", ContextOf(x, f, c.admission)) = StartOf(x)
      BY FrozenStart
    <3>3. Enter(w, x, land, "none", c) = w
      BY <1>1, <1>3, <2>1, <2>2, <3>1, <3>2, PlainStarts, Redelivered
    <3> QED BY <1>1, <2>3, <3>3
  <2>4. CASE ~Busy(w, x)
    <3>1. w.procs[x] = {} /\ w.ex[x].status = "active" /\ w.ex[x].waiting = "none"
      <4>1. Busy(w, x) = Busy(o, x) BY <1>3 DEF Busy
      <4> QED BY <1>2, <1>3, <1>6, <2>4, <4>1 DEF Row
    <3>2. CASE x = root
      <4>1. MembersOf(w) = {} BY <1>1, <3>1, <3>2 DEF Family
      <4>2. w.gate = "none" BY <1>1, <3>1, <3>2 DEF GateOK, Holds
      <4>3. \A d \in Children : Row(w, d) BY <1>1, <3>2, ExecNames
      <4>4. MidRoot(w)
        BY <1>1, <2>4, <3>1, <3>2, <4>1, <4>2, <4>3 DEF MidRoot, RootMayEnd, GateOK
      <4>5. land = Landing(root, "start", "always", Context(f, c.admission), w.procs[root])
        BY <2>2, <3>2 DEF ContextOf
      <4> QED BY <2>1, <3>1, <3>2, <4>1, <4>2, <4>4, <4>5, EnterRoot
    <3>3. CASE x # root
      <4>1. x \in Children BY <3>3, ExecNames
      <4>2. MidChild(w, x) BY <1>1, <2>4, <3>1 DEF MidChild
      <4> QED BY <2>1, <2>2, <3>1, <4>1, <4>2, EnterChild
    <3> QED BY <3>2, <3>3
  <2> QED BY <2>3, <2>4
<1>7. CASE ~(o.ex[x].status = "cancelling" /\ x = root) /\ o.ex[x].waiting # "scatter_children"
           /\ o.ex[x].status # "active"
  BY <1>1, <1>3, <1>7
<1> QED BY <1>4, <1>5, <1>6, <1>7

\* An active root is not changed by being made active.
LEMMA StillActive ==
  ASSUME NEW w \in Worlds, w.ex[root].status = "active", w.ex[root].waiting = "none"
  PROVE  RootAs(w, "active", "none") = w
<1>0. PICK S, W, E, B, C, D : /\ S = ExStatus /\ W = WaitKinds /\ E = ErrorNames
                              /\ B = [Execs -> SUBSET Processes] /\ C = GateStatus
                              /\ D = SUBSET ({"wake", "gate"} \X Execs)
  BY Zenon
<1>1. /\ w \in [ex : [Execs -> [status : S, waiting : W, error : E]], procs : B, gate : C, mail : D]
      /\ root \in Execs
  BY <1>0, ExecNames DEF Worlds, Rows
<1>2. PICK e : e = [[w.ex EXCEPT ![root].status = "active"] EXCEPT ![root].waiting = "none"] OBVIOUS
<1>3. [[w.ex[root] EXCEPT !.status = "active"] EXCEPT !.waiting = "none"] = w.ex[root]
  <2>1. w.ex[root] \in [status : S, waiting : W, error : E] BY <1>1
  <2> QED BY <2>1
<1>4. e = w.ex
  BY <1>1, <1>2, <1>3
<1>5. RootAs(w, "active", "none") = [w EXCEPT !.ex = e]
  BY <1>1, <1>2 DEF RootAs
<1> QED BY <1>1, <1>4, <1>5

\* A gate's decision, however often it comes, resumes or ends the root that
\* waits for it, and changes nothing else.
LEMMA GateSound ==
  ASSUME task \in AdmissibleTasks, NEW o, SoundWorld(o), <<"gate", root>> \in o.mail, NEW acked,
         NEW f, NEW c, InputsOf(root, o.procs[root], selected, sealed),
         NEW w, w = Acked(o, <<"gate", root>>, acked),
         NEW land, land = Landing(root, "human_review", IF o.gate = "released" THEN "succeeded" ELSE "failed",
                                  Context(f, c.admission), o.procs[root])
  PROVE  SoundWorld(IF o.ex[root].status = "active" \/ o.ex[root].waiting = "human_review"
                    THEN Enter(RootAs(w, "active", "none"), root, land, "gate-rejected", c) ELSE w)
<1>1. /\ o \in Worlds /\ (\A y \in Execs : Path(o, y) /\ Row(o, y)) /\ GateOK(o) /\ Family(o) /\ Unreviewed(o)
      /\ root \in Execs
  BY ExecNames DEF SoundWorld
<1>2. /\ w \in Worlds /\ w.ex = o.ex /\ w.procs = o.procs /\ w.gate = o.gate
      /\ w.mail \subseteq o.mail /\ \A n \in o.mail : n # <<"gate", root>> => n \in w.mail
  BY <1>1, AckFields
<1>3. o.gate \in {"released", "rejected"} BY <1>1 DEF GateOK
<1>4. ASSUME NEW y \in Execs PROVE Path(w, y) /\ Row(w, y)
  <2>1. <<"wake", y>> \in o.mail => <<"wake", y>> \in w.mail
    <3>1. <<"wake", y>> # <<"gate", root>> OBVIOUS
    <3> QED BY <1>2, <3>1
  <2>2. Path(o, y) /\ Row(o, y) /\ w.procs[y] = o.procs[y] /\ w.ex[y] = o.ex[y] BY <1>1, <1>2, <1>4
  <2> QED BY <2>1, <2>2, SameExecution
<1>5. MembersOf(w) = MembersOf(o) /\ Busy(w, root) = Busy(o, root)
  BY <1>2 DEF MembersOf, Busy
<1>6. Family(w) BY <1>1, <1>2, <1>5 DEF Family, Ended, Published
<1>7. Unreviewed(w) BY <1>1, <1>2 DEF Unreviewed
<1>8. CASE o.ex[root].waiting # "human_review"
  <2>1. GateOK(w) BY <1>1, <1>2, <1>8 DEF GateOK
  <2>2. SoundWorld(w) BY <1>2, <1>4, <1>6, <1>7, <2>1 DEF SoundWorld
  <2>3. CASE o.ex[root].status = "active"
    <3>1. w.ex[root].status = "active" /\ w.ex[root].waiting = "none"
      BY <1>1, <1>2, <2>3 DEF Row
    <3>2. RootAs(w, "active", "none") = w BY <1>2, <3>1, StillActive
    <3>3. o.gate = "released" /\ Holds(w.procs[root], ResumeOf) BY <1>1, <1>2, <1>3, <2>3 DEF GateOK
    <3>4. land = Landing(root, "human_review", "succeeded", Context(f, c.admission), w.procs[root])
      BY <1>2, <3>3
    <3>5. RouteDecision(PlanOf(root), "human_review", "succeeded", Context(f, c.admission)) = ResumeOf
      BY FrozenResume
    <3>6. "human_review" \in StepNames /\ "succeeded" \in Outcomes BY DEF StepNames, Outcomes
    <3>7. Enter(w, root, land, "gate-rejected", c) = w
      BY <1>1, <1>2, <3>3, <3>4, <3>5, <3>6, PlainStarts, Redelivered
    <3> QED BY <2>2, <2>3, <3>2, <3>7
  <2>4. CASE o.ex[root].status # "active"
    BY <1>8, <2>2, <2>4
  <2> QED BY <2>3, <2>4
<1>9. CASE o.ex[root].waiting = "human_review"
  <2>1. PICK u : u = RootAs(w, "active", "none") OBVIOUS
  <2>2. o.ex[root].status = "waiting"
    <3>1. o.ex[root].status \in ExStatus BY <1>1 DEF Worlds, Rows
    <3> QED BY <1>1, <1>9, <3>1 DEF Row, ExStatus
  <2>3. /\ u \in Worlds /\ u.gate = w.gate /\ u.procs = w.procs /\ u.mail = w.mail
        /\ u.ex[root].status = "active" /\ u.ex[root].waiting = "none"
        /\ \A x \in Execs : x # root => u.ex[x] = w.ex[x]
    <3>1. w.gate \in GateStatus /\ "active" \in ExStatus /\ "none" \in WaitKinds
      BY <1>2 DEF Worlds, ExStatus, WaitKinds
    <3> QED BY <1>2, <2>1, <3>1, RowUpdate
  <2>4. \A x \in Execs : Path(u, x) BY <1>4, <2>3 DEF Path
  <2>5. \A d \in Children : Row(u, d)
    <3>1. \A d \in Children : Path(w, d) /\ Row(w, d) /\ d \in Execs /\ d # root BY <1>4, ExecNames
    <3>2. \A d \in Children : u.procs[d] = w.procs[d] /\ u.ex[d] = w.ex[d] /\ u.mail = w.mail
      BY <2>3, <3>1
    <3> QED BY <3>1, <3>2, SameExecution
  <2>6. ~Busy(u, root)
    <3>1. \A p \in o.procs[root] : p.status \notin {"ready", "running", "cancelling"}
      BY <1>1, <2>2 DEF Row
    <3> QED BY <1>2, <2>3, <3>1 DEF Busy
  <2>7. MembersOf(u) = MembersOf(o) /\ \A d \in MembersOf(u) : u.ex[d].status = "waiting"
    <3>1. \A d \in Children : u.ex[d] = o.ex[d] BY <1>2, <2>3, ExecNames
    <3> QED BY <1>1, <1>9, <3>1 DEF MembersOf, Family
  <2>8. Unreviewed(u) BY <1>7, <2>3, ExecNames DEF Unreviewed
  <2>9. MidRoot(u)
    BY <1>1, <1>2, <1>3, <2>3, <2>4, <2>5, <2>6, <2>7, <2>8 DEF MidRoot, RootMayEnd, Family
  <2>10. u.procs[root] # {} /\ \A q \in u.procs[root] : Beyond(root, q.step, "human_review")
    BY <1>1, <1>2, <1>9, <2>3 DEF GateOK
  <2>11. land = Landing(root, "human_review", IF u.gate = "released" THEN "succeeded" ELSE "failed",
                        Context(f, c.admission), u.procs[root])
    BY <1>2, <2>3
  <2>12. "gate-rejected" \in ErrorNames BY DEF ErrorNames
  <2>13. SoundWorld(Enter(u, root, land, "gate-rejected", c))
    BY <1>2, <1>3, <2>3, <2>9, <2>10, <2>11, <2>12, EnterResume
  <2> QED BY <1>9, <2>1, <2>13
<1> QED BY <1>8, <1>9

-----------------------------------------------------------------------------
(* The actions of Processes and of people, on a sound world. *)

\* A claimed Process leaves a sound world.
LEMMA ClaimSound ==
  ASSUME NEW o, SoundWorld(o), NEW x \in Execs, NEW p \in o.procs[x], p.status = "ready",
         NEW v, v = SetStatus(o, x, p, "running")
  PROVE  SoundWorld(v)
<1>1. /\ o \in Worlds /\ (\A y \in Execs : Path(o, y) /\ Row(o, y)) /\ GateOK(o) /\ Family(o) /\ Unreviewed(o)
      /\ root \in Execs /\ "running" \in LiveStatus \cup TerminalStatus /\ \A c \in Children : c \in Execs
  BY ExecNames DEF SoundWorld, LiveStatus
<1>2. /\ v \in Worlds /\ v.ex = o.ex /\ v.gate = o.gate /\ v.mail = o.mail
      /\ \A y \in Execs : y # x => v.procs[y] = o.procs[y]
  BY <1>1, SetStatusFields
<1>3. PICK n \in Processes : /\ n.step = p.step /\ n.digest = p.digest /\ n.status = "running"
                             /\ v.procs[x] = (o.procs[x] \ {p}) \cup {n}
  BY <1>1, SetStatusFields
<1>4. Path(v, x) BY <1>1, <1>3, SetStatusPath DEF LiveStatus
<1>5. o.ex[x].status = "active" BY <1>1 DEF Row
<1>6. Busy(o, x) /\ Busy(v, x) BY <1>3 DEF Busy
<1>7. Row(v, x)
  <2>1. \A q \in v.procs[x] : q.status = "cancelling" => q \in o.procs[x] BY <1>3
  <2>2. v.ex[x] = o.ex[x] /\ Row(o, x) BY <1>1, <1>2
  <2> QED BY <1>5, <1>6, <2>1, <2>2 DEF Row, TerminalStatus
<1>8. \A y \in Execs : y # x => Path(v, y) /\ Row(v, y) BY <1>1, <1>2, SameExecution
<1>9. \A y \in Execs : Path(v, y) /\ Row(v, y) BY <1>4, <1>7, <1>8
<1>10. \A y \in Execs : Busy(v, y) = Busy(o, y) BY <1>2, <1>6 DEF Busy
<1>11. MembersOf(v) = MembersOf(o) BY <1>2 DEF MembersOf
<1>12. \A y \in Execs : Published(o, y) => Published(v, y)
  <2>1. p.status # "succeeded" OBVIOUS
  <2>2. Published(o, x) => Published(v, x) BY <1>3, <2>1 DEF Published, Succeeded
  <2>3. \A y \in Execs : y # x /\ Published(o, y) => Published(v, y) BY <1>2 DEF Published
  <2> QED BY <2>2, <2>3
<1>13. Family(v)
  <2>1. \A c \in MembersOf(o) : c \in Execs BY <1>1 DEF MembersOf
  <2> QED BY <1>1, <1>2, <1>10, <1>11, <1>12, <2>1 DEF Family, Ended
<1>14. /\ \A q \in v.procs[root] : \E r \in o.procs[root] :
            q.step = r.step /\ q.digest = r.digest /\ (q.status \in LiveStatus => r.status \in LiveStatus)
       /\ \A r \in o.procs[root] : \E q \in v.procs[root] : q.step = r.step /\ q.digest = r.digest
  <2>1. CASE x = root BY <1>3, <2>1 DEF LiveStatus
  <2>2. CASE x # root BY <1>1, <1>2, <2>2
  <2> QED BY <2>1, <2>2
<1>15. Holds(o.procs[root], ResumeOf) => Holds(v.procs[root], ResumeOf) BY <1>14 DEF Holds
<1>16. GateOK(v)
  <2>1. o.procs[root] # {} => v.procs[root] # {} BY <1>14
  <2> QED BY <1>1, <1>2, <1>14, <1>15, <2>1 DEF GateOK
<1>17. Unreviewed(v)
  <2>1. \A c \in Children : o.procs[c] = {} => v.procs[c] = {} BY <1>1, <1>2, <1>3
  <2> QED BY <1>1, <1>2, <1>14, <2>1 DEF Unreviewed
<1> QED BY <1>2, <1>9, <1>13, <1>16, <1>17 DEF SoundWorld

\* A child whose Process at work is closed is between two steps.
LEMMA ClosedChild ==
  ASSUME NEW o, SoundWorld(o), NEW x \in Children, NEW p \in o.procs[x], p.status \in LiveStatus,
         NEW s \in TerminalStatus, NEW v, v = SetStatus(o, x, p, s)
  PROVE  MidChild(v, x) /\ v.ex = o.ex
<1>1. /\ o \in Worlds /\ (\A y \in Execs : Path(o, y) /\ Row(o, y)) /\ GateOK(o) /\ Family(o)
      /\ root \in Execs /\ x \in Execs /\ x # root /\ \A c \in Children : c \in Execs
  BY ExecNames DEF SoundWorld
<1>2. /\ v \in Worlds /\ v.ex = o.ex /\ v.gate = o.gate /\ v.mail = o.mail
      /\ \A y \in Execs : Path(v, y)
      /\ \A y \in Execs : y # x => Row(v, y) /\ v.procs[y] = o.procs[y]
      /\ ~Busy(v, x)
      /\ Unreviewed(v)
  BY <1>1, Closed
<1>3. o.ex[x].status \in {"active", "cancelling"} BY <1>1 DEF Row, LiveStatus
<1>4. v.procs[root] = o.procs[root] BY <1>1, <1>2
<1>5. GateOK(v) BY <1>1, <1>2, <1>4 DEF GateOK
<1>6. MembersOf(v) = MembersOf(o) /\ x \in MembersOf(o) /\ Busy(v, root) = Busy(o, root)
  BY <1>2, <1>3, <1>4 DEF MembersOf, Busy
<1>7. ~(task.plan = "scatter" /\ o.ex[root].status = "succeeded")
  BY <1>1, <1>3, <1>6 DEF Family
<1>8. Family(v)
  BY <1>1, <1>2, <1>6, <1>7 DEF Family, Ended
<1> QED BY <1>2, <1>3, <1>5, <1>8 DEF MidChild

\* A root whose running Process is closed is between two steps, without
\* children, and before its review or resumed from it.
LEMMA ClosedRoot ==
  ASSUME NEW o, SoundWorld(o), NEW p \in o.procs[root], p.status = "running",
         NEW s \in TerminalStatus, NEW v, v = SetStatus(o, root, p, s)
  PROVE  /\ MidRoot(v) /\ MembersOf(v) = {} /\ v.ex = o.ex /\ p.step \in StepNames
         /\ \A c \in Children : v.procs[c] = o.procs[c]
         /\ \A q \in v.procs[root] : q.step = p.step \/ Beyond(root, q.step, p.step)
         /\ \E q \in v.procs[root] : q.step = p.step
         /\ v.gate # "none" =>
              v.gate = "released" /\ Holds(v.procs[root], ResumeOf) /\ Beyond(root, "human_review", p.step)
<1>1. /\ o \in Worlds /\ GateOK(o) /\ root \in Execs /\ p.status \in LiveStatus
      /\ \A c \in Children : c \in Execs /\ c # root
  BY ExecNames DEF SoundWorld, LiveStatus
<1>2. /\ v \in Worlds /\ v.ex = o.ex /\ v.gate = o.gate /\ v.mail = o.mail
      /\ \A y \in Execs : Path(v, y)
      /\ \A y \in Execs : y # root => Row(v, y) /\ v.procs[y] = o.procs[y]
      /\ ~Busy(v, root)
      /\ \A q \in v.procs[root] : q.step = p.step \/ Beyond(root, q.step, p.step)
      /\ \E n \in v.procs[root] : n.step = p.step /\ n.status = s
      /\ Unreviewed(v)
      /\ \A d : Holds(o.procs[root], d) => Holds(v.procs[root], d)
  BY <1>1, Closed
<1>3. /\ o.ex[root].status = "active" /\ o.ex[root].waiting = "none"
      /\ MembersOf(o) = {} /\ o.gate # "open"
      /\ o.gate # "none" => /\ o.gate = "released"
                            /\ Holds(o.procs[root], ResumeOf)
                            /\ Beyond(root, "human_review", p.step)
  BY <1>1, RunningFacts
<1>4. MembersOf(v) = {} BY <1>2, <1>3 DEF MembersOf
<1>5. MidRoot(v)
  BY <1>1, <1>2, <1>3, <1>4 DEF MidRoot, RootMayEnd, GateOK
<1>6. p.step \in StepNames BY <1>1, NamedSteps
<1> QED BY <1>1, <1>2, <1>3, <1>4, <1>5, <1>6

\* A Process closed under a cancellation lets its Execution converge.
LEMMA CancelAckSound ==
  ASSUME NEW o, SoundWorld(o), NEW x \in Execs, NEW p \in o.procs[x], p.status = "cancelling",
         NEW w, w = SetStatus(o, x, p, "cancelled")
  PROVE  SoundWorld(IF x = root THEN ConvergeCancelledRoot(w)
                    ELSE IF Busy(w, x) THEN w
                    ELSE NotifyParent(EndAs(w, x, "cancelled", "none"), x))
<1>1. p.status \in LiveStatus /\ "cancelled" \in TerminalStatus /\ "none" \in ErrorNames
  BY DEF LiveStatus, TerminalStatus, ErrorNames
<1>2. CASE x # root
  <2>1. x \in Children BY <1>2, ExecNames
  <2>2. MidChild(w, x) BY <1>1, <2>1, ClosedChild
  <2>3. ~Busy(w, x) BY <2>2 DEF MidChild
  <2>4. SoundWorld(NotifyParent(EndAs(w, x, "cancelled", "none"), x))
    BY <1>1, <2>1, <2>2, EndChild
  <2> QED BY <1>2, <2>3, <2>4
<1>3. CASE x = root
  <2>1. /\ o \in Worlds /\ Row(o, root) /\ GateOK(o) /\ Family(o) /\ root \in Execs
        /\ \A c \in Children : c \in Execs
    BY ExecNames DEF SoundWorld
  <2>2. /\ w \in Worlds /\ w.ex = o.ex /\ w.gate = o.gate /\ w.mail = o.mail
        /\ \A y \in Execs : Path(w, y)
        /\ \A y \in Execs : y # root => Row(w, y) /\ w.procs[y] = o.procs[y]
        /\ ~Busy(w, root)
        /\ Unreviewed(w)
    BY <1>1, <1>3, Closed
  <2>3. o.ex[root].status = "cancelling" BY <1>3, <2>1 DEF Row
  <2>4. o.ex[root].waiting \in {"none", "scatter_children"} BY <2>1, <2>3 DEF Row
  <2>5. Row(w, root)
    <3>1. \A q \in w.procs[root] : q.status \notin {"ready", "running", "cancelling"} BY <2>2 DEF Busy
    <3> QED BY <2>2, <2>3, <2>4, <3>1 DEF Row, TerminalStatus
  <2>6. GateOK(w) BY <2>1, <2>2, <2>3, <2>4 DEF GateOK
  <2>7. MembersOf(w) = MembersOf(o) BY <2>2 DEF MembersOf
  <2>8. /\ MembersOf(w) # {} => task.plan = "scatter" /\ ~Busy(w, root)
        /\ \A c \in MembersOf(w) : w.ex[c].status \in {"cancelling"} \cup TerminalStatus
    BY <2>1, <2>2, <2>3, <2>7 DEF Family
  <2>9. \A y \in Execs : Path(w, y) /\ Row(w, y) BY <2>2, <2>5
  <2>10. SoundWorld(ConvergeCancelledRoot(w))
    BY <2>2, <2>3, <2>6, <2>8, <2>9, ConvergeRoot
  <2> QED BY <1>3, <2>10
<1> QED BY <1>2, <1>3

\* A commit that cannot be applied fails the Process and its Execution.
LEMMA RaisedSound ==
  ASSUME NEW o, SoundWorld(o), NEW x \in Execs, NEW p \in o.procs[x], p.status = "running",
         NEW error \in RaisedErrors
  PROVE  SoundWorld(Terminalize(SetStatus(o, x, p, "failed"), x, "failed", error))
<1>1. p.status \in LiveStatus /\ "failed" \in TerminalStatus /\ error \in ErrorNames
  BY DEF LiveStatus, TerminalStatus, ErrorNames
<1>2. PICK v : v = SetStatus(o, x, p, "failed") OBVIOUS
<1>3. CASE x = root
  <2>1. MidRoot(v) BY <1>1, <1>2, <1>3, ClosedRoot
  <2> QED BY <1>1, <1>2, <1>3, <2>1, FailRoot
<1>4. CASE x # root
  <2>1. x \in Children BY <1>4, ExecNames
  <2>2. MidChild(v, x) BY <1>1, <1>2, <2>1, ClosedChild
  <2>3. SoundWorld(NotifyParent(EndAs(v, x, "failed", error), x)) BY <1>1, <2>1, <2>2, EndChild
  <2> QED BY <1>2, <1>4, <2>3 DEF Terminalize
<1> QED BY <1>3, <1>4

\* A Process that reports an outcome leads its Execution on.
LEMMA OutcomeSound ==
  ASSUME task \in AdmissibleTasks, NEW o, SoundWorld(o), NEW x \in Execs,
         NEW p \in o.procs[x], p.status = "running", NEW s \in {"succeeded", "failed"},
         NEW f, NEW c, StagingOK(c), NEW code \in ErrorNames,
         NEW w, w = SetStatus(o, x, p, s),
         NEW land, land = Landing(x, p.step, s, ContextOf(x, f, c.admission), w.procs[x])
  PROVE  SoundWorld(Enter(w, x, land, code, c))
<1>1. p.status \in LiveStatus /\ s \in TerminalStatus /\ s \in Outcomes /\ o \in Worlds
  BY DEF LiveStatus, TerminalStatus, Outcomes, SoundWorld
<1>2. p.step \in StepNames BY <1>1, NamedSteps
<1>3. CASE x = root
  <2>1. /\ MidRoot(w) /\ MembersOf(w) = {}
        /\ \A q \in w.procs[root] : q.step = p.step \/ Beyond(root, q.step, p.step)
        /\ \E q \in w.procs[root] : q.step = p.step
        /\ w.gate # "none" =>
             w.gate = "released" /\ Holds(w.procs[root], ResumeOf) /\ Beyond(root, "human_review", p.step)
    BY <1>1, <1>3, ClosedRoot
  <2>2. land = Landing(root, p.step, s, Context(f, c.admission), w.procs[root])
    BY <1>3 DEF ContextOf
  <2> QED BY <1>1, <1>2, <1>3, <2>1, <2>2, EnterRoot
<1>4. CASE x # root
  <2>1. x \in Children BY <1>4, ExecNames
  <2>2. MidChild(w, x) /\ w.ex = o.ex BY <1>1, <2>1, ClosedChild
  <2>3. w.ex[x].status = "active" BY <1>1, <2>2, RunningFacts
  <2>4. /\ \A q \in w.procs[x] : q.step = p.step \/ Beyond(x, q.step, p.step)
        /\ \E n \in w.procs[x] : n.step = p.step
    BY <1>1, Closed
  <2> QED BY <1>1, <1>2, <2>1, <2>2, <2>3, <2>4, EnterChild
<1> QED BY <1>3, <1>4

\* The children of a collection, created in world o.
Admitted(o, M, admission) ==
  LET held == admission = "human_review_required"
  IN  [o EXCEPT !.ex = [x \in Execs |-> IF x \in M THEN NewChild(held) ELSE @[x]],
                !.mail = @ \cup IF held THEN {} ELSE {<<"wake", c>> : c \in M}]

\* The fields of a world in which the children of a collection were created.
LEMMA AdmitFields ==
  ASSUME NEW o \in Worlds, NEW M \in MemberSets, NEW a, NEW w, w = Admitted(o, M, a)
  PROVE  /\ w \in Worlds /\ w.procs = o.procs /\ w.gate = o.gate /\ w.ex[root] = o.ex[root]
         /\ \A c \in M : /\ w.ex[c].status = IF a = "human_review_required" THEN "waiting" ELSE "active"
                         /\ w.ex[c].waiting = IF a = "human_review_required" THEN "durable_prerequisite" ELSE "none"
         /\ \A c \in Children \ M : w.ex[c] = o.ex[c]
         /\ o.mail \subseteq w.mail
         /\ a # "human_review_required" => \A c \in M : <<"wake", c>> \in w.mail
         /\ <<"gate", root>> \in w.mail => <<"gate", root>> \in o.mail
<1> DEFINE held == a = "human_review_required"
           rows == [x \in Execs |-> IF x \in M THEN NewChild(held) ELSE o.ex[x]]
           wakes == IF held THEN {} ELSE {<<"wake", c>> : c \in M}
<1>0. M \subseteq Children BY DEF MemberSets
<1>1. w = [o EXCEPT !.ex = rows, !.mail = o.mail \cup wakes]
  BY DEF Admitted
<1>2. o.ex \in [Execs -> Rows] BY DEF Worlds
<1>3. NewChild(held) \in Rows
  BY DEF NewChild, Rows, ExStatus, WaitKinds, ErrorNames
<1>4. /\ rows \in [Execs -> Rows] /\ rows[root] = o.ex[root]
      /\ \A c \in M : rows[c].status = (IF held THEN "waiting" ELSE "active")
                      /\ rows[c].waiting = (IF held THEN "durable_prerequisite" ELSE "none")
      /\ \A c \in Children \ M : rows[c] = o.ex[c]
  BY <1>0, <1>2, <1>3, ExecNames DEF NewChild
<1>5. wakes \subseteq {"wake", "gate"} \X Execs /\ o.mail \cup wakes \in SUBSET ({"wake", "gate"} \X Execs)
  BY <1>0, ExecNames DEF Worlds
<1>6. /\ ~held => \A c \in M : <<"wake", c>> \in wakes
      /\ <<"gate", root>> \notin wakes
  OBVIOUS
<1>7. PICK e, m : e = rows /\ m = o.mail \cup wakes OBVIOUS
<1>8. w \in Worlds /\ w.ex = e /\ w.mail = m /\ w.gate = o.gate /\ w.procs = o.procs
  <2>1. w = [o EXCEPT !.ex = e, !.mail = m] BY <1>1, <1>7
  <2>2. e \in [Execs -> Rows] /\ m \in SUBSET ({"wake", "gate"} \X Execs) BY <1>4, <1>5, <1>7
  <2> HIDE DEF rows, wakes, held
  <2> QED BY <2>1, <2>2 DEF Worlds
<1> HIDE DEF rows, wakes
<1> QED BY <1>4, <1>6, <1>7, <1>8

\* An accepted collection leads its root to the join, to its review or to its
\* end, its children running or held as the admission says.
LEMMA CollectionSound ==
  ASSUME task \in AdmissibleTasks, task.plan = "scatter", NEW o, SoundWorld(o),
         NEW p \in o.procs[root], p.status = "running", p.step = "accept_snapshot",
         NEW M \in MemberSets, NEW f, NEW c, StagingOK(c), c.admission = Admission(task.review),
         NEW w, w = SetStatus(Admitted(o, M, c.admission), root, p, "succeeded"),
         NEW land, land = Landing(root, p.step, "succeeded", Context(f, c.admission), w.procs[root])
  PROVE  SoundWorld(Enter(w, root, land, "none", c))
<1> DEFINE held == c.admission = "human_review_required"
<1>1. o \in Worlds /\ root \in Execs /\ "succeeded" \in TerminalStatus
  BY ExecNames DEF SoundWorld, TerminalStatus
<1>2. PICK u : u = SetStatus(o, root, p, "succeeded") OBVIOUS
<1>3. PICK a : a = Admitted(o, M, c.admission) OBVIOUS
<1>4. /\ MidRoot(u) /\ MembersOf(u) = {} /\ u.ex = o.ex /\ p.step \in StepNames
      /\ \A d \in Children : u.procs[d] = o.procs[d]
      /\ \A q \in u.procs[root] : q.step = p.step \/ Beyond(root, q.step, p.step)
      /\ \E q \in u.procs[root] : q.step = p.step
      /\ u.gate # "none" =>
           u.gate = "released" /\ Holds(u.procs[root], ResumeOf) /\ Beyond(root, "human_review", p.step)
  BY <1>1, <1>2, ClosedRoot
<1>5. /\ a \in Worlds /\ a.procs = o.procs /\ a.gate = o.gate /\ a.ex[root] = o.ex[root]
      /\ \A d \in M : /\ a.ex[d].status = IF c.admission = "human_review_required" THEN "waiting" ELSE "active"
                      /\ a.ex[d].waiting = IF c.admission = "human_review_required" THEN "durable_prerequisite" ELSE "none"
      /\ \A d \in Children \ M : a.ex[d] = o.ex[d]
      /\ o.mail \subseteq a.mail
      /\ c.admission # "human_review_required" => \A d \in M : <<"wake", d>> \in a.mail
      /\ <<"gate", root>> \in a.mail => <<"gate", root>> \in o.mail
  BY <1>1, <1>3, AdmitFields
<1>6. u \in Worlds /\ u.gate = o.gate /\ u.mail = o.mail
  BY <1>1, <1>2, SetStatusFields DEF TerminalStatus
<1>7. w \in Worlds /\ w.ex = a.ex /\ w.gate = u.gate /\ w.mail = a.mail
  BY <1>1, <1>3, <1>5, <1>6, SetStatusFields DEF TerminalStatus
<1>8. w.procs = u.procs
  <2>1. PICK g : g = [o.procs EXCEPT ![root] = (o.procs[root] \ {p}) \cup {[p EXCEPT !.status = "succeeded"]}]
    OBVIOUS
  <2>2. u = [o EXCEPT !.procs = g] BY <1>2, <2>1 DEF SetStatus
  <2>3. w = [a EXCEPT !.procs = g] BY <1>3, <1>5, <2>1 DEF SetStatus
  <2>0. PICK A, B, C, D : /\ A = [Execs -> Rows] /\ B = [Execs -> SUBSET Processes]
                          /\ C = GateStatus /\ D = SUBSET ({"wake", "gate"} \X Execs)
    BY Zenon
  <2>4. o \in [ex : A, procs : B, gate : C, mail : D] /\ a \in [ex : A, procs : B, gate : C, mail : D]
    BY <1>1, <1>5, <2>0 DEF Worlds
  <2>5. u.procs = g BY <2>2, <2>4
  <2>6. w.procs = g BY <2>3, <2>4
  <2> QED BY <2>5, <2>6
<1>9. \A x \in Execs : Path(w, x)
  BY <1>4, <1>8 DEF Path, MidRoot, RootMayEnd
<1>10. Busy(w, root) = Busy(u, root) BY <1>8 DEF Busy
<1>11. ASSUME NEW d \in Children
       PROVE  Row(w, d) /\ (d \notin M => w.ex[d].status = "absent") /\ (held => w.ex[d].status # "active")
              /\ (d \in M => w.ex[d].status = IF held THEN "waiting" ELSE "active")
  <2>1. d \in Execs /\ d # root /\ Row(u, d) /\ Path(u, d)
    BY <1>4, ExecNames DEF MidRoot, RootMayEnd
  <2>2. u.ex[d].status = "absent" BY <1>4 DEF MembersOf
  <2>3. u.procs[d] = {} BY <2>1, <2>2 DEF Row
  <2>4. CASE d \in M
    <3>1. /\ w.ex[d] = a.ex[d] /\ w.procs[d] = {} /\ (~held => <<"wake", d>> \in w.mail)
      BY <1>5, <1>7, <1>8, <2>3, <2>4
    <3>2. CASE held
      <4>1. w.ex[d].status = "waiting" /\ w.ex[d].waiting = "durable_prerequisite"
        BY <1>5, <2>4, <3>1, <3>2
      <4>2. Row(w, d) BY <2>1, <3>1, <4>1 DEF Row, TerminalStatus
      <4> QED BY <2>4, <3>2, <4>1, <4>2
    <3>3. CASE ~held
      <4>1. w.ex[d].status = "active" /\ w.ex[d].waiting = "none"
        BY <1>5, <2>4, <3>1, <3>3
      <4>2. Row(w, d) BY <2>1, <3>1, <3>3, <4>1 DEF Row, TerminalStatus
      <4> QED BY <2>4, <3>3, <4>1, <4>2
    <3> QED BY <3>2, <3>3
  <2>5. CASE d \notin M
    <3>1. w.ex[d] = u.ex[d] /\ w.procs[d] = u.procs[d] /\ u.mail \subseteq w.mail
      BY <1>4, <1>5, <1>6, <1>7, <1>8, <2>5
    <3>2. Row(w, d) BY <2>1, <3>1, SameExecution
    <3> QED BY <2>2, <2>5, <3>1, <3>2
  <2> QED BY <2>4, <2>5
<1>12. \A d \in MembersOf(w) : d \in M /\ w.ex[d].status = IF held THEN "waiting" ELSE "active"
  BY <1>11 DEF MembersOf
<1>13. Unreviewed(w)
  <2>1. task.review => held BY DEF Admission
  <2> QED BY <1>4, <1>7, <1>8, <1>11, <2>1 DEF Unreviewed, MidRoot, RootMayEnd
<1>14. MidRoot(w)
  <2>1. w.ex[root] = u.ex[root] BY <1>4, <1>5, <1>7
  <2>2. <<"gate", root>> \in w.mail => <<"gate", root>> \in u.mail BY <1>5, <1>6, <1>7
  <2>3. \A d \in MembersOf(w) : w.ex[d].status \in {"waiting", "active"} BY <1>12
  <2>4. RootMayEnd(w)
    BY <1>4, <1>7, <1>9, <1>10, <1>11, <1>13, <2>2 DEF MidRoot, RootMayEnd
  <2> QED BY <1>4, <2>1, <2>3, <2>4 DEF MidRoot
<1>15. "succeeded" \in Outcomes /\ "none" \in ErrorNames BY DEF Outcomes, ErrorNames
<1> QED BY <1>4, <1>7, <1>8, <1>12, <1>14, <1>15, EnterRoot

\* A decided gate leaves a sound world: its message will resume the root.
LEMMA DecideSound ==
  ASSUME NEW o, SoundWorld(o), o.gate = "open", NEW g \in {"released", "rejected"},
         NEW v, v = [o EXCEPT !.gate = g, !.mail = @ \cup {<<"gate", root>>}]
  PROVE  SoundWorld(v)
<1>1. /\ o \in Worlds /\ (\A y \in Execs : Path(o, y) /\ Row(o, y)) /\ GateOK(o) /\ Family(o) /\ Unreviewed(o)
      /\ root \in Execs
  BY ExecNames DEF SoundWorld
<1>2. PICK m : m = o.mail \cup {<<"gate", root>>} OBVIOUS
<1>3. /\ m \in SUBSET ({"wake", "gate"} \X Execs) /\ g \in GateStatus
      /\ <<"gate", root>> \in m /\ o.mail \subseteq m
  BY <1>1, <1>2 DEF Worlds, GateStatus
<1>4. v = [o EXCEPT !.gate = g, !.mail = m] BY <1>2
<1>5. v \in Worlds /\ v.ex = o.ex /\ v.procs = o.procs /\ v.gate = g /\ v.mail = m
  BY <1>1, <1>3, <1>4 DEF Worlds
<1>6. \A y \in Execs : Path(v, y) /\ Row(v, y)
  BY <1>1, <1>3, <1>5, SameExecution
<1>7. o.ex[root].waiting = "human_review" BY <1>1 DEF GateOK
<1>8. o.ex[root].status # "active" BY <1>1, <1>7 DEF Row
<1>9. GateOK(v) BY <1>1, <1>3, <1>5, <1>7, <1>8 DEF GateOK
<1>10. MembersOf(v) = MembersOf(o) /\ Busy(v, root) = Busy(o, root) BY <1>5 DEF MembersOf, Busy
<1>11. Family(v) BY <1>1, <1>5, <1>10 DEF Family, Ended, Published
<1>12. Unreviewed(v) BY <1>1, <1>5 DEF Unreviewed
<1> QED BY <1>5, <1>6, <1>9, <1>11, <1>12 DEF SoundWorld

-----------------------------------------------------------------------------
(* Inputs, once found, stay found: no step takes an output back. *)

\* Q holds the steps of P, with every success P had.
Evolves(P, Q) == Succeeded(P) \subseteq Succeeded(Q) /\ \A q \in Q : \E p \in P : p.step = q.step

\* What was bound stays bound.
LEMMA InputsKept ==
  ASSUME NEW x, NEW P, NEW Q, NEW sl, NEW sd, NEW sl2, NEW sd2, InputsOf(x, P, sl, sd), Evolves(P, Q),
         sl # "none" => sl2 # "none", sd # "none" => sd2 # "none"
  PROVE  InputsOf(x, Q, sl2, sd2)
<1>1. Done(P, sl) \subseteq Done(Q, sl2) BY DEF Done, Evolves
<1>2. \A s : Unbound(x, s, Done(P, sl)) = {} => Unbound(x, s, Done(Q, sl2)) = {}
  BY <1>1 DEF Unbound
<1> SUFFICES ASSUME NEW q \in Q
             PROVE  Unbound(x, q.step, Done(Q, sl2)) = {} /\ (NeedsSeal(q.step) => sd2 # "none")
  BY DEF InputsOf
<1>3. PICK p \in P : p.step = q.step BY DEF Evolves
<1>4. Unbound(x, p.step, Done(P, sl)) = {} /\ (NeedsSeal(p.step) => sd # "none") BY DEF InputsOf
<1> QED BY <1>2, <1>3, <1>4

\* A new Process has the inputs its landing found.
LEMMA InputsGrow ==
  ASSUME NEW x, NEW P, NEW n, NEW sl, NEW sd, InputsOf(x, P, sl, sd),
         Unbound(x, n.step, Done(P, sl)) = {}, NeedsSeal(n.step) => sd # "none"
  PROVE  InputsOf(x, P \cup {n}, sl, sd)
<1>1. Done(P, sl) \subseteq Done(P \cup {n}, sl) BY DEF Done, Succeeded
<1>2. \A s : Unbound(x, s, Done(P, sl)) = {} => Unbound(x, s, Done(P \cup {n}, sl)) = {}
  BY <1>1 DEF Unbound
<1> QED BY <1>2 DEF InputsOf

\* Evolution is reflexive.
LEMMA EvolvesSame ==
  ASSUME NEW P PROVE Evolves(P, P)
BY DEF Evolves

\* The Processes of every Execution of w evolve into those of v.
AllEvolve(w, v) == \A y \in Execs : Evolves(w.procs[y], v.procs[y])

\* A converging root changes no Process.
LEMMA ConvergeKeeps ==
  ASSUME NEW w \in Worlds, NEW x
  PROVE  /\ ConvergeCancelledRoot(w) \in Worlds /\ ConvergeCancelledRoot(w).procs = w.procs
         /\ ConvergeScatterRoot(w).procs = w.procs
         /\ NotifyParent(w, x).procs = w.procs
<1>1. \A s \in TerminalStatus, e \in ErrorNames :
        EndAs(w, root, s, e) \in Worlds /\ EndAs(w, root, s, e).procs = w.procs
  BY EndAsFields, ExecNames
<1>2. ConvergeCancelledRoot(w) \in Worlds /\ ConvergeCancelledRoot(w).procs = w.procs
  BY <1>1 DEF ConvergeCancelledRoot, TerminalStatus, ErrorNames
<1>3. ConvergeScatterRoot(w).procs = w.procs
  BY <1>1 DEF ConvergeScatterRoot, TerminalStatus, ErrorNames, IntegrityErrors
<1> QED BY <1>2, <1>3 DEF NotifyParent

\* A cancellation keeps steps and successes.
LEMMA CancelKeeps ==
  ASSUME NEW w \in Worlds, NEW X \in SUBSET Execs
  PROVE  CancelTree(w, X) \in Worlds /\ AllEvolve(w, CancelTree(w, X))
<1>1. PICK v : Fenced(w, X, v) /\ CancelTree(w, X) = ConvergeCancelledRoot(v)
  BY CancelTreeFences
<1>2. v \in Worlds BY <1>1 DEF Fenced
<1>3. CancelTree(w, X) \in Worlds /\ CancelTree(w, X).procs = v.procs
  BY <1>1, <1>2, ConvergeKeeps
<1>4. ASSUME NEW y \in Execs PROVE Evolves(w.procs[y], v.procs[y])
  <2>1. w.procs[y] \subseteq Processes BY <1>4 DEF Worlds
  <2>2. CASE v.procs[y] = w.procs[y] BY <2>2, EvolvesSame
  <2>3. CASE v.procs[y] = {Halt(p) : p \in w.procs[y]}
    <3>1. \A q \in v.procs[y] : \E p \in w.procs[y] : p.step = q.step
      BY <2>1, <2>3, HaltFacts
    <3>2. ASSUME NEW s \in Succeeded(w.procs[y]) PROVE s \in Succeeded(v.procs[y])
      <4>1. PICK p \in w.procs[y] : p.status = "succeeded" /\ p.step = s BY <3>2 DEF Succeeded
      <4>2. Halt(p) \in v.procs[y] /\ Halt(p).status = "succeeded" /\ Halt(p).step = s
        BY <2>1, <2>3, <4>1, HaltFacts
      <4> QED BY <4>2 DEF Succeeded
    <3> QED BY <3>1, <3>2 DEF Evolves
  <2> QED BY <1>1, <1>4, <2>2, <2>3 DEF Fenced
<1> QED BY <1>3, <1>4 DEF AllEvolve

\* The end of an Execution keeps steps and successes.
LEMMA TerminalizeKeeps ==
  ASSUME NEW w \in Worlds, NEW x \in Execs, NEW s \in TerminalStatus, NEW e \in ErrorNames
  PROVE  AllEvolve(w, Terminalize(w, x, s, e))
<1>1. PICK u : u = IF x = root /\ s # "succeeded" THEN CancelTree(w, Children) ELSE w OBVIOUS
<1>2. u \in Worlds /\ AllEvolve(w, u)
  BY <1>1, CancelKeeps, EvolvesSame, ExecNames DEF AllEvolve
<1>3. EndAs(u, x, s, e) \in Worlds /\ EndAs(u, x, s, e).procs = u.procs
  BY <1>2, EndAsFields
<1>4. NotifyParent(EndAs(u, x, s, e), x).procs = u.procs BY <1>3, ConvergeKeeps
<1>5. Terminalize(w, x, s, e) = NotifyParent(EndAs(u, x, s, e), x) BY <1>1 DEF Terminalize
<1> QED BY <1>2, <1>4, <1>5 DEF AllEvolve

\* Processes that an applied landing leaves: the old ones, and the new one with
\* the inputs it found.
LEMMA EnterInputs ==
  ASSUME NEW w \in Worlds, NEW x \in Execs, NEW land, NEW code \in ErrorNames, NEW c,
         land.error \in ErrorNames, NEW sl, NEW sd,
         \A y \in Execs : InputsOf(y, w.procs[y], sl, sd),
         land.error = "none" /\ land.to \notin TerminalSteps =>
           Unbound(x, land.to, Done(w.procs[x], sl)) = {} /\ (NeedsSeal(land.to) => sd # "none")
  PROVE  \A y \in Execs : InputsOf(y, Enter(w, x, land, code, c).procs[y], sl, sd)
<1>1. ASSUME NEW v, AllEvolve(w, v) PROVE \A y \in Execs : InputsOf(y, v.procs[y], sl, sd)
  BY <1>1, InputsKept DEF AllEvolve
<1>2. ASSUME NEW v, v.procs = w.procs PROVE \A y \in Execs : InputsOf(y, v.procs[y], sl, sd)
  BY <1>2
<1>3. ASSUME NEW s \in TerminalStatus, NEW e \in ErrorNames
      PROVE  \A y \in Execs : InputsOf(y, Terminalize(w, x, s, e).procs[y], sl, sd)
  BY <1>1, <1>3, TerminalizeKeeps
<1>4. CASE land.error # "none"
  BY <1>3, <1>4 DEF Enter, TerminalStatus
<1>5. CASE land.error = "none" /\ land.to \in TerminalSteps
  BY <1>3, <1>5 DEF Enter, TerminalSteps, TerminalStatus
<1>6. CASE land.error = "none" /\ land.to \notin TerminalSteps /\ land.to = "human_review"
  <2>1. [w EXCEPT !.gate = "open", !.ex[x].status = "waiting", !.ex[x].waiting = "human_review"].procs = w.procs
    BY DEF Worlds
  <2>2. \A y \in Execs : InputsOf(y, OpenGate(w, x, c, land.seal).procs[y], sl, sd)
    BY <1>2, <1>3, <2>1 DEF OpenGate, TerminalStatus, ErrorNames, RaisedErrors
  <2> QED BY <1>6, <2>2 DEF Enter
<1>7. CASE land.error = "none" /\ land.to \notin TerminalSteps /\ land.to = "scatter_children_join"
  <2>1. PICK u : u = ReleaseChildren(w) OBVIOUS
  <2>2. u \in Worlds /\ u.procs = w.procs BY <2>1, ReleaseFields
  <2>3. RootAs(u, "waiting", "scatter_children").procs = w.procs
    <3>1. u.gate \in GateStatus /\ "waiting" \in ExStatus /\ "scatter_children" \in WaitKinds
      BY <2>2 DEF Worlds, ExStatus, WaitKinds
    <3> QED BY <2>2, <3>1, RowUpdate
  <2>4. JoinChildren(w) = IF MembersOf(w) = {} THEN Terminalize(w, root, "succeeded", "none")
                          ELSE RootAs(u, "waiting", "scatter_children")
    BY <2>1 DEF JoinChildren, RootAs
  <2>5. \A y \in Execs : InputsOf(y, Terminalize(w, root, "succeeded", "none").procs[y], sl, sd)
    <3>1. AllEvolve(w, Terminalize(w, root, "succeeded", "none"))
      BY TerminalizeKeeps, ExecNames DEF TerminalStatus, ErrorNames
    <3> QED BY <1>1, <3>1
  <2>6. \A y \in Execs : InputsOf(y, JoinChildren(w).procs[y], sl, sd)
    BY <1>2, <2>3, <2>4, <2>5
  <2> QED BY <1>7, <2>6 DEF Enter, TerminalSteps
<1>8. CASE land.error = "none" /\ land.to \notin TerminalSteps \cup {"human_review", "scatter_children_join"}
  <2>1. Enter(w, x, land, code, c) = Materialize(w, x, land.to, land.digest)
    BY <1>8 DEF Enter
  <2>2. CASE \E p \in w.procs[x] : p.step = land.to /\ p.digest = land.digest
    BY <2>1, <2>2 DEF Materialize
  <2>3. CASE ~\E p \in w.procs[x] : p.step = land.to /\ p.digest = land.digest
    <3>1. PICK n : n = [step |-> land.to, digest |-> land.digest, status |-> "ready"] OBVIOUS
    <3>2. n.step = land.to BY <3>1
    <3>3. PICK v : v = Materialize(w, x, land.to, land.digest) OBVIOUS
    <3>4. v = [w EXCEPT !.procs[x] = @ \cup {n},
                        !.ex[x] = [status |-> "active", waiting |-> "none", error |-> "none"]]
      BY <2>3, <3>1, <3>3 DEF Materialize
    <3>5. v.procs[x] = w.procs[x] \cup {n} /\ \A y \in Execs : y # x => v.procs[y] = w.procs[y]
      <4>1. PICK g, h : /\ g = [w.procs EXCEPT ![x] = w.procs[x] \cup {n}]
                        /\ h = [w.ex EXCEPT ![x] = [status |-> "active", waiting |-> "none", error |-> "none"]]
        OBVIOUS
      <4>2. v = [w EXCEPT !.procs = g, !.ex = h] BY <3>4, <4>1
      <4>3. PICK A, B, C, D : w \in [ex : A, procs : B, gate : C, mail : D] BY DEF Worlds
      <4>4. v.procs = g BY <4>2, <4>3
      <4>5. w.procs \in [Execs -> SUBSET Processes] BY DEF Worlds
      <4> QED BY <4>1, <4>4, <4>5
    <3>6. InputsOf(x, v.procs[x], sl, sd)
      BY <1>8, <3>2, <3>5, InputsGrow
    <3> QED BY <2>1, <3>3, <3>5, <3>6
  <2> QED BY <2>2, <2>3
<1> QED BY <1>4, <1>5, <1>6, <1>7, <1>8

-----------------------------------------------------------------------------
(* From worlds to the variables. *)

\* The plan, the order of its steps and the frozen decisions are those of the
\* request, which no step changes.
LEMMA FrozenTask ==
  ASSUME task' = task, NEW x
  PROVE  /\ PlanOf(x)' = PlanOf(x) /\ StartOf(x)' = StartOf(x) /\ ResumeOf' = ResumeOf
         /\ \A a, b : Beyond(x, a, b)' <=> Beyond(x, a, b)
<1>1. \A y : PlanOf(y)' = PlanOf(y) BY DEF PlanOf
<1>2. PlanName(x)' = PlanName(x) BY DEF PlanName
<1>3. Context(NoFact, "none")' = Context(NoFact, "none") BY DEF Context
<1>4. ContextOf(x, NoFact, "none")' = ContextOf(x, NoFact, "none") BY <1>3 DEF ContextOf
<1>5. StartOf(x)' = StartOf(x) BY <1>1, <1>4 DEF StartOf
<1>6. ResumeOf' = ResumeOf BY <1>1, <1>3 DEF ResumeOf
<1>7. \A a, b : Beyond(x, a, b)' <=> Beyond(x, a, b) BY <1>2 DEF Beyond
<1> QED BY <1>1, <1>5, <1>6, <1>7

\* A step into a sound world keeps the invariant.
LEMMA StepInv ==
  ASSUME task \in AdmissibleTasks, task' = task,
         NEW n, SoundWorld(n), ex' = n.ex, procs' = n.procs, gate' = n.gate, mail' = n.mail,
         NEW c, StagingOK(c), staging' = c,
         NEW sl, NEW sd, selected' = sl, sealed' = sd,
         \A x \in Execs : InputsOf(x, n.procs[x], sl, sd)
  PROVE  Inv'
<1>1. n \in Worlds /\ (\A x \in Execs : Path(n, x) /\ Row(n, x)) /\ GateOK(n) /\ Family(n) /\ Unreviewed(n)
  BY DEF SoundWorld
<1>2. World' = n
  BY <1>1 DEF World, Worlds
<1>3. /\ \A x : StartOf(x)' = StartOf(x) /\ PlanOf(x)' = PlanOf(x)
      /\ ResumeOf' = ResumeOf
      /\ \A x, a, b : Beyond(x, a, b)' <=> Beyond(x, a, b)
  BY FrozenTask
<1>4. \A x \in Execs : Path(World, x)'
  BY <1>1, <1>2, <1>3 DEF Path, Holds
<1>5. \A x \in Execs : Row(World, x)'
  BY <1>1, <1>2 DEF Row, Busy
<1>6. GateOK(World)'
  BY <1>1, <1>2, <1>3 DEF GateOK, Holds
<1>7. Family(World)'
  BY <1>1, <1>2 DEF Family, Busy, MembersOf, Ended, Published
<1>8. Unreviewed(World)'
  BY <1>1, <1>2 DEF Unreviewed
<1>9. (World \in Worlds)'
  BY <1>1, <1>2
<1>10. SoundWorld(World)'
  BY <1>4, <1>5, <1>6, <1>7, <1>8, <1>9 DEF SoundWorld
<1>11. StagingOK(staging)'
  BY DEF StagingOK
<1>12. (\A x \in Execs : InputsOf(x, procs[x], selected, sealed))'
  BY <1>3 DEF InputsOf, Unbound, NeedsSeal, Done
<1>13. (task \in AdmissibleTasks)'
  BY DEF AdmissibleTasks
<1> QED BY <1>10, <1>11, <1>12, <1>13 DEF Inv

\* The fields of the world the variables make.
LEMMA WorldFields ==
  World.ex = ex /\ World.procs = procs /\ World.gate = gate /\ World.mail = mail
BY DEF World

\* What the invariant says of the present world.
LEMMA InvFacts ==
  ASSUME Inv, NEW o, o = World
  PROVE  /\ task \in AdmissibleTasks /\ StagingOK(staging) /\ SoundWorld(o) /\ o \in Worlds
         /\ o.ex = ex /\ o.procs = procs /\ o.gate = gate /\ o.mail = mail
         /\ \A x \in Execs : InputsOf(x, o.procs[x], selected, sealed)
BY WorldFields DEF Inv, SoundWorld

\* A landing at a plain step found its inputs without a new projection or seal.
LEMMA PlainLanding ==
  ASSUME task \in AdmissibleTasks, NEW x, NEW step \in StepNames, NEW on \in Outcomes, NEW ctx, NEW P,
         RouteDecision(PlanOf(x), step, on, ctx).to \notin CleanSteps \cup {"selected_clean"},
         NEW land, land = Landing(x, step, on, ctx, P)
  PROVE  /\ land.error \in ErrorNames
         /\ land.error = "none" =>
              Unbound(x, land.to, Done(P, selected)) = {} /\ (NeedsSeal(land.to) => sealed # "none")
<1>1. PICK d : d = RouteDecision(PlanOf(x), step, on, ctx) OBVIOUS
<1>2. ~StrategyUnreachable(d.to, ctx) BY <1>1 DEF StrategyUnreachable, CleanSteps
<1>3. SealedBy(x, d.to) = sealed BY <1>1 DEF SealedBy
<1>4. /\ land.to = d.to /\ land.error = ArrivalError(x, d.to, Done(P, selected), sealed)
  BY <1>1, <1>2, <1>3, DirectLanding DEF Landing
<1> QED BY <1>4, ArrivalFacts

\* A failure leads to no cleaner and to no projection.
LEMMA PlainFailure ==
  ASSUME task \in AdmissibleTasks, NEW x, NEW step, NEW ctx
  PROVE  RouteDecision(PlanOf(x), step, "failed", ctx).to \notin CleanSteps \cup {"selected_clean"}
<1>1. \A r \in PlanOf(x).routes : r.on = "failed" => r.to = "failed"
  BY PlanKnown DEF PlanShape
<1>2. RouteDecision(PlanOf(x), step, "failed", ctx).to \in {"none", "failed"}
  BY <1>1, RouteTaken
<1> QED BY <1>2 DEF CleanSteps, CleanStepStrategy

\* A status change keeps steps and successes, unless it takes a success back.
LEMMA StatusKeeps ==
  ASSUME NEW o \in Worlds, NEW x \in Execs, NEW p \in o.procs[x], NEW s \in LiveStatus \cup TerminalStatus,
         p.status # "succeeded", NEW w, w = SetStatus(o, x, p, s)
  PROVE  AllEvolve(o, w)
<1>1. \A y \in Execs : y # x => w.procs[y] = o.procs[y] BY SetStatusFields
<1>2. PICK n \in Processes : /\ n.step = p.step /\ n.digest = p.digest /\ n.status = s
                             /\ w.procs[x] = (o.procs[x] \ {p}) \cup {n}
  BY SetStatusFields
<1>3. Evolves(o.procs[x], w.procs[x]) BY <1>2 DEF Evolves, Succeeded
<1> QED BY <1>1, <1>3, EvolvesSame DEF AllEvolve

-----------------------------------------------------------------------------
(* Every action keeps the invariant. *)

\* Deliveries of wakes.
LEMMA WakeInv ==
  ASSUME Inv, NEW x \in Execs, NEW acked, Wake(x, acked)
  PROVE  Inv'
<1>1. PICK o : o = World OBVIOUS
<1>2. /\ task \in AdmissibleTasks /\ StagingOK(staging) /\ SoundWorld(o) /\ o \in Worlds
      /\ o.ex = ex /\ o.procs = procs /\ o.gate = gate /\ o.mail = mail
      /\ \A y \in Execs : InputsOf(y, o.procs[y], selected, sealed)
  BY <1>1, InvFacts
<1>3. PICK f, c, sl, sd : f = fact /\ c = staging /\ sl = selected /\ sd = sealed OBVIOUS
<1>4. PICK w : w = Acked(o, <<"wake", x>>, acked) OBVIOUS
<1>5. PICK land : land = Landing(x, "start", "always", ContextOf(x, f, c.admission), o.procs[x]) OBVIOUS
<1>6. PICK n : n = IF o.ex[x].status = "cancelling" /\ x = root THEN ConvergeCancelledRoot(w)
                   ELSE IF o.ex[x].waiting = "scatter_children" THEN ConvergeScatterRoot(w)
                   ELSE IF o.ex[x].status = "active" THEN Enter(w, x, land, "none", c)
                   ELSE w
  OBVIOUS
<1>7. After(<<"wake", x>>, acked) = w BY <1>1, <1>4 DEF After, Acked
<1>8. Become(n) /\ UNCHANGED <<task, staging, sealed, selected>>
  BY <1>2, <1>3, <1>5, <1>6, <1>7 DEF Wake
<1>9. SoundWorld(n)
  BY <1>2, <1>3, <1>4, <1>5, <1>6, WakeSound
<1>10. w \in Worlds /\ w.procs = o.procs BY <1>2, <1>4, AckFields
<1>11. \A y \in Execs : InputsOf(y, n.procs[y], sl, sd)
  <2>1. \A y \in Execs : InputsOf(y, w.procs[y], sl, sd) BY <1>2, <1>3, <1>10
  <2>2. ConvergeCancelledRoot(w).procs = w.procs /\ ConvergeScatterRoot(w).procs = w.procs
    BY <1>10, ConvergeKeeps
  <2>3. \A y \in Execs : InputsOf(y, Enter(w, x, land, "none", c).procs[y], sl, sd)
    <3>1. "start" \in StepNames /\ "always" \in Outcomes /\ "none" \in ErrorNames
      BY DEF StepNames, Outcomes, ErrorNames
    <3>2. RouteDecision(PlanOf(x), "start", "always", ContextOf(x, f, c.admission)) = StartOf(x)
      BY <1>2, FrozenStart
    <3>3. StartOf(x).to \notin CleanSteps \cup {"selected_clean"} BY <1>2, PlainStarts
    <3>4. /\ land.error \in ErrorNames
          /\ land.error = "none" =>
               Unbound(x, land.to, Done(o.procs[x], selected)) = {} /\ (NeedsSeal(land.to) => sealed # "none")
      BY <1>2, <1>5, <3>1, <3>2, <3>3, PlainLanding
    <3> QED BY <1>3, <1>10, <2>1, <3>1, <3>4, EnterInputs
  <2> QED BY <1>6, <2>1, <2>2, <2>3
<1>12. ex' = n.ex /\ procs' = n.procs /\ gate' = n.gate /\ mail' = n.mail BY <1>8 DEF Become
<1>13. task' = task /\ staging' = c /\ selected' = sl /\ sealed' = sd BY <1>3, <1>8
<1>14. StagingOK(c) BY <1>2, <1>3
<1> QED BY <1>2, <1>9, <1>11, <1>12, <1>13, <1>14, StepInv

\* Deliveries of gate decisions.
LEMMA ConsumeInv ==
  ASSUME Inv, NEW acked, ConsumeGate(acked)
  PROVE  Inv'
<1>1. PICK o : o = World OBVIOUS
<1>2. /\ task \in AdmissibleTasks /\ StagingOK(staging) /\ SoundWorld(o) /\ o \in Worlds
      /\ o.ex = ex /\ o.procs = procs /\ o.gate = gate /\ o.mail = mail
      /\ \A y \in Execs : InputsOf(y, o.procs[y], selected, sealed)
  BY <1>1, InvFacts
<1>3. PICK f, c, sl, sd : f = fact /\ c = staging /\ sl = selected /\ sd = sealed OBVIOUS
<1>4. PICK w : w = Acked(o, <<"gate", root>>, acked) OBVIOUS
<1>5. PICK on : on = IF o.gate = "released" THEN "succeeded" ELSE "failed" OBVIOUS
<1>6. PICK land : land = Landing(root, "human_review", on, Context(f, c.admission), o.procs[root]) OBVIOUS
<1>7. PICK u : u = RootAs(w, "active", "none") OBVIOUS
<1>8. PICK n : n = IF o.ex[root].status = "active" \/ o.ex[root].waiting = "human_review"
                   THEN Enter(u, root, land, "gate-rejected", c) ELSE w
  OBVIOUS
<1>9. After(<<"gate", root>>, acked) = w BY <1>1, <1>4 DEF After, Acked
<1>10. /\ Become(n) /\ UNCHANGED <<task, staging, sealed, selected>> /\ <<"gate", root>> \in o.mail
  BY <1>2, <1>3, <1>5, <1>6, <1>7, <1>8, <1>9 DEF ConsumeGate, RootAs
<1>11. SoundWorld(n)
  <2>1. InputsOf(root, o.procs[root], selected, sealed) BY <1>2, ExecNames
  <2> QED BY <1>2, <1>4, <1>5, <1>6, <1>7, <1>8, <1>10, <2>1, GateSound
<1>12. w \in Worlds /\ w.procs = o.procs BY <1>2, <1>4, AckFields
<1>13. u \in Worlds /\ u.procs = w.procs
  <2>1. w.gate \in GateStatus /\ "active" \in ExStatus /\ "none" \in WaitKinds
    BY <1>12 DEF Worlds, ExStatus, WaitKinds
  <2> QED BY <1>7, <1>12, <2>1, RowUpdate
<1>14. \A y \in Execs : InputsOf(y, n.procs[y], sl, sd)
  <2>1. \A y \in Execs : InputsOf(y, w.procs[y], sl, sd) /\ InputsOf(y, u.procs[y], sl, sd)
    BY <1>2, <1>3, <1>12, <1>13
  <2>2. \A y \in Execs : InputsOf(y, Enter(u, root, land, "gate-rejected", c).procs[y], sl, sd)
    <3>1. "human_review" \in StepNames /\ on \in Outcomes /\ "gate-rejected" \in ErrorNames /\ root \in Execs
      BY <1>5, ExecNames DEF StepNames, Outcomes, ErrorNames
    <3>2. RouteDecision(PlanOf(root), "human_review", on, Context(f, c.admission)).to
            \notin CleanSteps \cup {"selected_clean"}
      BY <1>2, <1>5, FrozenResume, PlainStarts, PlainFailure
    <3>3. /\ land.error \in ErrorNames
          /\ land.error = "none" =>
               Unbound(root, land.to, Done(o.procs[root], selected)) = {} /\ (NeedsSeal(land.to) => sealed # "none")
      BY <1>2, <1>6, <3>1, <3>2, PlainLanding
    <3> QED BY <1>3, <1>12, <1>13, <2>1, <3>1, <3>3, EnterInputs
  <2> QED BY <1>8, <2>1, <2>2
<1>15. ex' = n.ex /\ procs' = n.procs /\ gate' = n.gate /\ mail' = n.mail BY <1>10 DEF Become
<1>16. task' = task /\ staging' = c /\ selected' = sl /\ sealed' = sd BY <1>3, <1>10
<1>17. StagingOK(c) BY <1>2, <1>3
<1> QED BY <1>2, <1>11, <1>14, <1>15, <1>16, <1>17, StepInv

\* Claims.
LEMMA ClaimInv ==
  ASSUME Inv, NEW x \in Execs, Claim(x)
  PROVE  Inv'
<1>1. PICK o : o = World OBVIOUS
<1>2. /\ task \in AdmissibleTasks /\ StagingOK(staging) /\ SoundWorld(o) /\ o \in Worlds
      /\ o.ex = ex /\ o.procs = procs /\ o.gate = gate /\ o.mail = mail
      /\ \A y \in Execs : InputsOf(y, o.procs[y], selected, sealed)
  BY <1>1, InvFacts
<1>3. PICK c, sl, sd : c = staging /\ sl = selected /\ sd = sealed OBVIOUS
<1>4. PICK p \in o.procs[x] : p.status = "ready" /\ Become(SetStatus(o, x, p, "running"))
  BY <1>1, <1>2 DEF Claim
<1>5. PICK n : n = SetStatus(o, x, p, "running") OBVIOUS
<1>6. SoundWorld(n) BY <1>2, <1>4, <1>5, ClaimSound
<1>7. AllEvolve(o, n) BY <1>2, <1>4, <1>5, StatusKeeps DEF LiveStatus
<1>8. \A y \in Execs : InputsOf(y, n.procs[y], sl, sd) BY <1>2, <1>3, <1>7, InputsKept DEF AllEvolve
<1>9. ex' = n.ex /\ procs' = n.procs /\ gate' = n.gate /\ mail' = n.mail BY <1>4, <1>5 DEF Become
<1>10. task' = task /\ staging' = c /\ selected' = sl /\ sealed' = sd BY <1>3 DEF Claim
<1>11. StagingOK(c) BY <1>2, <1>3
<1> QED BY <1>2, <1>6, <1>8, <1>9, <1>10, <1>11, StepInv

\* Failures.
LEMMA FailInv ==
  ASSUME Inv, NEW x \in Execs, Fail(x)
  PROVE  Inv'
<1>1. PICK o : o = World OBVIOUS
<1>2. /\ task \in AdmissibleTasks /\ StagingOK(staging) /\ SoundWorld(o) /\ o \in Worlds
      /\ o.ex = ex /\ o.procs = procs /\ o.gate = gate /\ o.mail = mail
      /\ \A y \in Execs : InputsOf(y, o.procs[y], selected, sealed)
  BY <1>1, InvFacts
<1>3. PICK f, c, sl, sd : f = fact /\ c = staging /\ sl = selected /\ sd = sealed OBVIOUS
<1>4. PICK p \in Running(x) : \E w \in {SetStatus(World, x, p, "failed")} :
         Become(Enter(w, x, Landing(x, p.step, "failed", ContextOf(x, fact, staging.admission), w.procs[x]),
                      "process-failed", staging))
  BY DEF Fail
<1>5. p \in o.procs[x] /\ p.status = "running" BY <1>2 DEF Running
<1>6. PICK w : w = SetStatus(o, x, p, "failed") OBVIOUS
<1>7. PICK land : land = Landing(x, p.step, "failed", ContextOf(x, f, c.admission), w.procs[x]) OBVIOUS
<1>8. PICK n : n = Enter(w, x, land, "process-failed", c) OBVIOUS
<1>9. Become(n) BY <1>1, <1>3, <1>4, <1>6, <1>7, <1>8
<1>10. "process-failed" \in ErrorNames /\ "failed" \in Outcomes BY DEF ErrorNames, Outcomes
<1>11. SoundWorld(n) BY <1>2, <1>3, <1>5, <1>6, <1>7, <1>8, <1>10, OutcomeSound
<1>12. AllEvolve(o, w) /\ w \in Worlds
  BY <1>2, <1>5, <1>6, StatusKeeps, SetStatusFields DEF TerminalStatus
<1>13. \A y \in Execs : InputsOf(y, w.procs[y], sl, sd) BY <1>2, <1>3, <1>12, InputsKept DEF AllEvolve
<1>14. \A y \in Execs : InputsOf(y, n.procs[y], sl, sd)
  <2>1. p.step \in StepNames BY <1>2, <1>5, NamedSteps
  <2>2. /\ land.error \in ErrorNames
        /\ land.error = "none" =>
             Unbound(x, land.to, Done(w.procs[x], selected)) = {} /\ (NeedsSeal(land.to) => sealed # "none")
    BY <1>2, <1>7, <1>10, <2>1, PlainFailure, PlainLanding
  <2> QED BY <1>3, <1>8, <1>10, <1>12, <1>13, <2>2, EnterInputs
<1>15. ex' = n.ex /\ procs' = n.procs /\ gate' = n.gate /\ mail' = n.mail BY <1>9 DEF Become
<1>16. task' = task /\ staging' = c /\ selected' = sl /\ sealed' = sd BY <1>3 DEF Fail
<1>17. StagingOK(c) BY <1>2, <1>3
<1> QED BY <1>2, <1>11, <1>14, <1>15, <1>16, <1>17, StepInv

\* Processes closed under a cancellation.
LEMMA CancelAckInv ==
  ASSUME Inv, NEW x \in Execs, CancelAck(x)
  PROVE  Inv'
<1>1. PICK o : o = World OBVIOUS
<1>2. /\ task \in AdmissibleTasks /\ StagingOK(staging) /\ SoundWorld(o) /\ o \in Worlds
      /\ o.ex = ex /\ o.procs = procs /\ o.gate = gate /\ o.mail = mail
      /\ \A y \in Execs : InputsOf(y, o.procs[y], selected, sealed)
  BY <1>1, InvFacts
<1>3. PICK c, sl, sd : c = staging /\ sl = selected /\ sd = sealed OBVIOUS
<1>4. PICK p \in o.procs[x] : /\ p.status = "cancelling"
                              /\ \E w \in {SetStatus(o, x, p, "cancelled")} :
                                   Become(IF x = root THEN ConvergeCancelledRoot(w)
                                          ELSE IF Busy(w, x) THEN w
                                          ELSE NotifyParent(EndAs(w, x, "cancelled", "none"), x))
  BY <1>1, <1>2 DEF CancelAck
<1>5. PICK w : w = SetStatus(o, x, p, "cancelled") OBVIOUS
<1>6. PICK n : n = IF x = root THEN ConvergeCancelledRoot(w)
                   ELSE IF Busy(w, x) THEN w
                   ELSE NotifyParent(EndAs(w, x, "cancelled", "none"), x)
  OBVIOUS
<1>7. Become(n) BY <1>4, <1>5, <1>6
<1>8. SoundWorld(n) BY <1>2, <1>4, <1>5, <1>6, CancelAckSound
<1>9. AllEvolve(o, w) /\ w \in Worlds
  BY <1>2, <1>4, <1>5, StatusKeeps, SetStatusFields DEF TerminalStatus
<1>10. n.procs = w.procs
  <2>1. ConvergeCancelledRoot(w).procs = w.procs BY <1>9, ConvergeKeeps
  <2>2. EndAs(w, x, "cancelled", "none") \in Worlds /\ EndAs(w, x, "cancelled", "none").procs = w.procs
    <3>1. "cancelled" \in TerminalStatus /\ "none" \in ErrorNames BY DEF TerminalStatus, ErrorNames
    <3> QED BY <1>9, <3>1, EndAsFields
  <2>3. NotifyParent(EndAs(w, x, "cancelled", "none"), x).procs = w.procs BY <2>2, ConvergeKeeps
  <2> QED BY <1>6, <2>1, <2>3
<1>11. \A y \in Execs : InputsOf(y, n.procs[y], sl, sd) BY <1>2, <1>3, <1>9, <1>10, InputsKept DEF AllEvolve
<1>12. ex' = n.ex /\ procs' = n.procs /\ gate' = n.gate /\ mail' = n.mail BY <1>7 DEF Become
<1>13. task' = task /\ staging' = c /\ selected' = sl /\ sealed' = sd BY <1>3 DEF CancelAck
<1>14. StagingOK(c) BY <1>2, <1>3
<1> QED BY <1>2, <1>8, <1>11, <1>12, <1>13, <1>14, StepInv

\* Cancellations of the Task.
LEMMA RequestCancelInv ==
  ASSUME Inv, RequestCancel
  PROVE  Inv'
<1>1. PICK o : o = World OBVIOUS
<1>2. /\ task \in AdmissibleTasks /\ StagingOK(staging) /\ SoundWorld(o) /\ o \in Worlds
      /\ o.ex = ex /\ o.procs = procs /\ o.gate = gate /\ o.mail = mail
      /\ \A y \in Execs : InputsOf(y, o.procs[y], selected, sealed)
  BY <1>1, InvFacts
<1>3. PICK sl, sd : sl = selected /\ sd = sealed OBVIOUS
<1>4. PICK c : c = IF staging.state \in {"open", "sealed"} THEN [staging EXCEPT !.state = "abandoned"] ELSE staging
  OBVIOUS
<1>5. PICK n : n = CancelTree(o, Execs) OBVIOUS
<1>6. SoundWorld(n) BY <1>2, <1>5, CancelAll DEF RequestCancel
<1>7. AllEvolve(o, n) BY <1>2, <1>5, CancelKeeps
<1>8. \A y \in Execs : InputsOf(y, n.procs[y], sl, sd) BY <1>2, <1>3, <1>7, InputsKept DEF AllEvolve
<1>9. ex' = n.ex /\ procs' = n.procs /\ gate' = n.gate /\ mail' = n.mail
  BY <1>1, <1>5 DEF RequestCancel, Become
<1>10. task' = task /\ staging' = c /\ selected' = sl /\ sealed' = sd BY <1>3, <1>4 DEF RequestCancel
<1>11. StagingOK(c) BY <1>2, <1>4 DEF StagingOK
<1> QED BY <1>2, <1>6, <1>8, <1>9, <1>10, <1>11, StepInv

\* Decisions of a gate.
LEMMA DecideInv ==
  ASSUME Inv, DecideGate
  PROVE  Inv'
<1>1. PICK o : o = World OBVIOUS
<1>2. /\ task \in AdmissibleTasks /\ StagingOK(staging) /\ SoundWorld(o) /\ o \in Worlds
      /\ o.ex = ex /\ o.procs = procs /\ o.gate = gate /\ o.mail = mail
      /\ \A y \in Execs : InputsOf(y, o.procs[y], selected, sealed)
  BY <1>1, InvFacts
<1>3. PICK c, sl, sd, g : c = staging /\ sl = selected /\ sd = sealed /\ g = gate' OBVIOUS
<1>4. g \in {"released", "rejected"} BY <1>3 DEF DecideGate
<1>5. PICK n : n = [o EXCEPT !.gate = g, !.mail = @ \cup {<<"gate", root>>}] OBVIOUS
<1>6. SoundWorld(n) BY <1>2, <1>4, <1>5, DecideSound DEF DecideGate
<1>7. n.ex = o.ex /\ n.procs = o.procs /\ n.gate = g /\ n.mail = o.mail \cup {<<"gate", root>>}
  <2>1. PICK m : m = o.mail \cup {<<"gate", root>>} OBVIOUS
  <2>2. n = [o EXCEPT !.gate = g, !.mail = m] BY <1>5, <2>1
  <2>0. PICK A, B, C, D : /\ A = [Execs -> Rows] /\ B = [Execs -> SUBSET Processes]
                          /\ C = GateStatus /\ D = SUBSET ({"wake", "gate"} \X Execs)
    BY Zenon
  <2>3. o \in [ex : A, procs : B, gate : C, mail : D] BY <1>2, <2>0 DEF Worlds
  <2> QED BY <2>1, <2>2, <2>3
<1>8. ex' = n.ex /\ procs' = n.procs /\ gate' = n.gate /\ mail' = n.mail
  BY <1>2, <1>3, <1>7 DEF DecideGate
<1>9. task' = task /\ staging' = c /\ selected' = sl /\ sealed' = sd BY <1>3 DEF DecideGate
<1>10. StagingOK(c) BY <1>2, <1>3
<1>11. \A y \in Execs : InputsOf(y, n.procs[y], sl, sd) BY <1>2, <1>3, <1>7
<1> QED BY <1>2, <1>6, <1>8, <1>9, <1>10, <1>11, StepInv

\* A commit keeps the invariant when the world it leads to is sound.
LEMMA CommitInv ==
  ASSUME Inv, NEW x \in Execs, NEW p \in Running(x), NEW f, NEW c, StagingOK(c),
         NEW w \in Worlds, w.procs = procs, Commit(x, p, f, c, w),
         NEW v, v = SetStatus(w, x, p, "succeeded"),
         NEW land, land = Landing(x, p.step, "succeeded", ContextOf(x, f, c.admission), v.procs[x]),
         SoundWorld(Enter(v, x, land, "none", c))
  PROVE  Inv'
<1>1. PICK o : o = World OBVIOUS
<1>2. /\ task \in AdmissibleTasks /\ StagingOK(staging) /\ SoundWorld(o) /\ o \in Worlds
      /\ o.ex = ex /\ o.procs = procs /\ o.gate = gate /\ o.mail = mail
      /\ \A y \in Execs : InputsOf(y, o.procs[y], selected, sealed)
  BY <1>1, InvFacts
<1>3. p \in o.procs[x] /\ p \in w.procs[x] /\ p.status = "running" BY <1>2 DEF Running
<1>4. "succeeded" \in LiveStatus \cup TerminalStatus /\ "failed" \in LiveStatus \cup TerminalStatus
      /\ "failed" \in TerminalStatus /\ "none" \in ErrorNames /\ "succeeded" \in Outcomes
  BY DEF TerminalStatus, ErrorNames, Outcomes
<1>5. CASE /\ land.error \in RaisedErrors
           /\ Become(Terminalize(SetStatus(World, x, p, "failed"), x, "failed", land.error))
           /\ UNCHANGED <<task, fact, staging, sealed, selected>>
  <2>1. PICK d, sl, sd : d = staging /\ sl = selected /\ sd = sealed OBVIOUS
  <2>2. PICK u : u = SetStatus(o, x, p, "failed") OBVIOUS
  <2>3. PICK n : n = Terminalize(u, x, "failed", land.error) OBVIOUS
  <2>4. SoundWorld(n) BY <1>2, <1>3, <1>5, <2>2, <2>3, RaisedSound
  <2>5. AllEvolve(o, u) /\ u \in Worlds BY <1>2, <1>3, <1>4, <2>2, StatusKeeps, SetStatusFields
  <2>6. \A y \in Execs : InputsOf(y, u.procs[y], sl, sd) BY <1>2, <2>1, <2>5, InputsKept DEF AllEvolve
  <2>7. land.error \in ErrorNames BY <1>5 DEF ErrorNames
  <2>8. AllEvolve(u, n) BY <1>4, <2>3, <2>5, <2>7, TerminalizeKeeps
  <2>9. \A y \in Execs : InputsOf(y, n.procs[y], sl, sd) BY <2>6, <2>8, InputsKept DEF AllEvolve
  <2>10. ex' = n.ex /\ procs' = n.procs /\ gate' = n.gate /\ mail' = n.mail
    BY <1>1, <1>5, <2>2, <2>3 DEF Become
  <2>11. task' = task /\ staging' = d /\ selected' = sl /\ sealed' = sd BY <1>5, <2>1
  <2>12. StagingOK(d) BY <1>2, <2>1
  <2> QED BY <1>2, <2>4, <2>9, <2>10, <2>11, <2>12, StepInv
<1>6. CASE /\ land.error \notin RaisedErrors
           /\ Become(Enter(v, x, land, "none", c))
           /\ staging' = c
           /\ sealed' = land.seal
           /\ selected' = IF land.pick = "none" THEN selected ELSE land.pick
           /\ UNCHANGED task
  <2>1. PICK sl, sd : sl = (IF land.pick = "none" THEN selected ELSE land.pick) /\ sd = land.seal OBVIOUS
  <2>2. PICK n : n = Enter(v, x, land, "none", c) OBVIOUS
  <2>3. AllEvolve(w, v) /\ v \in Worlds BY <1>3, <1>4, StatusKeeps, SetStatusFields
  <2>4. /\ selected # "none" => sl # "none"
        /\ sealed # "none" => sd # "none"
    BY <2>1, SealKept
  <2>5. \A y \in Execs : InputsOf(y, v.procs[y], sl, sd)
    BY <1>2, <2>3, <2>4, InputsKept DEF AllEvolve
  <2>6. p.step \in StepNames /\ "none" \notin Succeeded(v.procs[x]) BY <1>3, <2>3, NamedSteps
  <2>7. /\ land.error \in ErrorNames
        /\ land.error = "none" => GoodLanding(x, p.step, "succeeded", ContextOf(x, f, c.admission), v.procs[x], land)
    BY <1>2, <1>4, <2>6, LandingFacts
  <2>8. land.error = "none" =>
          Unbound(x, land.to, Done(v.procs[x], sl)) = {} /\ (NeedsSeal(land.to) => sd # "none")
    BY <2>1, <2>7 DEF GoodLanding
  <2>9. \A y \in Execs : InputsOf(y, n.procs[y], sl, sd)
    BY <1>4, <2>2, <2>3, <2>5, <2>7, <2>8, EnterInputs
  <2>10. ex' = n.ex /\ procs' = n.procs /\ gate' = n.gate /\ mail' = n.mail
    BY <1>6, <2>2 DEF Become
  <2>11. task' = task /\ staging' = c /\ selected' = sl /\ sealed' = sd BY <1>6, <2>1
  <2> QED BY <1>2, <2>2, <2>9, <2>10, <2>11, StepInv
<1> QED BY <1>5, <1>6 DEF Commit

\* A commit over the present world keeps the invariant.
LEMMA CommitHereInv ==
  ASSUME Inv, NEW x \in Execs, NEW p \in Running(x), NEW f, NEW c, StagingOK(c),
         Commit(x, p, f, c, World)
  PROVE  Inv'
<1>1. PICK o : o = World OBVIOUS
<1>2. /\ task \in AdmissibleTasks /\ SoundWorld(o) /\ o \in Worlds /\ o.procs = procs
  BY <1>1, InvFacts
<1>3. p \in o.procs[x] /\ p.status = "running" BY <1>2 DEF Running
<1>4. PICK v : v = SetStatus(o, x, p, "succeeded") OBVIOUS
<1>5. PICK land : land = Landing(x, p.step, "succeeded", ContextOf(x, f, c.admission), v.procs[x]) OBVIOUS
<1>6. "none" \in ErrorNames BY DEF ErrorNames
<1>7. SoundWorld(Enter(v, x, land, "none", c)) BY <1>2, <1>3, <1>4, <1>5, <1>6, OutcomeSound
<1>8. Commit(x, p, f, c, o) BY <1>1
<1> QED BY <1>2, <1>4, <1>5, <1>7, <1>8, CommitInv

\* Acceptances of a collection.
LEMMA AcceptCollectionInv ==
  ASSUME Inv, AcceptCollection
  PROVE  Inv'
<1>1. PICK o : o = World OBVIOUS
<1>2. /\ task \in AdmissibleTasks /\ StagingOK(staging) /\ SoundWorld(o) /\ o \in Worlds /\ o.procs = procs
  BY <1>1, InvFacts
<1>3. PICK f, s : f = fact /\ s = staging OBVIOUS
<1>4. PICK c : c = [s EXCEPT !.state = "accepted", !.fresh = TRUE] OBVIOUS
<1>5. PICK p \in Running(root), M \in MemberSets :
        /\ p.step = "accept_snapshot" /\ task.plan = "scatter" /\ staging.state = "sealed"
        /\ Commit(root, p, fact, [staging EXCEPT !.state = "accepted", !.fresh = TRUE],
                  AdmitChildren(M, staging.admission))
  BY DEF AcceptCollection
<1>6. s.admission = Admission(task.review) BY <1>2, <1>3, <1>5 DEF StagingOK
<1>7. StagingOK(c) /\ c.admission = s.admission BY <1>2, <1>3, <1>4, <1>6 DEF StagingOK
<1>8. PICK w : w = Admitted(o, M, c.admission) OBVIOUS
<1>9. AdmitChildren(M, s.admission) = w BY <1>1, <1>7, <1>8 DEF AdmitChildren, Admitted
<1>10. Commit(root, p, f, c, w) BY <1>3, <1>4, <1>5, <1>9
<1>11. w \in Worlds /\ w.procs = procs BY <1>2, <1>8, AdmitFields
<1>12. p \in o.procs[root] /\ p.status = "running" BY <1>2 DEF Running
<1>13. PICK v : v = SetStatus(w, root, p, "succeeded") OBVIOUS
<1>14. PICK land : land = Landing(root, p.step, "succeeded", ContextOf(root, f, c.admission), v.procs[root])
  OBVIOUS
<1>15. land = Landing(root, p.step, "succeeded", Context(f, c.admission), v.procs[root])
  BY <1>14 DEF ContextOf
<1>16. SoundWorld(Enter(v, root, land, "none", c))
  BY <1>2, <1>5, <1>6, <1>7, <1>8, <1>12, <1>13, <1>15, CollectionSound
<1> QED BY <1>7, <1>10, <1>11, <1>13, <1>14, <1>16, CommitInv, ExecNames

\* The other stages of the root.
LEMMA StageInv ==
  ASSUME Inv, StageNext
  PROVE  Inv'
<1>1. task \in AdmissibleTasks /\ StagingOK(staging) /\ root \in Execs BY ExecNames DEF Inv
<1>2. PICK s, g : s = staging /\ g = fact OBVIOUS
<1>3. CASE Acquire
  <2>1. PICK p, f : p \in Running(root) /\ Commit(root, p, f, s, World) BY <1>2, <1>3 DEF Acquire
  <2> QED BY <1>1, <1>2, <2>1, CommitHereInv
<1>4. CASE Decode
  <2>1. PICK p, f : p \in Running(root) /\ Commit(root, p, f, s, World) BY <1>2, <1>4 DEF Decode
  <2> QED BY <1>1, <1>2, <2>1, CommitHereInv
<1>5. CASE Clean
  <2>1. PICK p \in Running(root) : Commit(root, p, g, s, World) BY <1>2, <1>5 DEF Clean
  <2> QED BY <1>1, <1>2, <2>1, CommitHereInv
<1>6. CASE SealCandidates
  <2>1. PICK c : c = [state |-> "open", admission |-> "none", fresh |-> FALSE] OBVIOUS
  <2>2. PICK p \in Running(root) : Commit(root, p, g, c, World) BY <1>2, <1>6, <2>1 DEF SealCandidates
  <2>3. StagingOK(c) BY <2>1 DEF StagingOK
  <2> QED BY <1>1, <2>2, <2>3, CommitHereInv
<1>7. CASE Preflight
  <2>1. PICK c : c = [s EXCEPT !.state = "sealed", !.admission = Admission(task.review)] OBVIOUS
  <2>2. PICK p \in Running(root) : Commit(root, p, g, c, World) BY <1>2, <1>7, <2>1 DEF Preflight
  <2>3. StagingOK(c)
    <3>1. Admission(task.review) \in {"auto_admitted", "human_review_required"} BY DEF Admission
    <3>2. PICK a : a = Admission(task.review) OBVIOUS
    <3> QED BY <1>1, <1>2, <2>1, <3>1, <3>2 DEF StagingOK
  <2> QED BY <1>1, <2>2, <2>3, CommitHereInv
<1>8. CASE AcceptSnapshot
  <2>1. PICK p \in Running(root), new \in BOOLEAN :
          /\ staging.state = "sealed"
          /\ Commit(root, p, fact, [staging EXCEPT !.state = "accepted", !.fresh = new], World)
    BY <1>8 DEF AcceptSnapshot
  <2>2. PICK c : c = [s EXCEPT !.state = "accepted", !.fresh = new] OBVIOUS
  <2>3. Commit(root, p, g, c, World) BY <1>2, <2>1, <2>2
  <2>4. StagingOK(c) BY <1>1, <1>2, <2>1, <2>2 DEF StagingOK
  <2> QED BY <1>1, <2>3, <2>4, CommitHereInv
<1>9. CASE AcceptCollection BY <1>9, AcceptCollectionInv
<1> QED BY <1>3, <1>4, <1>5, <1>6, <1>7, <1>8, <1>9 DEF StageNext

\* Outcomes of the steps that report nothing.
LEMMA GenerateInv ==
  ASSUME Inv, NEW x \in Execs, Generate(x)
  PROVE  Inv'
<1>1. StagingOK(staging) BY DEF Inv
<1>2. PICK s, g : s = staging /\ g = fact OBVIOUS
<1>3. PICK p \in Running(x) : Commit(x, p, g, s, World) BY <1>2 DEF Generate
<1> QED BY <1>1, <1>2, <1>3, CommitHereInv

\* The invariant holds initially: the root is active, and its wake is sent.
LEMMA InitInv ==
  ASSUME Init
  PROVE  Inv
<1>1. task \in AdmissibleTasks BY TasksAssumption DEF Init
<1>2. PICK o : o = World OBVIOUS
<1>3. /\ o.ex = ex /\ o.procs = procs /\ o.gate = "none" /\ o.mail = {<<"wake", root>>}
      /\ o = [ex |-> ex, procs |-> procs, gate |-> "none", mail |-> {<<"wake", root>>}]
  BY <1>2 DEF World, Init
<1>4. \A x \in Execs : o.procs[x] = {} BY <1>3 DEF Init
<1>5. /\ o.ex[root].status = "active" /\ o.ex[root].waiting = "none"
      /\ \A c \in Children : o.ex[c].status = "absent" /\ o.ex[c].waiting = "none"
  BY <1>3, ExecNames DEF Init
<1>6. o \in Worlds
  <2>1. ex \in [Execs -> Rows]
    BY DEF Init, Rows, ExStatus, WaitKinds, ErrorNames
  <2>2. procs \in [Execs -> SUBSET Processes] BY DEF Init
  <2>3. {<<"wake", root>>} \in SUBSET ({"wake", "gate"} \X Execs) /\ "none" \in GateStatus
    BY ExecNames DEF GateStatus
  <2> QED BY <1>3, <2>1, <2>2, <2>3 DEF Worlds
<1>7. \A x \in Execs : Path(o, x) BY <1>4 DEF Path
<1>8. \A x \in Execs : Row(o, x)
  <2>1. Row(o, root) BY <1>3, <1>4, <1>5, ExecNames DEF Row
  <2>2. \A c \in Children : Row(o, c) BY <1>4, <1>5, ExecNames DEF Row
  <2> QED BY <2>1, <2>2, ExecNames
<1>9. GateOK(o) BY <1>3, <1>5 DEF GateOK
<1>10. MembersOf(o) = {} BY <1>5 DEF MembersOf
<1>11. Family(o) BY <1>5, <1>10 DEF Family, TerminalStatus
<1>12. Unreviewed(o) BY <1>4, <1>5, ExecNames DEF Unreviewed
<1>13. SoundWorld(o) BY <1>6, <1>7, <1>8, <1>9, <1>11, <1>12 DEF SoundWorld
<1>14. StagingOK(staging) BY DEF Init, StagingOK
<1>15. \A x \in Execs : InputsOf(x, procs[x], selected, sealed) BY <1>3, <1>4 DEF InputsOf
<1> QED BY <1>1, <1>2, <1>13, <1>14, <1>15 DEF Inv

\* Every step keeps the invariant.
LEMMA NextInv ==
  ASSUME Inv, [Next]_vars
  PROVE  Inv'
<1>1. CASE \E x \in Execs, acked \in BOOLEAN : Wake(x, acked) BY <1>1, WakeInv
<1>2. CASE \E acked \in BOOLEAN : ConsumeGate(acked) BY <1>2, ConsumeInv
<1>3. CASE StageNext BY <1>3, StageInv
<1>4. CASE \E x \in Execs : ProcessNext(x)
  BY <1>4, ClaimInv, GenerateInv, FailInv, CancelAckInv DEF ProcessNext
<1>5. CASE DecideGate BY <1>5, DecideInv
<1>6. CASE RequestCancel BY <1>6, RequestCancelInv
<1>7. CASE UNCHANGED vars
  <2>1. PICK o : o = World OBVIOUS
  <2>2. /\ task \in AdmissibleTasks /\ StagingOK(staging) /\ SoundWorld(o)
        /\ o.ex = ex /\ o.procs = procs /\ o.gate = gate /\ o.mail = mail
        /\ \A y \in Execs : InputsOf(y, o.procs[y], selected, sealed)
    BY <2>1, InvFacts
  <2>3. PICK c, sl, sd : c = staging /\ sl = selected /\ sd = sealed OBVIOUS
  <2>4. /\ ex' = o.ex /\ procs' = o.procs /\ gate' = o.gate /\ mail' = o.mail
        /\ task' = task /\ staging' = c /\ selected' = sl /\ sealed' = sd
    BY <1>7, <2>2, <2>3 DEF vars
  <2> QED BY <2>2, <2>3, <2>4, StepInv
<1> QED BY <1>1, <1>2, <1>3, <1>4, <1>5, <1>6, <1>7 DEF Next

-----------------------------------------------------------------------------
(* What the invariant says. *)

\* The world of every reachable state is sound.
THEOREM RoutingInvariant == Spec => []Inv
<1>1. Init => Inv BY InitInv
<1>2. Inv /\ [Next]_vars => Inv' BY NextInv
<1> QED BY <1>1, <1>2, PTL DEF Spec

\* However often wakes and gate decisions are delivered, an Execution never
\* holds two Processes of a step and never has two at work.
THEOREM StepsHappenOnce == Spec => []StepOnce
<1>1. Inv => StepOnce
  <2> SUFFICES ASSUME Inv PROVE StepOnce OBVIOUS
  <2>1. \A x \in Execs : Path(World, x) /\ World.procs = procs
    BY WorldFields DEF Inv, SoundWorld
  <2>2. \A x \in Execs : \A p, q \in procs[x] : p.step = q.step => p = q
    BY <2>1 DEF Path
  <2>3. ASSUME NEW x \in Execs, NEW p \in procs[x], NEW q \in procs[x],
               {p.status, q.status} \subseteq {"ready", "running", "cancelling"}
        PROVE  p = q
    <3>1. p.status \in LiveStatus /\ q.status \in LiveStatus BY <2>3 DEF LiveStatus
    <3>2. Path(World, x) /\ p \in World.procs[x] /\ q \in World.procs[x] BY <2>1, <2>3
    <3> QED BY <3>1, <3>2, OneLive
  <2> QED BY <2>2, <2>3 DEF StepOnce
<1> QED BY <1>1, RoutingInvariant, PTL

\* Before a required review is released nothing is generated, in the reviewed
\* Execution or in a child.
THEOREM ReviewComesFirst == Spec => []ReviewFirst
<1>1. Inv => ReviewFirst
  <2> SUFFICES ASSUME Inv, task.review, gate # "released", NEW x \in Execs
               PROVE  {p.step : p \in procs[x]} \cap GenerationSteps = {}
    BY DEF ReviewFirst
  <2>1. Unreviewed(World) BY DEF Inv, SoundWorld
  <2>2. /\ \A p \in procs[root] : p.step \notin GenerationSteps
        /\ \A c \in Children : procs[c] = {}
    BY <2>1, WorldFields DEF Unreviewed
  <2> QED BY <2>2, ExecNames
<1> QED BY <1>1, RoutingInvariant, PTL

\* A collection succeeds only over children that all published, and an ended
\* root leaves no child that can still start work.
THEOREM FanInIsComplete == Spec => []FanInComplete
<1>1. Inv => FanInComplete
  <2> SUFFICES ASSUME Inv PROVE FanInComplete OBVIOUS
  <2>1. Family(World) /\ \A x \in Execs : Row(World, x) BY DEF Inv, SoundWorld
  <2>2. (task.plan = "scatter" /\ ex[root].status = "succeeded") =>
          \A c \in MembersOf(World) : ex[c].status = "succeeded" /\ Published(World, c)
    BY <2>1, WorldFields DEF Family
  <2>3. ASSUME ex[root].status \in TerminalStatus, NEW c \in MembersOf(World)
        PROVE  /\ ex[c].status \in TerminalStatus \cup {"cancelling"}
               /\ \A p \in procs[c] : p.status \notin {"ready", "running"}
    <3>1. ex[c].status \in TerminalStatus \cup {"cancelling"}
      BY <2>1, <2>3, WorldFields DEF Family
    <3>2. c \in Execs BY ExecNames DEF MembersOf
    <3>3. \A p \in procs[c] : p.status \in {"ready", "running"} => ex[c].status = "active"
      BY <2>1, <3>2, WorldFields DEF Row
    <3> QED BY <3>1, <3>3 DEF TerminalStatus
  <2> QED BY <2>2, <2>3 DEF FanInComplete
<1> QED BY <1>1, RoutingInvariant, PTL

\* Every Execution that has not ended has something in flight that will move it.
THEOREM NothingIsStranded == Spec => []NothingStranded
<1>1. Inv => NothingStranded
  <2> SUFFICES ASSUME Inv, NEW x \in Execs
               PROVE  LET children == x = root /\ \E c \in MembersOf(World) : ~Ended(World, c)
                          active == ex[x].status = "active"
                      IN  /\ active => Busy(World, x) \/ <<"wake", x>> \in mail
                          /\ ex[x].waiting = "human_review" /\ ex[x].status = "waiting" =>
                               gate = "open" \/ <<"gate", root>> \in mail
                          /\ ex[x].waiting = "scatter_children" /\ ex[x].status = "waiting" => children
                          /\ ex[x].waiting = "durable_prerequisite" => ex[root].waiting = "human_review"
                          /\ ex[x].status = "cancelling" => Busy(World, x) \/ children
    BY DEF NothingStranded
  <2>1. /\ Family(World) /\ GateOK(World) /\ World \in Worlds /\ \A y \in Execs : Row(World, y)
    BY DEF Inv, SoundWorld
  <2>2. Row(World, x) /\ Row(World, root) /\ World.ex[x].status \in ExStatus /\ World.ex[root].status \in ExStatus
    BY <2>1, ExecNames DEF Worlds, Rows
  <2>3. ex[x].status = "active" => Busy(World, x) \/ <<"wake", x>> \in mail
    BY <2>2, WorldFields DEF Row
  <2>4. CASE x = root
    <3>1. ex[x].waiting = "human_review" => gate = "open" \/ <<"gate", root>> \in mail
      BY <2>1, <2>4, WorldFields DEF GateOK
    <3>2. ex[x].waiting = "scatter_children" /\ ex[x].status = "waiting" =>
            \E c \in MembersOf(World) : ~Ended(World, c)
      BY <2>1, <2>4, WorldFields DEF Family
    <3>3. ex[x].waiting # "durable_prerequisite"
      BY <2>2, <2>4, WorldFields DEF Row, ExStatus
    <3>4. ex[x].status = "cancelling" => Busy(World, x) \/ \E c \in MembersOf(World) : ~Ended(World, c)
      BY <2>1, <2>4, WorldFields DEF Family
    <3> QED BY <2>3, <2>4, <3>1, <3>2, <3>3, <3>4
  <2>5. CASE x # root
    <3>1. ex[x].waiting \in {"none", "durable_prerequisite"}
      BY <2>2, <2>5, WorldFields DEF Row, ExStatus
    <3>2. ex[x].status = "cancelling" => Busy(World, x)
      BY <2>2, <2>5, WorldFields DEF Row
    <3>3. ASSUME ex[x].waiting = "durable_prerequisite" PROVE ex[root].waiting = "human_review"
      <4>1. x \in MembersOf(World) /\ ex[x].status = "waiting"
        BY <2>2, <2>5, <3>3, ExecNames, WorldFields DEF Row, MembersOf, ExStatus
      <4>2. ex[root].status \notin {"active", "cancelling"} \cup TerminalStatus
        BY <2>1, <4>1, WorldFields DEF Family, TerminalStatus
      <4>3. ex[root].status = "waiting" BY <2>2, <4>2, WorldFields DEF Row, ExStatus
      <4>4. ex[root].waiting # "scatter_children"
        BY <2>1, <4>1, <4>3, WorldFields DEF Family, TerminalStatus
      <4> QED BY <2>2, <4>3, <4>4, WorldFields DEF Row
    <3> QED BY <2>3, <2>5, <3>1, <3>2, <3>3
  <2> QED BY <2>4, <2>5
<1> QED BY <1>1, RoutingInvariant, PTL
=============================================================================
