--------------------------- MODULE WorkflowRouting ---------------------------
(***************************************************************************)
(* One Task's Executions walking their workflow plans: a root and, for a   *)
(* registered-API collection, one child per accepted member.               *)
(*                                                                         *)
(* WorkflowEngine follows one Process through leases, fences, retries and  *)
(* recovery, over an abstract pipeline; this module abstracts all that to  *)
(* "a running Process reports one outcome" and follows the real graphs:    *)
(* which step comes next, what it may read, where the Execution waits, and *)
(* how a tree of Executions joins, is reviewed and is cancelled.  Each     *)
(* action is one transaction of the code.  Outbox messages are delivered   *)
(* at least once, in any order.                                            *)
(***************************************************************************)
EXTENDS IntakeStages

CONSTANTS PlanBook,   \* the registered plans by name
          Children,   \* the members a collection may have
          Tasks       \* the Task requests considered, see AdmissibleTasks

VARIABLES
  task,       \* the frozen request: plan, intent, markdown, metadata, strategy, mode, review
  ex,         \* Execution -> [status, waiting, error]
  procs,      \* Execution -> its Processes, [step, digest, status]
  fact,       \* the root's latest representation fact
  staging,    \* the candidate set: [state, admission, fresh]; fresh: it made a new revision
  sealed,     \* the clean step the actual binding was sealed for
  selected,   \* the clean step whose output selected_clean projected
  gate,       \* the human-review gate
  mail        \* outbox messages not yet acknowledged

vars == <<task, ex, procs, fact, staging, sealed, selected, gate, mail>>

root == "root"
Execs == {root} \cup Children
TerminalStatus == {"succeeded", "failed", "cancelled"}

PlanOf(x) == PlanBook[IF x = root THEN task.plan ELSE "child"]
MembersOf(w) == {c \in Children : w.ex[c].status # "absent"}

\* Intents that replay frozen state and never seal an actual binding.
ReplayIntents == {"intake.rebuild", "intake.update_metadata", "index.rebuild"}

\* resolve_for_source and assert_clean_strategy_applicable: what admission lets
\* through.  Every intent but ingest runs on the inline plan.
KindOfPlan == [inline |-> "inline_payload", local |-> "local_object",
               http |-> "http_resource", scatter |-> "registered_api"]
AdmissibleTasks ==
  {t \in [plan : {"inline", "local", "http", "scatter"},
          intent : {"intake.ingest", "intake.deactivate", "intake.reactivate", "intake.delete"}
                     \cup ReplayIntents,
          markdown : {"none", "present"}, metadata : {"none", "no_change", "changed"},
          strategy : {"none"} \cup DOMAIN StrategyAcquire,
          mode : {"none", "static", "browser", "pdf"}, review : BOOLEAN] :
     /\ t.intent # "intake.ingest" => t.plan = "inline" /\ t.strategy = "none" /\ ~t.review
     /\ (t.metadata # "none") = (t.intent = "intake.update_metadata")
     /\ t.strategy # "none" => t.strategy \in DeclarableStrategies(KindOfPlan[t.plan])
     /\ (t.mode # "none") = (t.plan = "http")}

GenerationSteps == {"transcribe_markdown", "structurize", "construct", "vectorize", "validate_publication"}

\* The plans a Task's Executions run, and the steps from s on in one of them.
RunPlans == {"inline", "local", "http", "scatter", "child"}
Ahead(k, s) == ReachableFrom(PlanBook[k], {s})

\* What the plans have in common.  Every route leaves fewer steps ahead (a plan
\* has no cycle), a failed step ends its Execution, and where an Execution
\* starts, and where a review resumes it, is a step that works, chosen from the
\* frozen request alone.
ResumeRoute(r) == r.from = "start" \/ (r.from = "human_review" /\ r.on = "succeeded")
PlanShape(k) ==
  \A r \in PlanBook[k].routes :
    /\ Ahead(k, r.to) \subseteq Ahead(k, r.from) /\ Ahead(k, r.to) # Ahead(k, r.from)
    /\ r.on = "failed" => r.to = "failed"
    /\ ResumeRoute(r) =>
         /\ r.guard # "none" => GuardFact[r.guard][1] \in {"intent", "metadata", "markdown", "mode"}
         /\ r.to \notin CleanSteps \cup TerminalSteps \cup {"human_review", "selected_clean"}
         /\ r.from = "start" => r.to # "scatter_children_join"

\* A collection's root ends well only behind its join, and goes from the
\* acceptance to the join or to its review; a child has no step of that kind.
ScatterShape ==
  /\ \A r \in PlanBook["scatter"].routes :
       /\ r.to = "succeeded" => r.from = "scatter_children_join"
       /\ r.from = "accept_snapshot" /\ r.on = "succeeded" =>
            r.to \in {"human_review", "scatter_children_join", "failed"}
       /\ r.from = "human_review" /\ r.on = "succeeded" => r.to = "scatter_children_join"
  /\ \A r \in PlanBook["child"].routes : r.to \notin ControlSteps

\* The ways into generation, and to a collection's join: from the review, for
\* an admission without one, or for an intent that replays accepted content.
ReviewShape(k) ==
  \A r \in PlanBook[k].routes :
    r.to \in GenerationSteps \cup {"scatter_children_join"} =>
      \/ r.from \in GenerationSteps \cup {"human_review"}
      \/ r.guard \in {"admission_auto_markdown", "admission_auto_admitted",
                      "request_intent_rebuild", "request_intent_metadata_refresh"}

ASSUME PlanBookAssumption ==
  RunPlans \subseteq DOMAIN PlanBook /\ \A k \in DOMAIN PlanBook : WellFormed(PlanBook[k])
ASSUME ShapeAssumption ==
  ScatterShape /\ \A k \in RunPlans : PlanShape(k) /\ (k # "child" => ReviewShape(k))
ASSUME TasksAssumption == Tasks \subseteq AdmissibleTasks /\ root \notin Children

Init ==
  /\ task \in Tasks
  /\ ex = [x \in Execs |-> [status |-> IF x = root THEN "active" ELSE "absent",
                            waiting |-> "none", error |-> "none"]]
  /\ procs = [x \in Execs |-> {}]
  /\ fact = NoFact
  /\ staging = [state |-> "none", admission |-> "none", fresh |-> FALSE]
  /\ sealed = "none"
  /\ selected = "none"
  /\ gate = "none"
  /\ mail = {<<"wake", root>>}

-----------------------------------------------------------------------------
(* The typed route context and where a decision lands. *)

\* _typed_route_context_tx: a declared strategy wins over the observed one.
Context(f, admission) ==
  [intent |-> task.intent, metadata |-> task.metadata, markdown |-> task.markdown,
   mode |-> task.mode, media |-> f.media, mainText |-> f.mainText, admission |-> admission,
   autoMarkdown |-> IF task.markdown = "present" THEN admission ELSE "none",
   strategy |-> IF task.strategy # "none" THEN task.strategy ELSE DerivedStrategy(f)]

\* Facts and candidate sets belong to the Execution that produced them: the root.
ContextOf(x, f, admission) == IF x = root THEN Context(f, admission) ELSE Context(NoFact, "none")

Succeeded(P) == {p.step : p \in {q \in P : q.status = "succeeded"}}

\* requires_actual_binding: the clean boundary and everything after it.
NeedsSeal(step) ==
  /\ task.intent \notin ReplayIntents
  /\ step \in CleanSteps \cup (TailSteps \ (TerminalSteps \cup {"human_review"}))

\* Mutant: The binding is sealed only for a declared strategy.
SealedByDeclaration(x, to) ==
  IF x = root /\ to \in CleanSteps /\ sealed = "none" /\ task.strategy # "none" THEN to ELSE sealed

\* seal_actual_binding_tx: the first clean target seals the root; a child
\* inherits its root's binding.
SealedBy(x, to) ==
  IF x = root /\ to \in CleanSteps /\ sealed = "none" /\ task.intent \notin ReplayIntents
  THEN to ELSE sealed

\* Required inputs of a step that no succeeded step provides.
Unbound(x, to, done) ==
  {b \in PlanOf(x).bindings : b.to = to /\ b.req /\ b.from \notin done \cup {"context"}}

\* The errors that stop a decision from being applied.
ArrivalError(x, to, done, seal) ==
  IF to = "none" THEN "workflow-route-unmatched"
  ELSE IF Unbound(x, to, done) # {} THEN "workflow-binding-unavailable"
  ELSE IF NeedsSeal(to) /\ seal = "none" THEN "ACTUAL_S05_UNSEALED"
  ELSE IF NeedsSeal(to) /\ to \in CleanSteps /\ seal # to THEN "ACTUAL_S05_SEAL_CONFLICT"
  ELSE "none"
Arrive(x, d, pick, done, seal) ==
  [to |-> d.to, digest |-> d.digest, pick |-> pick, seal |-> seal,
   error |-> ArrivalError(x, d.to, done, seal)]
Stopped(d, error) == [to |-> d.to, digest |-> d.digest, pick |-> "none", seal |-> sealed, error |-> error]

\* _enter_selected_output_tx: selected_clean projects its single candidate and
\* routes on with an empty context.
Candidate(x, P) ==
  {b.from : b \in {q \in PlanOf(x).bindings : q.to = "selected_clean"}} \cap Succeeded(P)
ProjectSelected(x, d, candidates, P) ==
  IF Cardinality(candidates) # 1 THEN Stopped(d, "workflow-selected-output-conflict")
  ELSE Arrive(x, RouteDecision(PlanOf(x), "selected_clean", "succeeded", Context(NoFact, "none")),
              CHOOSE c \in candidates : TRUE, Succeeded(P) \cup {"selected_clean"}, sealed)

\* Where a decision lands.
Land(x, d, ctx, P) ==
  IF StrategyUnreachable(d.to, ctx) THEN Stopped(d, "workflow-claimed-strategy-unreachable")
  ELSE IF d.to = "selected_clean" THEN ProjectSelected(x, d, Candidate(x, P), P)
  ELSE Arrive(x, d, "none", Succeeded(P) \cup (IF selected = "none" THEN {} ELSE {"selected_clean"}),
              SealedBy(x, d.to))
Landing(x, step, on, ctx, P) == Land(x, RouteDecision(PlanOf(x), step, on, ctx), ctx, P)

-----------------------------------------------------------------------------
(* Ends of Executions.  w is [ex, procs, gate, mail]; a cascade is one     *)
(* transaction, so it is computed on w and committed at once.              *)

Busy(w, x) == \E p \in w.procs[x] : p.status \in {"ready", "running", "cancelling"}
Ended(w, x) == w.ex[x].status \in TerminalStatus
Published(w, x) == "validate_publication" \in Succeeded(w.procs[x])
EndAs(w, x, status, error) ==
  [w EXCEPT !.ex[x] = [status |-> status, waiting |-> "none", error |-> error]]

\* _converge_cancellation_tx of the root: it waits for its descendants.
ConvergeCancelledRoot(w) ==
  IF /\ w.ex[root].status = "cancelling"
     /\ ~Busy(w, root)
     /\ \A c \in MembersOf(w) : Ended(w, c)
  THEN EndAs(w, root, "cancelled", "none") ELSE w

\* Mutant: The root fails with the first child that fails.
FailFast(w) ==
  IF w.ex[root].status # "waiting" \/ w.ex[root].waiting # "scatter_children" THEN w
  ELSE IF \E c \in MembersOf(w) : w.ex[c].status \in {"failed", "cancelled"}
       THEN EndAs(w, root, "failed", "scatter-required-child-failed")
  ELSE IF \E c \in MembersOf(w) : ~Ended(w, c) THEN w
  ELSE EndAs(w, root, "succeeded", "none")

\* _maybe_converge_scatter_root_tx: collect all, then fail on any child that
\* did not succeed, and succeed only over one publication per child.
ConvergeScatterRoot(w) ==
  IF \/ w.ex[root].status # "waiting"
     \/ w.ex[root].waiting # "scatter_children"
     \/ \E c \in MembersOf(w) : ~Ended(w, c)
  THEN w
  ELSE IF \E c \in MembersOf(w) : w.ex[c].status # "succeeded"
       THEN EndAs(w, root, "failed", "scatter-required-child-failed")
  ELSE IF \E c \in MembersOf(w) : ~Published(w, c)
       THEN EndAs(w, root, "failed", "scatter-publication-proof-missing")
  ELSE EndAs(w, root, "succeeded", "none")

\* Mutant: A child that ends looks only for a joining root.
NotifyJoinOnly(w, x) == IF x = root THEN w ELSE ConvergeScatterRoot(w)

\* _notify_scatter_parent_terminal_tx.
NotifyParent(w, x) ==
  IF x = root THEN w
  ELSE IF w.ex[root].status = "cancelling" THEN ConvergeCancelledRoot(w)
  ELSE ConvergeScatterRoot(w)

\* _cancel_execution_tree_tx: unfinished Executions of X are fenced; a child
\* without a leased Process is cancelled at once.
CancelTree(w, X) ==
  LET open == {x \in X : ~Ended(w, x) /\ w.ex[x].status # "absent"}
      Stop(p) == IF p.status = "ready" THEN [p EXCEPT !.status = "cancelled"]
                 ELSE IF p.status = "running" THEN [p EXCEPT !.status = "cancelling"] ELSE p
      stopped == [w EXCEPT !.procs = [x \in Execs |-> IF x \in open THEN {Stop(p) : p \in @[x]} ELSE @[x]],
                           !.gate = IF root \in open /\ @ = "open" THEN "superseded" ELSE @]
      NewEx(x) == IF x # root /\ ~Busy(stopped, x)
                  THEN [status |-> "cancelled", waiting |-> "none", error |-> "none"]
                  ELSE [w.ex[x] EXCEPT !.status = "cancelling"]
  IN  ConvergeCancelledRoot(
        [stopped EXCEPT !.ex = [x \in Execs |-> IF x \in open THEN NewEx(x) ELSE @[x]]])

\* _terminalize_execution_tx and _fail_execution_integrity_tx: a root that
\* fails stops its children first; a child that ends re-evaluates its root.
Terminalize(w, x, status, error) ==
  LET stopped == IF x = root /\ status # "succeeded" THEN CancelTree(w, Children) ELSE w
  IN  NotifyParent(EndAs(stopped, x, status, error), x)

\* Mutant: Only unfinished Processes count as already materialized.
MaterializeAgain(w, x, to, digest) ==
  IF \E p \in w.procs[x] : p.step = to /\ p.digest = digest /\ p.status \notin TerminalStatus THEN w
  ELSE [w EXCEPT !.procs[x] = @ \cup {[step |-> to, digest |-> digest, status |-> "ready"]},
                 !.ex[x] = [status |-> "active", waiting |-> "none", error |-> "none"]]

\* _materialize_process_tx: one Process per (step, route digest).
Materialize(w, x, to, digest) ==
  IF \E p \in w.procs[x] : p.step = to /\ p.digest = digest THEN w
  ELSE [w EXCEPT !.procs[x] = @ \cup {[step |-> to, digest |-> digest, status |-> "ready"]},
                 !.ex[x] = [status |-> "active", waiting |-> "none", error |-> "none"]]

\* _release_scatter_children_tx: the children held for review start.
ReleaseChildren(w) ==
  LET held == {c \in Children : w.ex[c].waiting = "durable_prerequisite"}
  IN  [w EXCEPT !.ex = [x \in Execs |->
                          IF x \in held THEN [@[x] EXCEPT !.status = "active", !.waiting = "none"]
                          ELSE @[x]],
                !.mail = @ \cup {<<"wake", c>> : c \in held}]

\* _enter_scatter_children_join_tx: nothing to join is success; otherwise the
\* root waits for all its children.
JoinChildren(w) ==
  IF MembersOf(w) = {} THEN Terminalize(w, root, "succeeded", "none")
  ELSE [ReleaseChildren(w) EXCEPT !.ex[root].status = "waiting", !.ex[root].waiting = "scatter_children"]

\* _human_review_evidence_tx: an accepted set over a proved preflight, and the
\* Item's latest revision made by this very snapshot.
ItemEvidence(w, x, c) ==
  /\ {"preflight_validate", "accept_snapshot"} \subseteq Succeeded(w.procs[x])
  /\ c.state = "accepted"
  /\ c.fresh

\* _scatter_human_review_evidence_tx: the accepted collection, whose members
\* all have a clean artifact (each is an Item the acceptance inserted) and whose
\* empty form has the acquisition's.
CollectionEvidence(w, x, c) ==
  /\ {"preflight_validate", "accept_snapshot"} \subseteq Succeeded(w.procs[x])
  /\ c.state = "accepted"

\* _enter_control_tx: a gate freezes an admission, its evidence and a sealed
\* binding, or the Execution fails; an open gate is not opened again.
OpenGate(w, x, c, seal) ==
  IF w.gate = "open" \/ w.ex[x].status \in TerminalStatus \cup {"cancelling"} THEN w
  ELSE IF \/ c.admission # "human_review_required"
          \/ ~(IF task.plan = "scatter" THEN CollectionEvidence(w, x, c) ELSE ItemEvidence(w, x, c))
       THEN Terminalize(w, x, "failed", "gate-target-evidence-invalid")
  ELSE IF seal = "none" THEN Terminalize(w, x, "failed", "ACTUAL_S05_UNSEALED")
  ELSE [w EXCEPT !.gate = "open", !.ex[x].status = "waiting", !.ex[x].waiting = "human_review"]

\* _apply_routes_tx: what a landing does; code explains a failure route, c is
\* the candidate set as the transaction leaves it.
Enter(w, x, land, code, c) ==
  IF land.error # "none" THEN Terminalize(w, x, "failed", land.error)
  ELSE IF land.to \in TerminalSteps THEN Terminalize(w, x, land.to, code)
  ELSE IF land.to = "human_review" THEN OpenGate(w, x, c, land.seal)
  ELSE IF land.to = "scatter_children_join" THEN JoinChildren(w)
  ELSE Materialize(w, x, land.to, land.digest)

World == [ex |-> ex, procs |-> procs, gate |-> gate, mail |-> mail]
Become(next) ==
  \E w \in {next} : ex' = w.ex /\ procs' = w.procs /\ gate' = w.gate /\ mail' = w.mail

-----------------------------------------------------------------------------
(* Delivery of outbox messages; an unacknowledged one comes again. *)

After(m, acked) == [World EXCEPT !.mail = IF acked THEN @ \ {m} ELSE @]

\* materialize_root: only an Execution that is not waiting takes its start route.
Wake(x, acked) ==
  /\ <<"wake", x>> \in mail
  /\ \E land \in {Landing(x, "start", "always", ContextOf(x, fact, staging.admission), procs[x])},
        w \in {After(<<"wake", x>>, acked)} :
       Become(IF ex[x].status = "cancelling" /\ x = root THEN ConvergeCancelledRoot(w)
              ELSE IF ex[x].waiting = "scatter_children" THEN ConvergeScatterRoot(w)
              ELSE IF ex[x].status = "active" THEN Enter(w, x, land, "none", staging)
              ELSE w)
  /\ UNCHANGED <<task, fact, staging, sealed, selected>>

\* consume_gate_decision: resumes the wait it decided; a message that finds the
\* Execution waiting for something else is refused and changes nothing.
ConsumeGate(acked) ==
  /\ <<"gate", root>> \in mail
  /\ \E land \in {Landing(root, "human_review", IF gate = "released" THEN "succeeded" ELSE "failed",
                          Context(fact, staging.admission), procs[root])},
        w \in {After(<<"gate", root>>, acked)} :
       Become(IF ex[root].status = "active" \/ ex[root].waiting = "human_review"
              THEN Enter([w EXCEPT !.ex[root].status = "active", !.ex[root].waiting = "none"],
                         root, land, "gate-rejected", staging)
              ELSE w)
  /\ UNCHANGED <<task, fact, staging, sealed, selected>>

-----------------------------------------------------------------------------
(* Processes. *)

SetStatus(w, x, p, s) == [w EXCEPT !.procs[x] = (@ \ {p}) \cup {[p EXCEPT !.status = s]}]
Running(x) == {p \in procs[x] : p.status = "running"}

Claim(x) ==
  /\ \E p \in procs[x] : p.status = "ready" /\ Become(SetStatus(World, x, p, "running"))
  /\ UNCHANGED <<task, fact, staging, sealed, selected>>

\* A worker whose commit raises one of these reports the Process failed.
RaisedErrors ==
  {"workflow-claimed-strategy-unreachable", "workflow-binding-unavailable",
   "ACTUAL_S05_UNSEALED", "ACTUAL_S05_SEAL_CONFLICT"}

\* commit_outcome and _route_after_terminal_process_tx: the outcome, what it
\* reports (fact f, candidate set c, children in w) and the next step commit
\* together or not at all.
Commit(x, p, f, c, w) ==
  \E land \in {Landing(x, p.step, "succeeded", ContextOf(x, f, c.admission),
                       SetStatus(w, x, p, "succeeded").procs[x])} :
    \/ /\ land.error \in RaisedErrors
       /\ Become(Terminalize(SetStatus(World, x, p, "failed"), x, "failed", land.error))
       /\ UNCHANGED <<task, fact, staging, sealed, selected>>
    \/ /\ land.error \notin RaisedErrors
       /\ Become(Enter(SetStatus(w, x, p, "succeeded"), x, land, "none", c))
       /\ fact' = f
       /\ staging' = c
       /\ sealed' = land.seal
       /\ selected' = IF land.pick = "none" THEN selected ELSE land.pick
       /\ UNCHANGED task

\* An acquisition of an ingest observes a representation; other intents acquire
\* their frozen target and observe none.
Acquire ==
  \E p \in Running(root) :
    /\ p.step \in AcquireSteps
    /\ \E f \in IF task.intent = "intake.ingest" THEN AcquiredFacts(p.step, task.mode) ELSE {fact} :
         Commit(root, p, f, staging, World)

Decode ==
  \E p \in Running(root) :
    /\ p.step \in DecodeSteps
    /\ \E f \in DecodedFacts(p.step, fact) : Commit(root, p, f, staging, World)

Clean ==
  \E p \in Running(root) :
    /\ p.step \in CleanSteps \cup {"replay_frozen_clean"}
    /\ CleanerAccepts(p.step, fact.media)
    /\ Commit(root, p, fact, staging, World)

SealCandidates ==
  \E p \in Running(root) :
    /\ p.step = "seal_candidate_set"
    /\ Commit(root, p, fact, [state |-> "open", admission |-> "none", fresh |-> FALSE], World)

Preflight ==
  \E p \in Running(root) :
    /\ p.step = "preflight_validate"
    /\ staging.state = "open"
    /\ Commit(root, p, fact, [staging EXCEPT !.state = "sealed", !.admission = Admission(task.review)], World)

\* Mutant: Children run at once, whatever the admission.
AdmitUnreviewed(M, admission) ==
  [World EXCEPT !.ex = [x \in Execs |-> IF x \in M THEN [status |-> "active", waiting |-> "none", error |-> "none"]
                                         ELSE @[x]],
                !.mail = @ \cup {<<"wake", c>> : c \in M}]

\* _insert_child_execution: running when admitted, held when a review must
\* come first.
NewChild(held) ==
  IF held THEN [status |-> "waiting", waiting |-> "durable_prerequisite", error |-> "none"]
  ELSE [status |-> "active", waiting |-> "none", error |-> "none"]

\* ScatterAcceptanceWriter.commit creates one child per member in the
\* transaction that accepts the collection.
AdmitChildren(M, admission) ==
  LET held == admission = "human_review_required"
  IN  [World EXCEPT !.ex = [x \in Execs |-> IF x \in M THEN NewChild(held) ELSE @[x]],
                    !.mail = @ \cup IF held THEN {} ELSE {<<"wake", c>> : c \in M}]

\* _accept_snapshot: content and metadata an earlier revision of the Item
\* already has are accepted as that revision, and no new one is made.
AcceptSnapshot ==
  \E p \in Running(root), new \in BOOLEAN :
    /\ p.step = "accept_snapshot"
    /\ task.plan # "scatter"
    /\ staging.state = "sealed"
    /\ Commit(root, p, fact, [staging EXCEPT !.state = "accepted", !.fresh = new], World)

\* The collections an accepted set may turn out to be, the empty one included.
MemberSets == SUBSET Children

AcceptCollection ==
  \E p \in Running(root), M \in MemberSets :
    /\ p.step = "accept_snapshot"
    /\ task.plan = "scatter"
    /\ staging.state = "sealed"
    /\ Commit(root, p, fact, [staging EXCEPT !.state = "accepted", !.fresh = TRUE],
              AdmitChildren(M, staging.admission))

\* The remaining steps report nothing the graph reads.
Generate(x) ==
  \E p \in Running(x) :
    /\ p.step \notin AcquireSteps \cup DecodeSteps \cup CleanSteps
         \cup {"replay_frozen_clean", "seal_candidate_set", "preflight_validate", "accept_snapshot"}
    /\ Commit(x, p, fact, staging, World)

\* A handler error, a refused representation or an exhausted retry.
Fail(x) ==
  /\ \E p \in Running(x) :
       \E w \in {SetStatus(World, x, p, "failed")} :
         Become(Enter(w, x, Landing(x, p.step, "failed", ContextOf(x, fact, staging.admission), w.procs[x]),
                      "process-failed", staging))
  /\ UNCHANGED <<task, fact, staging, sealed, selected>>

-----------------------------------------------------------------------------
(* People: review decisions and cancellation. *)

\* decide_gate closes the gate; only its message resumes the Execution.
DecideGate ==
  /\ gate = "open"
  /\ gate' \in {"released", "rejected"}
  /\ mail' = mail \cup {<<"gate", root>>}
  /\ UNCHANGED <<task, ex, procs, fact, staging, sealed, selected>>

RequestCancel ==
  /\ ex[root].status \notin TerminalStatus \cup {"cancelling"}
  /\ Become(CancelTree(World, Execs))
  /\ staging' = IF staging.state \in {"open", "sealed"} THEN [staging EXCEPT !.state = "abandoned"]
                ELSE staging
  /\ UNCHANGED <<task, fact, sealed, selected>>

\* A worker, or lease recovery, closes a Process that was cancelled under it.
CancelAck(x) ==
  /\ \E p \in procs[x] :
       /\ p.status = "cancelling"
       /\ \E w \in {SetStatus(World, x, p, "cancelled")} :
              Become(IF x = root THEN ConvergeCancelledRoot(w)
                     ELSE IF Busy(w, x) THEN w
                     ELSE NotifyParent(EndAs(w, x, "cancelled", "none"), x))
  /\ UNCHANGED <<task, fact, staging, sealed, selected>>

StageNext == Acquire \/ Decode \/ Clean \/ SealCandidates \/ Preflight \/ AcceptSnapshot \/ AcceptCollection
ProcessNext(x) == Claim(x) \/ Generate(x) \/ Fail(x) \/ CancelAck(x)

Next ==
  \/ \E x \in Execs, acked \in BOOLEAN : Wake(x, acked)
  \/ \E acked \in BOOLEAN : ConsumeGate(acked)
  \/ StageNext
  \/ \E x \in Execs : ProcessNext(x)
  \/ DecideGate
  \/ RequestCancel

Spec == Init /\ [][Next]_vars

-----------------------------------------------------------------------------
(* Properties. *)

IntegrityErrors ==
  {"workflow-route-unmatched", "workflow-binding-unavailable", "workflow-selected-output-conflict",
   "ACTUAL_S05_UNSEALED", "ACTUAL_S05_SEAL_CONFLICT", "scatter-publication-proof-missing"}

\* Whatever is requested, observed and decided, no plan runs into one of the
\* interpreter's integrity failures: every outcome has a route, every required
\* input of the step it leads to was produced on the way, selected_clean finds
\* exactly one output, and the actual binding is sealed before it is needed.
\* A review finds its evidence too, with one exception: content the Item
\* already had was accepted as an earlier snapshot's revision, which a gate
\* cannot name, and the Execution fails.
PlansNeverStick ==
  \A x \in Execs :
    /\ ex[x].error \notin IntegrityErrors
    /\ ex[x].error = "gate-target-evidence-invalid" =>
         x = root /\ task.review /\ staging.state = "accepted" /\ ~staging.fresh

\* However often a wake or a gate decision is delivered, before, between and
\* after the steps it started, an Execution never holds two Processes of a step
\* and never has two at work.
StepOnce ==
  \A x \in Execs :
    /\ \A p, q \in procs[x] : p.step = q.step => p = q
    /\ \A p, q \in procs[x] :
         {p.status, q.status} \subseteq {"ready", "running", "cancelling"} => p = q

\* The cleaner that runs fits what was observed and what was asked: PDF
\* cleaners only on PDF bytes, image cleaners only on images, a page whose text
\* is absent only after it was rendered, and never a strategy other than the
\* declared one.
CleanerFits ==
  \A p \in procs[root] :
    p.step \in DOMAIN CleanStepStrategy =>
      /\ p.step \in {"clean_pdf_text", "clean_pdf_llm", "clean_pdf_ocr", "clean_print_pdf"}
           => fact.media = "pdf"
      /\ p.step \in {"clean_doc_ocr", "clean_vision"} => fact.media = "image"
      /\ (fact.media = "text" /\ fact.mainText = "absent" /\ task.plan = "http") => fact.kind = "rendered"
      /\ task.strategy # "none" => CleanStepStrategy[p.step] = task.strategy
      /\ sealed = p.step

\* Nothing is generated from content under review before the review released
\* it: not in the reviewed Execution, not in a collection's children.
ReviewFirst ==
  (task.review /\ gate # "released") =>
    \A x \in Execs : {p.step : p \in procs[x]} \cap GenerationSteps = {}

\* A collection succeeds only over children that all published, and an ended
\* root leaves no child that can still start work.
FanInComplete ==
  /\ (task.plan = "scatter" /\ ex[root].status = "succeeded") =>
       \A c \in MembersOf(World) : ex[c].status = "succeeded" /\ Published(World, c)
  /\ ex[root].status \in TerminalStatus =>
       \A c \in MembersOf(World) :
         /\ ex[c].status \in TerminalStatus \cup {"cancelling"}
         /\ \A p \in procs[c] : p.status \notin {"ready", "running"}

\* Every Execution that has not ended has something in flight that will move
\* it, with no message of its own needed to wake a join: an active one has a
\* Process or a message, a reviewed one an open gate or its decision, a join a
\* child that has not ended, a held child a root still to be reviewed, and a
\* cancelling one a Process or a child to wait for.
NothingStranded ==
  \A x \in Execs :
    LET children == x = root /\ \E c \in MembersOf(World) : ~Ended(World, c)
        active == ex[x].status = "active"
    IN  /\ active => Busy(World, x) \/ <<"wake", x>> \in mail
        /\ ex[x].waiting = "human_review" /\ ex[x].status = "waiting" =>
             gate = "open" \/ <<"gate", root>> \in mail
        /\ ex[x].waiting = "scatter_children" /\ ex[x].status = "waiting" => children
        /\ ex[x].waiting = "durable_prerequisite" => ex[root].waiting = "human_review"
        /\ ex[x].status = "cancelling" => Busy(World, x) \/ children
=============================================================================
