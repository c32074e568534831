--------------------------- MODULE WorkflowGraph ---------------------------
(***************************************************************************)
(* The built-in workflow definitions as data, the rules a definition must  *)
(* satisfy to be registered, and the interpreter's route decision.         *)
(*                                                                         *)
(* A route is [from, on, prio, guard, to]; a binding is [to, port, from,   *)
(* req], its source a step or "context" (the Execution's own manifest).    *)
(* Process keys, phases, schema references and route keys are left out:    *)
(* the interpreter selects by step, outcome, priority and guard.           *)
(***************************************************************************)
EXTENDS Naturals, FiniteSets

R(from, on, prio, guard, to) == [from |-> from, on |-> on, prio |-> prio, guard |-> guard, to |-> to]
Bind(to, port, from) == [to |-> to, port |-> port, from |-> from, req |-> TRUE]
OptBind(to, port, from) == [to |-> to, port |-> port, from |-> from, req |-> FALSE]

\* The unguarded success edge of a step.
Then(from, to) == R(from, "succeeded", 0, "none", to)

TerminalSteps == {"succeeded", "failed", "cancelled"}
ControlSteps == {"human_review", "selected_clean", "scatter_children_join"}

\* _terminal_routes: a failed or cancelled Process ends its Execution.
TerminalRoutes(steps) ==
  {R(s, "failed", 0, "none", "failed") : s \in steps}
    \cup {R(s, "cancelled", 0, "none", "cancelled") : s \in steps}

StepsOf(plan) == {r.from : r \in plan.routes} \cup {r.to : r \in plan.routes}

-----------------------------------------------------------------------------
(* Guards: the fact each one reads and the value it expects. *)

GuardFact ==
  [request_intent_index_rebuild |-> <<"intent", "index.rebuild">>,
   request_intent_rebuild |-> <<"intent", "intake.rebuild">>,
   request_intent_metadata_refresh |-> <<"intent", "intake.update_metadata">>,
   request_intent_deactivate |-> <<"intent", "intake.deactivate">>,
   request_intent_reactivate |-> <<"intent", "intake.reactivate">>,
   request_intent_delete |-> <<"intent", "intake.delete">>,
   metadata_no_change |-> <<"metadata", "no_change">>,
   admission_auto_admitted |-> <<"admission", "auto_admitted">>,
   admission_auto_markdown |-> <<"autoMarkdown", "auto_admitted">>,
   prompt_markdown_present |-> <<"markdown", "present">>,
   admission_human_review_required |-> <<"admission", "human_review_required">>,
   admission_rejected |-> <<"admission", "rejected">>,
   media_pdf |-> <<"media", "pdf">>,
   media_image |-> <<"media", "image">>,
   mode_browser |-> <<"mode", "browser">>,
   mode_pdf |-> <<"mode", "pdf">>,
   main_text_absent |-> <<"mainText", "absent">>,
   strategy_doc_llm |-> <<"strategy", "doc.document_understanding">>,
   strategy_doc_vision |-> <<"strategy", "doc.vision">>,
   strategy_pdf_llm |-> <<"strategy", "pdf.document_understanding">>,
   strategy_pdf_ocr |-> <<"strategy", "pdf.ocr">>,
   strategy_web_llm |-> <<"strategy", "web.llm_rewrite">>,
   strategy_print_pdf |-> <<"strategy", "web.browser_print_pdf">>]

\* CLEAN_STEP_STRATEGIES: the strategy a clean step stands for.
CleanStepStrategy ==
  [clean |-> "doc.deterministic", clean_deterministic |-> "doc.deterministic",
   clean_doc_llm |-> "doc.document_understanding", clean_doc_ocr |-> "doc.ocr",
   clean_vision |-> "doc.vision", clean_pdf_text |-> "pdf.text_layer",
   clean_pdf_llm |-> "pdf.document_understanding", clean_pdf_ocr |-> "pdf.ocr",
   clean_print_pdf |-> "web.browser_print_pdf",
   clean_web_static |-> "web.deterministic", clean_web_browser |-> "web.deterministic",
   clean_web_reacquire |-> "web.deterministic", clean_web_llm_static |-> "web.llm_rewrite",
   clean_web_llm_browser |-> "web.llm_rewrite", clean_web_llm_reacquire |-> "web.llm_rewrite"]

\* The acquisition each strategy can follow, and the strategies a source kind
\* may therefore declare (assert_clean_strategy_applicable).
StrategyAcquire ==
  [k \in {CleanStepStrategy[s] : s \in DOMAIN CleanStepStrategy} |->
     IF k = "web.browser_print_pdf" THEN {"http_browser"}
     ELSE IF k \in {"web.deterministic", "web.llm_rewrite"} THEN {"http_static", "http_browser"}
     ELSE IF k \in {"pdf.text_layer", "pdf.document_understanding", "pdf.ocr"} THEN {"local_object", "http_static"}
     ELSE IF k = "doc.deterministic" THEN {"inline", "local_object"}
     ELSE {"local_object"}]
KindAcquire ==
  [inline_payload |-> {"inline"}, local_object |-> {"local_object"},
   http_resource |-> {"http_static", "http_browser"}, registered_api |-> {"registered_api"}]
DeclarableStrategies(kind) ==
  {k \in DOMAIN StrategyAcquire : KindAcquire[kind] \cap StrategyAcquire[k] # {}}

-----------------------------------------------------------------------------
(* The single-intake graph, revision 4, in the parts the kind graphs share. *)

\* SHARED_TAIL_STEP_KEYS.
TailSteps ==
  {"seal_candidate_set", "preflight_validate", "accept_snapshot", "human_review",
   "transcribe_markdown", "structurize", "construct", "vectorize",
   "validate_publication"} \cup TerminalSteps

\* What follows accept_snapshot: rebuild and refresh skip structurize, the
\* admission result chooses between generation, review and failure.
AcceptRoutes ==
  {R("accept_snapshot", "succeeded", 0, "request_intent_rebuild", "construct"),
   R("accept_snapshot", "succeeded", 1, "request_intent_metadata_refresh", "construct"),
   R("accept_snapshot", "succeeded", 10, "admission_auto_markdown", "transcribe_markdown"),
   R("accept_snapshot", "succeeded", 11, "admission_auto_admitted", "structurize"),
   R("accept_snapshot", "succeeded", 20, "admission_human_review_required", "human_review"),
   R("accept_snapshot", "succeeded", 30, "admission_rejected", "failed"),
   R("human_review", "succeeded", 0, "prompt_markdown_present", "transcribe_markdown"),
   R("human_review", "succeeded", 1, "none", "structurize")}

TailRoutes ==
  AcceptRoutes
    \cup {Then("seal_candidate_set", "preflight_validate"),
          Then("preflight_validate", "accept_snapshot"),
          Then("transcribe_markdown", "structurize"), Then("structurize", "construct"),
          Then("construct", "vectorize"), Then("vectorize", "validate_publication"),
          Then("validate_publication", "succeeded")}
    \cup TerminalRoutes(TailSteps \ TerminalSteps)

\* The head: an index rebuild has a branch of its own, lifecycle commands end
\* after acquire.
SingleRoutes ==
  TailRoutes
    \cup {R("start", "always", 0, "request_intent_index_rebuild", "index_rebuild"),
          R("start", "always", 10, "none", "acquire"),
          R("acquire", "succeeded", 0, "request_intent_index_rebuild", "succeeded"),
          R("acquire", "succeeded", 1, "request_intent_deactivate", "succeeded"),
          R("acquire", "succeeded", 2, "request_intent_reactivate", "succeeded"),
          R("acquire", "succeeded", 3, "request_intent_delete", "succeeded"),
          R("acquire", "succeeded", 4, "metadata_no_change", "succeeded"),
          R("acquire", "succeeded", 10, "none", "decode"),
          Then("decode", "clean"), Then("clean", "seal_candidate_set"),
          Then("index_rebuild", "succeeded")}
    \cup TerminalRoutes({"index_rebuild", "acquire", "decode", "clean"})

TailBindings ==
  {Bind("preflight_validate", "candidate_set_seal", "seal_candidate_set"),
   Bind("accept_snapshot", "candidate_set_seal", "seal_candidate_set"),
   Bind("accept_snapshot", "preflight_outcome", "preflight_validate"),
   Bind("human_review", "accepted_intake_revision", "accept_snapshot"),
   Bind("human_review", "preflight_outcome", "preflight_validate"),
   Bind("transcribe_markdown", "accepted_intake_revision", "accept_snapshot"),
   Bind("structurize", "accepted_intake_revision", "accept_snapshot"),
   OptBind("structurize", "markdown_artifact", "transcribe_markdown"),
   OptBind("construct", "structure_artifact", "structurize"),
   OptBind("construct", "accepted_intake_revision", "accept_snapshot"),
   Bind("vectorize", "construct_package", "construct"),
   Bind("validate_publication", "accepted_intake_revision", "accept_snapshot"),
   Bind("validate_publication", "vectorization_receipt", "vectorize")}

SingleBindings ==
  TailBindings
    \cup {Bind("index_rebuild", "index_rebuild_scope", "context"),
          Bind("acquire", "source_descriptor", "context"),
          Bind("decode", "acquisition_evidence", "acquire"),
          Bind("clean", "decoded_representation", "decode"),
          Bind("seal_candidate_set", "clean_candidate", "clean"),
          Bind("preflight_validate", "acquisition_evidence", "acquire"),
          Bind("preflight_validate", "clean_candidate", "clean")}

SinglePlan == [routes |-> SingleRoutes, bindings |-> SingleBindings]

\* Revisions pinned by Executions older than the current graph.  Dropping a
\* step drops its routes, bindings and the ports it fed.
WithoutStep(plan, step) ==
  [routes |-> {r \in plan.routes : step \notin {r.from, r.to}},
   bindings |-> {b \in plan.bindings : step \notin {b.to, b.from}}]
Reprioritised(plan, from, to, prio) ==
  [plan EXCEPT !.routes =
     {IF r.from = from /\ r.to = to /\ r.on # "failed" /\ r.on # "cancelled"
      THEN [r EXCEPT !.prio = prio] ELSE r : r \in @}]
WithoutMarkdown(plan) ==
  Reprioritised(Reprioritised(WithoutStep(plan, "transcribe_markdown"),
                              "accept_snapshot", "structurize", 10),
                "human_review", "structurize", 0)
WithoutMetadataRefresh(plan) ==
  LET kept == [routes |-> {r \in plan.routes :
                             /\ r.guard # "request_intent_metadata_refresh"
                             /\ ~(r.from = "acquire" /\ r.to = "succeeded")},
               bindings |-> {b \in plan.bindings :
                               <<b.to, b.port>> # <<"construct", "accepted_intake_revision">>}]
      required == {[b EXCEPT !.req = b.req \/ b.to = "construct"] : b \in kept.bindings}
  IN  Reprioritised([kept EXCEPT !.bindings = required], "acquire", "decode", 0)
WithoutIndexRebuild(plan) ==
  Reprioritised(WithoutStep(plan, "index_rebuild"), "start", "acquire", 0)

PlanV3 == WithoutMarkdown(SinglePlan)
PlanV2 == WithoutMetadataRefresh(PlanV3)
PlanV1 == WithoutIndexRebuild(PlanV2)
ProfilePlan == WithoutMetadataRefresh(SinglePlan)

-----------------------------------------------------------------------------
(* One graph per source kind: a head of acquisition, decoding and cleaning,*)
(* then selected_clean, which adopts the one clean output produced, and    *)
(* the shared tail.                                                        *)

\* _compose: clean steps feed the selected output, which feeds the tail.
Compose(steps, routes, bindings, cleans) ==
  [routes |-> routes \cup TailRoutes
                \cup {Then(c, "selected_clean") : c \in cleans}
                \cup {Then("selected_clean", "seal_candidate_set")}
                \cup TerminalRoutes(steps \cup cleans \cup {"selected_clean"}),
   bindings |-> bindings \cup TailBindings
                  \cup {OptBind("selected_clean", c, c) : c \in cleans}
                  \cup {Bind("seal_candidate_set", "clean_candidate", "selected_clean"),
                        Bind("preflight_validate", "clean_candidate", "selected_clean")}]

\* A chain of single predecessors: each step reads what the step before it wrote.
Feeds(pairs) == {Bind(p[2], "input", p[1]) : p \in pairs}

InlinePlan ==
  Compose({"index_rebuild", "metadata_no_change", "acquire_inline", "decode_text"},
    {R("start", "always", 0, "request_intent_index_rebuild", "index_rebuild"),
     R("start", "always", 1, "request_intent_rebuild", "replay_frozen_clean"),
     R("start", "always", 2, "metadata_no_change", "metadata_no_change"),
     R("start", "always", 3, "request_intent_metadata_refresh", "replay_frozen_clean"),
     R("start", "always", 10, "none", "acquire_inline"),
     R("acquire_inline", "succeeded", 0, "request_intent_deactivate", "succeeded"),
     R("acquire_inline", "succeeded", 1, "request_intent_reactivate", "succeeded"),
     R("acquire_inline", "succeeded", 2, "request_intent_delete", "succeeded"),
     R("acquire_inline", "succeeded", 10, "none", "decode_text"),
     Then("decode_text", "clean_deterministic"),
     Then("metadata_no_change", "succeeded"), Then("index_rebuild", "succeeded")},
    Feeds({<<"context", "index_rebuild">>, <<"context", "acquire_inline">>,
           <<"context", "replay_frozen_clean">>, <<"context", "metadata_no_change">>,
           <<"acquire_inline", "decode_text">>, <<"decode_text", "clean_deterministic">>}),
    {"clean_deterministic", "replay_frozen_clean"})

LocalPlan ==
  Compose({"acquire_local", "decode_pdf", "decode_image", "decode_text"},
    {R("start", "always", 0, "none", "acquire_local"),
     R("acquire_local", "succeeded", 0, "media_pdf", "decode_pdf"),
     R("acquire_local", "succeeded", 1, "media_image", "decode_image"),
     R("acquire_local", "succeeded", 10, "none", "decode_text"),
     R("decode_text", "succeeded", 0, "strategy_doc_llm", "clean_doc_llm"),
     R("decode_text", "succeeded", 10, "none", "clean_deterministic"),
     R("decode_image", "succeeded", 0, "strategy_doc_vision", "clean_vision"),
     R("decode_image", "succeeded", 10, "none", "clean_doc_ocr"),
     R("decode_pdf", "succeeded", 0, "strategy_pdf_llm", "clean_pdf_llm"),
     R("decode_pdf", "succeeded", 1, "strategy_pdf_ocr", "clean_pdf_ocr"),
     R("decode_pdf", "succeeded", 10, "none", "clean_pdf_text")},
    Feeds({<<"context", "acquire_local">>, <<"acquire_local", "decode_pdf">>,
           <<"acquire_local", "decode_image">>, <<"acquire_local", "decode_text">>,
           <<"decode_text", "clean_doc_llm">>, <<"decode_text", "clean_deterministic">>,
           <<"decode_image", "clean_vision">>, <<"decode_image", "clean_doc_ocr">>,
           <<"decode_pdf", "clean_pdf_llm">>, <<"decode_pdf", "clean_pdf_ocr">>,
           <<"decode_pdf", "clean_pdf_text">>}),
    {"clean_doc_llm", "clean_deterministic", "clean_vision", "clean_doc_ocr",
     "clean_pdf_llm", "clean_pdf_ocr", "clean_pdf_text"})

\* What follows a decoded web page: a print of it, a rewrite, or its text.
WebRoutes(decode, llm, plain, first) ==
  {R(decode, "succeeded", first, "strategy_print_pdf", "acquire_print"),
   R(decode, "succeeded", first + 1, "strategy_web_llm", llm),
   R(decode, "succeeded", 10, "none", plain)}

HttpPlan ==
  Compose({"acquire_static", "acquire_browser", "acquire_browser_reacquire", "acquire_print",
           "decode_pdf", "decode_print", "decode_web_static", "decode_web_browser",
           "decode_web_reacquire"},
    {R("start", "always", 0, "mode_browser", "acquire_browser"),
     R("start", "always", 10, "none", "acquire_static"),
     R("acquire_static", "succeeded", 0, "mode_pdf", "decode_pdf"),
     R("acquire_static", "succeeded", 10, "none", "decode_web_static"),
     Then("acquire_browser", "decode_web_browser"),
     Then("acquire_browser_reacquire", "decode_web_reacquire"),
     Then("acquire_print", "decode_print"), Then("decode_print", "clean_print_pdf"),
     R("decode_web_static", "succeeded", 0, "main_text_absent", "acquire_browser_reacquire"),
     R("decode_pdf", "succeeded", 0, "strategy_pdf_llm", "clean_pdf_llm"),
     R("decode_pdf", "succeeded", 1, "strategy_pdf_ocr", "clean_pdf_ocr"),
     R("decode_pdf", "succeeded", 10, "none", "clean_pdf_text")}
      \cup WebRoutes("decode_web_static", "clean_web_llm_static", "clean_web_static", 1)
      \cup WebRoutes("decode_web_browser", "clean_web_llm_browser", "clean_web_browser", 0)
      \cup WebRoutes("decode_web_reacquire", "clean_web_llm_reacquire", "clean_web_reacquire", 0),
    Feeds({<<"context", "acquire_static">>, <<"context", "acquire_browser">>,
           <<"context", "acquire_browser_reacquire">>, <<"context", "acquire_print">>,
           <<"acquire_static", "decode_pdf">>, <<"acquire_static", "decode_web_static">>,
           <<"acquire_browser", "decode_web_browser">>,
           <<"acquire_browser_reacquire", "decode_web_reacquire">>,
           <<"acquire_print", "decode_print">>, <<"decode_print", "clean_print_pdf">>,
           <<"decode_web_static", "clean_web_llm_static">>,
           <<"decode_web_static", "clean_web_static">>,
           <<"decode_web_browser", "clean_web_llm_browser">>,
           <<"decode_web_browser", "clean_web_browser">>,
           <<"decode_web_reacquire", "clean_web_llm_reacquire">>,
           <<"decode_web_reacquire", "clean_web_reacquire">>,
           <<"decode_pdf", "clean_pdf_llm">>, <<"decode_pdf", "clean_pdf_ocr">>,
           <<"decode_pdf", "clean_pdf_text">>}),
    {"clean_print_pdf", "clean_web_llm_static", "clean_web_static", "clean_web_llm_browser",
     "clean_web_browser", "clean_web_llm_reacquire", "clean_web_reacquire",
     "clean_pdf_llm", "clean_pdf_ocr", "clean_pdf_text"})

-----------------------------------------------------------------------------
(* Registered-API collections: a root accepts a collection and joins one   *)
(* child per accepted member; a child runs the generation tail.            *)

ScatterRootSteps ==
  {"acquire_registered_api", "clean_map_registered_api", "seal_candidate_set",
   "preflight_validate", "accept_snapshot", "human_review", "scatter_children_join"}
ScatterRootRoutes ==
  {R("start", "always", 0, "none", "acquire_registered_api"),
   Then("acquire_registered_api", "clean_map_registered_api"),
   Then("clean_map_registered_api", "seal_candidate_set"),
   Then("seal_candidate_set", "preflight_validate"),
   Then("preflight_validate", "accept_snapshot"),
   R("accept_snapshot", "succeeded", 10, "admission_auto_admitted", "scatter_children_join"),
   R("accept_snapshot", "succeeded", 20, "admission_human_review_required", "human_review"),
   R("accept_snapshot", "succeeded", 30, "admission_rejected", "failed"),
   Then("human_review", "scatter_children_join"),
   Then("scatter_children_join", "succeeded")}
ScatterRootBindings ==
  {Bind("acquire_registered_api", "source_descriptor", "context"),
   Bind("clean_map_registered_api", "acquisition_evidence", "acquire_registered_api"),
   Bind("seal_candidate_set", "clean_collection", "clean_map_registered_api"),
   Bind("preflight_validate", "acquisition_evidence", "acquire_registered_api"),
   Bind("preflight_validate", "candidate_set_seal", "seal_candidate_set"),
   Bind("preflight_validate", "clean_collection", "clean_map_registered_api"),
   Bind("accept_snapshot", "candidate_set_seal", "seal_candidate_set"),
   Bind("accept_snapshot", "preflight_outcome", "preflight_validate"),
   Bind("human_review", "accepted_collection", "accept_snapshot"),
   Bind("human_review", "preflight_outcome", "preflight_validate"),
   Bind("scatter_children_join", "accepted_collection", "accept_snapshot")}
ScatterRootPlan ==
  [routes |-> ScatterRootRoutes \cup TerminalRoutes(ScatterRootSteps),
   bindings |-> ScatterRootBindings]

ScatterChildSteps ==
  {"transcribe_markdown", "structurize", "construct", "vectorize", "validate_publication"}
ScatterChildRoutes ==
  {R("start", "always", 0, "prompt_markdown_present", "transcribe_markdown"),
   R("start", "always", 10, "none", "structurize"),
   Then("transcribe_markdown", "structurize"), Then("structurize", "construct"),
   Then("construct", "vectorize"), Then("vectorize", "validate_publication"),
   Then("validate_publication", "succeeded")}
ScatterChildBindings ==
  {Bind("transcribe_markdown", "accepted_intake_revision", "context"),
   Bind("structurize", "accepted_intake_revision", "context"),
   OptBind("structurize", "markdown_artifact", "transcribe_markdown"),
   Bind("construct", "structure_artifact", "structurize"),
   Bind("vectorize", "construct_package", "construct"),
   Bind("validate_publication", "accepted_intake_revision", "context"),
   Bind("validate_publication", "vectorization_receipt", "vectorize")}
ScatterChildPlan ==
  [routes |-> ScatterChildRoutes \cup TerminalRoutes(ScatterChildSteps),
   bindings |-> ScatterChildBindings]

\* _pre_ns1_scatter_child_workflow.
ScatterChildV1 ==
  Reprioritised(WithoutStep(ScatterChildPlan, "transcribe_markdown"), "start", "structurize", 0)

Plans ==
  [single |-> SinglePlan, single_v3 |-> PlanV3, single_v2 |-> PlanV2, single_v1 |-> PlanV1,
   profile |-> ProfilePlan, inline |-> InlinePlan, local |-> LocalPlan, http |-> HttpPlan,
   scatter |-> ScatterRootPlan, child |-> ScatterChildPlan, child_v1 |-> ScatterChildV1]

-----------------------------------------------------------------------------
(* What WorkflowDefinition's validators demand before a plan is registered. *)

Successors(plan, S) == {r.to : r \in {q \in plan.routes : q.from \in S}}

\* Steps reachable from S, S included.
ReachableFrom(plan, S) ==
  LET n == Cardinality(StepsOf(plan))
      grow[i \in 0..n] == IF i = 0 THEN S
                          ELSE LET seen == grow[i - 1] IN seen \cup Successors(plan, seen)
  IN  grow[n]

RoutesValid(plan) ==
  /\ \A r \in plan.routes :
       /\ r.from # r.to
       /\ r.from \notin TerminalSteps
       /\ r.guard # "none" => r.guard \in DOMAIN GuardFact
       /\ r.on = "always" /\ r.guard # "none" => r.from = "start"
  /\ \A r, q \in plan.routes :
       (r.from = q.from /\ r.on = q.on /\ r.prio = q.prio) => r = q

GraphValid(plan) ==
  /\ \A s \in StepsOf(plan) :
       /\ s \in ReachableFrom(plan, {"start"})
       /\ s \notin ReachableFrom(plan, Successors(plan, {s}))
       /\ ReachableFrom(plan, {s}) \cap TerminalSteps # {}
  /\ \A s \in StepsOf(plan) \ (TerminalSteps \cup {"start"}) :
       {r.on : r \in {q \in plan.routes : q.from = s}} = {"succeeded", "failed", "cancelled"}

BindingsValid(plan) ==
  /\ \A b \in plan.bindings :
       /\ b.to \in StepsOf(plan) \ (TerminalSteps \cup {"start"})
       /\ b.from # "context" => b.to \in ReachableFrom(plan, Successors(plan, {b.from}))
  /\ \A b, c \in plan.bindings : (b.to = c.to /\ b.port = c.port) => b = c

WellFormed(plan) == RoutesValid(plan) /\ GraphValid(plan) /\ BindingsValid(plan)

-----------------------------------------------------------------------------
(* The route decision.  ctx gives the value of each fact, "none" when the  *)
(* fact is missing; a guard over a missing fact does not match.            *)

GuardMatches(guard, ctx) ==
  guard = "none" \/ ctx[GuardFact[guard][1]] = GuardFact[guard][2]

Candidates(plan, step, on) == {r \in plan.routes : r.from = step /\ r.on = on}

\* The first route in priority order whose guard matches: none or one.
Winners(candidates, ctx) ==
  {r \in candidates :
     /\ GuardMatches(r.guard, ctx)
     /\ \A q \in candidates : GuardMatches(q.guard, ctx) => r.prio <= q.prio}

\* The materialisation digest covers the guards evaluated up to the winner.
Decision(step, on, ctx, candidates, winners) ==
  [to |-> IF winners = {} THEN "none" ELSE (CHOOSE r \in winners : TRUE).to,
   digest |-> <<step, on, {<<r.guard, GuardMatches(r.guard, ctx)>> :
                             r \in {q \in candidates : \A v \in winners : q.prio <= v.prio}}>>]

RouteDecision(plan, step, on, ctx) ==
  LET candidates == Candidates(plan, step, on)
  IN  Decision(step, on, ctx, candidates, Winners(candidates, ctx))

\* Mutant: Only the clean step of the pinned graphs is compared.
StrategyOfCleanOnly(to, ctx) ==
  ctx.strategy # "none" /\ to = "clean" /\ CleanStepStrategy[to] # ctx.strategy

\* A winner that cleans must stand for the strategy declared or observed.
StrategyUnreachable(to, ctx) ==
  /\ ctx.strategy # "none"
  /\ to \in DOMAIN CleanStepStrategy
  /\ CleanStepStrategy[to] # ctx.strategy

\* derive_selected_clean_strategy, from the latest representation fact.
DerivedStrategy(f) ==
  IF f.kind = "print_pdf" THEN "web.browser_print_pdf"
  ELSE IF f.media = "pdf" THEN IF f.layer \in {"absent", "encrypted"} THEN "pdf.ocr" ELSE "pdf.text_layer"
  ELSE IF f.media = "image" THEN "doc.ocr"
  ELSE IF f.kind = "rendered" THEN "web.deterministic"
  ELSE "none"
=============================================================================
