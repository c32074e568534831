------------------------------ MODULE Retrieval ------------------------------
(***************************************************************************)
(* A search that runs while the Item and its index change.                 *)
(*                                                                         *)
(* RetrievalService.search reads the catalogue in several snapshots with   *)
(* awaits between them: the candidate scan, the eligibility check of S04,  *)
(* the revalidation of the publication fence of S09, and then the bodies.  *)
(* Any writer of ItemIndex may commit in between.  The search itself       *)
(* writes nothing, so one search at a time shows every interleaving.       *)
(*                                                                         *)
(* The namespace row and the embedding of the query are read before the    *)
(* scan and never change, so the search begins with the scan.  The records *)
(* of the Item in a namespace are published together; what the scan holds  *)
(* is the record set of one job.  Scores, bodies and budgets matter after  *)
(* the last snapshot only, where they are the inputs of Results and Pack.  *)
(***************************************************************************)
EXTENDS ItemIndex, SequencesExt

CONSTANTS
  MaxTopK,                    \* max_topk
  PackMaxHits, PackMaxChars,  \* pack_max_hits, pack_max_chars
  InflationMaxRoots,          \* inflation_max_roots
  RootMaxChars,               \* inflation_per_root_max_chars
  BodySizes                   \* bound: how many characters a body may have

ASSUME SearchAssumption ==
  /\ MaxTopK \in Nat \ {0} /\ PackMaxHits \in Nat \ {0} /\ PackMaxChars \in Nat \ {0}
  /\ InflationMaxRoots \in Nat /\ RootMaxChars \in Nat \ {0} /\ BodySizes \subseteq Nat \ {0}
  /\ None \notin Nat

VARIABLES
  pc,         \* where the search is
  space,      \* the namespace it searches
  held,       \* the job whose records it holds
  steady,     \* history: the held records were servable ever since the scan
  witnessed   \* history: they were servable at a moment since the eligibility check

search == <<pc, space, held, steady, witnessed>>

RetrievalInit ==
  /\ Init
  /\ pc = "idle" /\ space = None /\ held = None /\ steady = TRUE /\ witnessed = FALSE

-----------------------------------------------------------------------------
(* The fences. *)

\* _fetch_candidate_rows: the record, the active pointer, the proof and the
\* serving revision of an active Item agree.
Servable(j, n) ==
  /\ recState[<<j, n>>] = "indexed" /\ <<j, n>> \notin purged
  /\ Active(n) /\ pointerProof[n] = j /\ pointerGen[n] = jobGen[<<j, n>>]
  /\ lifecycle = "active" /\ serving # 0 /\ serving = jobRev[j]

\* Mutant: eligibility asks for the latest revision instead of the serving one.
EligibleLatest(j, n) ==
  /\ <<j, n>> \notin purged
  /\ lifecycle = "active" /\ serving # 0 /\ latest = jobRev[j]

\* filter_retrieval_eligible: S04 alone, without pointer and proof.
Eligible(j, n) ==
  /\ <<j, n>> \notin purged
  /\ lifecycle = "active" /\ serving # 0 /\ serving = jobRev[j]

\* Mutant: the fence is not read again.
FenceTrusted(j, n) == TRUE

\* _revalidate_publication_fence names every fact of the scan again.
FenceHolds(j, n) == Servable(j, n)

-----------------------------------------------------------------------------
(* The search. *)

\* A search without a candidate, or with none that reaches its threshold, answers at
\* once and changes nothing.
Scan(n) ==
  /\ pc = "idle" /\ nsGen[n] > 0
  /\ \E j \in Jobs : Servable(j, n) /\ held' = j
  /\ pc' = "scanned" /\ space' = n
  /\ UNCHANGED <<vars, steady, witnessed>>

\* _apply_batch_eligibility, first half.
CheckEligibility ==
  /\ pc = "scanned"
  /\ pc' = IF Eligible(held, space) THEN "approved" ELSE "filtered"
  /\ witnessed' = Servable(held, space)
  /\ UNCHANGED <<vars, space, held, steady>>

\* _apply_batch_eligibility, second half: the next snapshot.
Revalidate ==
  /\ pc = "approved"
  /\ pc' = IF FenceHolds(held, space) THEN "answer" ELSE "filtered"
  /\ UNCHANGED <<vars, space, held, steady, witnessed>>

\* The bundle, empty or with results, goes to the caller.
Return ==
  /\ pc \in {"answer", "filtered"}
  /\ pc' = "idle" /\ space' = None /\ held' = None /\ steady' = TRUE /\ witnessed' = FALSE
  /\ UNCHANGED vars

\* A dependency (persistence, vectors, eligibility, bodies) fails: no answer.  One
\* that fails before the scan (namespace, binding, embedding) changes nothing.
SearchFails ==
  /\ pc \in {"scanned", "approved", "answer"}
  /\ pc' = "idle" /\ space' = None /\ held' = None /\ steady' = TRUE /\ witnessed' = FALSE
  /\ UNCHANGED vars

\* Any writer commits between two snapshots; after the last one it makes no
\* difference to the search.
Interfere ==
  /\ pc \in {"idle", "scanned", "approved"}
  /\ Next /\ UNCHANGED <<pc, space, held>>
  /\ steady' = (steady /\ (pc = "idle" \/ Servable(held, space)'))
  /\ witnessed' = (witnessed \/ (pc = "approved" /\ Servable(held, space)'))

RetrievalNext ==
  \/ Interfere
  \/ \E n \in Namespaces : Scan(n)
  \/ CheckEligibility \/ Revalidate \/ Return \/ SearchFails

RetrievalSpec == RetrievalInit /\ [][RetrievalNext]_<<vars, search>>

-----------------------------------------------------------------------------
(* From hits to an answer. *)

\* The records one document of a root and two more units may have, by record.
Rows == <<[unit |-> "root", channel |-> "summary"],
          [unit |-> "leaf", channel |-> "summary"],
          [unit |-> "leaf", channel |-> "original"],
          [unit |-> "twig", channel |-> "summary"],
          [unit |-> "root", channel |-> "original"]>>

\* vectorization_plan: a record for every channel that is not empty, always one for
\* the summary of the whole document, and never one for its original.
VectorRows(empty) == DOMAIN Rows \ ({5} \cup (empty \ {1}))

\* What the catalogue may hold: the records of a plan, and the original of the whole
\* document beside them, which no plan makes but _inflate_documents looks for.  An
\* empty summary cannot be told from one that does not match.
Catalogues == {VectorRows(empty) \cup extra : empty \in SUBSET {3}, extra \in SUBSET {5}}

\* _normalise_request
WellFormed(recallK, returnK) == 1 <= returnK /\ returnK <= recallK /\ recallK <= MaxTopK

\* _rank_ann_candidates: by score, then by record, the first recall_k.  A record the
\* query does not match, or whose vector cannot be decoded, is no candidate: score 0.
Ranked(score, rows, recallK) ==
  LET better(a, b) == score[a] > score[b] \/ (score[a] = score[b] /\ a < b)
      sorted == SetToSortSeq({i \in rows : score[i] > 0}, better)
  IN SubSeq(sorted, 1, IF recallK < Len(sorted) THEN recallK ELSE Len(sorted))

\* The candidates that reach the threshold of the request.
Thresholded(score, rows, recallK, threshold) ==
  SelectSeq(Ranked(score, rows, recallK), LAMBDA i : score[i] >= threshold)

\* The bodies of the document's artifact, originals of one length and summaries of
\* none that counts: the original of the root or of the leaf may be absent, or the
\* whole artifact.  A body that fails its integrity check fails the search.
Bodies ==
  LET channels == {<<Rows[i].unit, c>> : i \in DOMAIN Rows, c \in {"original", "summary"}} IN
  {[c \in channels |-> IF c \in absent THEN None ELSE IF c[2] = "original" THEN n ELSE 0] :
     n \in BodySizes, absent \in {channels} \cup SUBSET {<<"root", "original">>, <<"leaf", "original">>}}

\* load_retrieval_body: the characters of a channel of a unit.
LoadBody(unit, channel, body) == body[<<unit, channel>>]

\* _load_traceback_originals: the vector of the original of a hit's unit.
Original(hit, rows) == {i \in rows : Rows[i] = [unit |-> Rows[hit].unit, channel |-> "original"]}

\* _inflate_documents: the text of the whole document for a hit of a part of it, when
\* the catalogue has a vector of it and its body or a reference can be had.
Inflation(unit, rows, body, ref) ==
  LET content == LoadBody("root", "original", body) IN
  IF unit = "root" \/ InflationMaxRoots = 0 THEN [status |-> "not_requested", root |-> None]
  ELSE IF 5 \notin rows \/ (content = None /\ ~ref) THEN [status |-> "missing", root |-> None]
  ELSE IF content = None \/ content <= RootMaxChars
       THEN [status |-> "attached", root |-> [content |-> content, ref |-> ref]]
       ELSE [status |-> "truncated", root |-> [content |-> RootMaxChars, ref |-> ref]]

\* _to_result_work: the original is the payload of a summary hit when its body can be
\* read; ref is the safe reference every material falls back to, if there is one.
Work(hit, rows, body, ref) ==
  LET row == Rows[hit]
      original == LoadBody(row.unit, "original", body)
      inflation == Inflation(row.unit, rows, body, ref)
      resolved == row.channel = "summary" /\ original # None
  IN [hit |-> hit, doc |-> 1, unit |-> row.unit, ref |-> ref,
      inflation |-> inflation.status, root |-> inflation.root,
      payload |-> LoadBody(row.unit, IF resolved THEN "original" ELSE row.channel, body),
      status |-> IF row.channel = "original" THEN "not_needed"
                 ELSE IF resolved THEN "resolved"
                 ELSE IF Original(hit, rows) # {} THEN "degraded" ELSE "failed"]

\* _deduplicate: of two hits of a unit the better, the resolved one on a tie.
Preferred(score, a, b) ==
  \/ score[a.hit] > score[b.hit]
  \/ /\ score[a.hit] = score[b.hit]
     /\ \/ a.status = "resolved" /\ b.status # "resolved"
        \/ (a.status = "resolved") = (b.status = "resolved") /\ a.hit < b.hit

Deduplicate(score, works) ==
  SelectSeq(works, LAMBDA a : \A i \in DOMAIN works :
                     works[i] = a \/ works[i].unit # a.unit \/ Preferred(score, a, works[i]))

\* _rerank puts payloads it can read in the order of the model, or leaves them when
\* the model is off or fails; reversing them stands for the order of the model.
Reranked(works, applied) ==
  IF applied /\ \A i \in DOMAIN works : works[i].payload # None THEN Reverse(works) ELSE works

\* _search_with_query after the fences; no hit, or none that reaches the threshold, is
\* an empty bundle.
Results(score, rows, body, ref, recallK, threshold, returnK, applied) ==
  LET hits == Thresholded(score, rows, recallK, threshold)
      works == Reranked(Deduplicate(score, [i \in DOMAIN hits |-> Work(hits[i], rows, body, ref)]), applied)
  IN SubSeq(works, 1, IF returnK < Len(works) THEN returnK ELSE Len(works))

\* _pack_segment: how many characters of a content are packed, None for no segment.
\* A content that could not be read is packed as its reference.
Segment(content, ref, available) ==
  IF content = None THEN IF ref THEN 0 ELSE None
  ELSE IF available = 0 THEN None
  ELSE IF content < available THEN content ELSE available

\* A segment that holds less than its content.
Cut(content, taken) == content # None /\ taken < content

EmptyPack == [hits |-> 0, chars |-> 0, roots |-> {}, closed |-> FALSE, truncated |-> FALSE]

\* The segment of the hit itself.
PackFocus(pack, result, taken) ==
  [hits |-> pack.hits + 1, chars |-> pack.chars + taken,
   roots |-> IF result.unit = "root" THEN pack.roots \cup {result.doc} ELSE pack.roots,
   closed |-> FALSE, truncated |-> pack.truncated \/ Cut(result.payload, taken)]

\* Mutant: the text of the whole document is not charged to the budget.
RootForFree(pack, result) ==
  LET taken == Segment(result.root.content, result.root.ref, PackMaxChars - pack.chars) IN
  [pack EXCEPT !.roots = @ \cup {result.doc},
               !.truncated = @ \/ taken = None \/ Cut(result.root.content, taken)]

\* The segment of the whole document, from the same budget.
PackRoot(pack, result) ==
  LET taken == Segment(result.root.content, result.root.ref, PackMaxChars - pack.chars)
      chars == pack.chars + (IF taken = None THEN 0 ELSE taken)
  IN [hits |-> pack.hits, chars |-> chars, roots |-> pack.roots \cup {result.doc},
      closed |-> chars >= PackMaxChars,
      truncated |-> pack.truncated \/ taken = None \/ Cut(result.root.content, taken)]

Inflated(result) == result.inflation \in {"attached", "truncated"}

\* One round of _pack.  A root without a coordinate and one that is packed already go
\* straight to the next result: an exhausted budget then does not close the pack.
PackOne(pack, result) ==
  LET taken == Segment(result.payload, result.ref, PackMaxChars - pack.chars)
      focused == PackFocus(pack, result, taken)
  IN IF pack.closed \/ pack.hits = PackMaxHits
     THEN [pack EXCEPT !.closed = TRUE, !.truncated = TRUE]
     ELSE IF taken = None THEN [pack EXCEPT !.truncated = TRUE]
     ELSE IF ~Inflated(result) THEN [focused EXCEPT !.closed = focused.chars >= PackMaxChars]
     ELSE IF result.root = None THEN [focused EXCEPT !.truncated = TRUE]
     ELSE IF result.doc \in focused.roots THEN focused
     ELSE PackRoot(focused, result)

\* _pack: an exhausted budget closes the pack before the next result.
Pack(results) == FoldLeft(PackOne, EmptyPack, results)

-----------------------------------------------------------------------------
(* Properties. *)

\* What a search answers with was published and serving at one moment after the
\* eligibility check: no deactivation, deletion, newer publication, rebuild or
\* purge between the snapshots lets a withdrawn record through.
AnswerServed == pc = "answer" => witnessed

\* A hit that stays servable is not filtered away by the fences, whatever is
\* accepted, reviewed, planned or retired meanwhile.
SteadyIsFound == pc = "filtered" => ~steady

Payload(content) == IF content = None THEN 0 ELSE content

\* The results of a request, for some scores, records and bodies: none exactly if no
\* candidate reaches the threshold; each unit once; only a body of the original is
\* called resolved, and it is the payload wherever it can be read.
ResultsSound(score, rows, body, results, threshold, returnK, applied) ==
  /\ Len(results) <= returnK
  /\ (results = <<>>) = (\A i \in rows : score[i] < threshold)
  /\ \A i, k \in DOMAIN results : results[i].unit = results[k].unit => i = k
  /\ \A i \in DOMAIN results :
       LET r == results[i]
           original == body[<<r.unit, "original">>]
       IN /\ score[r.hit] >= threshold
          /\ original # None => r.payload = original
          /\ original = None => r.status # "resolved"
          /\ Inflated(r) => (r.inflation = "truncated")
                               = Cut(body[<<"root", "original">>], Payload(r.root.content))
  /\ applied \/ results = <<>> \/ \A i \in rows : score[i] <= score[results[1].hit]

\* The root of result i is due in a pack unless an earlier result brought it.
RootDue(results, i) ==
  /\ Inflated(results[i])
  /\ \A k \in 1..(i - 1) :
       results[k].doc # results[i].doc \/ ~(results[k].unit = "root" \/ Inflated(results[k]))

\* All the text a complete pack of these results holds.
TextOf(results) ==
  FoldLeft(LAMBDA n, i : n + Payload(results[i].payload)
                       + IF RootDue(results, i) THEN Payload(results[i].root.content) ELSE 0,
           0, [i \in DOMAIN results |-> i])

\* Nothing of these results is lost: each, and each due root, has a text or a reference.
Presentable(results) ==
  \A i \in DOMAIN results :
    /\ results[i].payload # None \/ results[i].ref
    /\ Inflated(results[i]) => results[i].root # None
    /\ RootDue(results, i) => results[i].root.content # None \/ results[i].root.ref

\* A pack keeps its budgets, is complete unless it says so, and says so only when
\* something is lost or a budget is used up.
PackSound(results, pack) ==
  /\ pack.hits <= PackMaxHits /\ pack.chars <= PackMaxChars
  /\ ~pack.truncated => /\ Presentable(results) /\ pack.hits = Len(results)
                        /\ pack.chars = TextOf(results)
  /\ Presentable(results) /\ Len(results) <= PackMaxHits /\ TextOf(results) < PackMaxChars
       => ~pack.truncated

\* What any search may hand to _pack, for two documents; a content is unreadable, short
\* or longer than the budget.
Contents == [content : {None} \cup BodySizes, ref : {TRUE}] \cup {[content |-> None, ref |-> FALSE]}

PackableFocus(unit, inflation, roots) ==
  {[doc |-> d, unit |-> unit, payload |-> focus.content, ref |-> focus.ref,
    inflation |-> inflation, root |-> root] : d \in {1, 2}, focus \in Contents, root \in roots}

Packable ==
  PackableFocus("root", "not_requested", {None}) \cup PackableFocus("leaf", "missing", {None})
    \cup PackableFocus("leaf", "attached", {None} \cup Contents)

AllSound ==
  /\ \A rows \in Catalogues, body \in Bodies, ref, applied \in BOOLEAN,
        recallK, returnK \in 1..MaxTopK, threshold \in 1..2 :
       WellFormed(recallK, returnK) =>
         \A score \in [rows -> 0..2] :
           LET results == Results(score, rows, body, ref, recallK, threshold, returnK, applied)
           IN ResultsSound(score, rows, body, results, threshold, returnK, applied)
  /\ \A results \in BoundedSeq(Packable, 3) : PackSound(results, Pack(results))

\* An answer holds every unit at most once, nothing below the threshold, its first
\* result is the best hit of the scan unless a model reordered them, and the original
\* is the payload wherever it can be read; a pack that is not marked truncated holds
\* every payload and every attached document in full within both budgets, and is not
\* marked so without cause (retrieval_request.py, retrieval_pack.py), for any scores,
\* records, bodies and references.
AnswerSound == pc = "answer" => AllSound
=============================================================================
