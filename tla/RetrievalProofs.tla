--------------------------- MODULE RetrievalProofs ---------------------------
(***************************************************************************)
(* The fences of a search, proved for any number of Executions, namespaces *)
(* and revisions.  Neither theorem needs an invariant of ItemIndex: they   *)
(* hold whatever the writers do between two snapshots, as long as the      *)
(* fence names every fact of the scan.  Packing is proved one result at a  *)
(* time; what folding it over a sequence computes is left to TLC.          *)
(***************************************************************************)
EXTENDS Retrieval, TLAPS

\* What the history remembers of the held records: after the eligibility check
\* a servable moment was witnessed, and records that were never withdrawn since
\* the scan are servable now.
SearchInv ==
  /\ pc = "approved" /\ Servable(held, space) => witnessed
  /\ pc \in {"scanned", "approved"} /\ steady => Servable(held, space)
  /\ pc = "answer" => witnessed
  /\ pc = "filtered" => ~steady

\* The S04 check is a part of the fence of the scan, so what it refuses was
\* withdrawn since the scan.
LEMMA ServableIsEligible ==
  ASSUME NEW j, NEW n, Servable(j, n)
  PROVE  Eligible(j, n)
BY DEF Servable, Eligible

\* A search that only reads leaves the fence of any record as it is.
LEMMA ReadsKeepFence ==
  ASSUME UNCHANGED vars, UNCHANGED <<space, held>>
  PROVE  Servable(held, space)' = Servable(held, space)
BY DEF Servable, Active, vars, item, frozen, index, pointers, records

\* Every snapshot of the search and every commit between two of them keeps the
\* bookkeeping right.
LEMMA SearchStep ==
  ASSUME SearchInv, [RetrievalNext]_<<vars, search>>
  PROVE  SearchInv'
<1>1. CASE Interfere
  BY <1>1 DEF SearchInv, Interfere
<1>2. ASSUME NEW n \in Namespaces, Scan(n)
      PROVE  SearchInv'
  <2>1. Servable(held, space)'
    BY <1>2 DEF Scan, Servable, Active, vars, item, frozen, index, pointers, records
  <2> QED
    BY <1>2, <2>1 DEF SearchInv, Scan
<1>3. CASE CheckEligibility
  <2>1. Servable(held, space)' = Servable(held, space)
    BY <1>3, ReadsKeepFence DEF CheckEligibility
  <2>2. CASE Eligible(held, space)
    BY <1>3, <2>1, <2>2 DEF SearchInv, CheckEligibility
  <2>3. CASE ~Eligible(held, space)
    BY <1>3, <2>1, <2>3, ServableIsEligible DEF SearchInv, CheckEligibility
  <2> QED
    BY <2>2, <2>3
<1>4. CASE Revalidate
  <2>1. Servable(held, space)' = Servable(held, space)
    BY <1>4, ReadsKeepFence DEF Revalidate
  <2> QED
    BY <1>4, <2>1 DEF SearchInv, Revalidate, FenceHolds
<1>5. CASE Return
  BY <1>5 DEF SearchInv, Return
<1>6. CASE SearchFails
  BY <1>6 DEF SearchInv, SearchFails
<1>7. CASE UNCHANGED <<vars, search>>
  <2>1. Servable(held, space)' = Servable(held, space)
    BY <1>7, ReadsKeepFence DEF search
  <2> QED
    BY <1>7, <2>1 DEF SearchInv, search
<1> QED
  BY <1>1, <1>2, <1>3, <1>4, <1>5, <1>6, <1>7 DEF RetrievalNext

\* The bookkeeping of the search is invariant.
THEOREM SearchInvariant == RetrievalSpec => []SearchInv
<1>1. RetrievalInit => SearchInv
  BY DEF RetrievalInit, SearchInv
<1>2. SearchInv /\ [RetrievalNext]_<<vars, search>> => SearchInv'
  BY SearchStep
<1> QED
  BY <1>1, <1>2, PTL DEF RetrievalSpec

\* No search answers with records that were not published and serving at a
\* moment after its eligibility check, whatever commits between its snapshots.
THEOREM AnswersServed == RetrievalSpec => []AnswerServed
<1>1. SearchInv => AnswerServed
  BY DEF SearchInv, AnswerServed
<1> QED
  BY <1>1, SearchInvariant, PTL

\* No search filters away records that stayed published and serving since its
\* scan.
THEOREM SteadyFound == RetrievalSpec => []SteadyIsFound
<1>1. SearchInv => SteadyIsFound
  BY DEF SearchInv, SteadyIsFound
<1> QED
  BY <1>1, SearchInvariant, PTL

-----------------------------------------------------------------------------
(* Packing, one result at a time. *)

\* A pack within its budgets.
PackOK(pack) ==
  /\ pack = [hits |-> pack.hits, chars |-> pack.chars, roots |-> pack.roots,
             closed |-> pack.closed, truncated |-> pack.truncated]
  /\ pack.hits \in 0..PackMaxHits /\ pack.chars \in 0..PackMaxChars
  /\ pack.closed \in BOOLEAN /\ pack.truncated \in BOOLEAN

\* What a result may carry: a content or none, a reference or none, and a root with
\* the same, or none.
ContentOK(content) == content \in {None} \cup Nat

ResultOK(result) ==
  /\ ContentOK(result.payload) /\ result.ref \in BOOLEAN
  /\ result.root # None => ContentOK(result.root.content) /\ result.root.ref \in BOOLEAN

\* The document of this result is due in this pack.
Due(pack, result) == Inflated(result) /\ result.unit # "root" /\ result.doc \notin pack.roots

\* The characters a result brings to a pack that has its document or not.
Brings(pack, result) ==
  Payload(result.payload) + IF Due(pack, result) THEN Payload(result.root.content) ELSE 0

\* Nothing of the result is out of reach.
Shown(pack, result) ==
  /\ result.payload # None \/ result.ref
  /\ Inflated(result) => result.root # None
  /\ Due(pack, result) => result.root.content # None \/ result.root.ref

\* A segment fits what is left of the budget and is cut only where the content does
\* not fit; there is none only for lack of room or of a reference.
LEMMA SegmentFits ==
  ASSUME NEW content, ContentOK(content), NEW ref \in BOOLEAN, NEW available \in Nat
  PROVE  \/ /\ Segment(content, ref, available) = None
            /\ (content = None /\ ~ref) \/ (content # None /\ available = 0)
         \/ /\ Segment(content, ref, available) \in 0..available
            /\ Segment(content, ref, available) # None
            /\ content = None => ref
            /\ Segment(content, ref, available) <= Payload(content)
            /\ Cut(content, Segment(content, ref, available)) => available < Payload(content)
            /\ ~Cut(content, Segment(content, ref, available))
                 => Segment(content, ref, available) = Payload(content)
<1>1. CASE content = None
  BY <1>1, SearchAssumption DEF Segment, Cut, Payload
<1>2. CASE content # None /\ available = 0
  BY <1>2, SearchAssumption DEF Segment
<1>3. CASE content # None /\ available # 0 /\ content < available
  BY <1>3, SearchAssumption DEF Segment, Cut, Payload, ContentOK
<1>4. CASE content # None /\ available # 0 /\ ~(content < available)
  <2>1. content \in Nat /\ Segment(content, ref, available) = available /\ available <= content
    BY <1>4 DEF Segment, ContentOK
  <2>2. available # None
    BY SearchAssumption
  <2>3. Payload(content) = content
    BY <1>4 DEF Payload
  <2> QED BY <1>4, <2>1, <2>2, <2>3 DEF Cut
<1> QED BY <1>1, <1>2, <1>3, <1>4

\* The part of _pack that concerns the hit itself.
LEMMA FocusIsHonest ==
  ASSUME NEW pack, PackOK(pack), NEW result, ResultOK(result), pack.hits # PackMaxHits,
         NEW taken, taken = Segment(result.payload, result.ref, PackMaxChars - pack.chars), taken # None,
         NEW focused, focused = PackFocus(pack, result, taken)
  PROVE  /\ PackOK(focused) /\ focused.hits = pack.hits + 1 /\ ~focused.closed
         /\ focused.chars = pack.chars + taken /\ taken \in Nat
         /\ (result.doc \in focused.roots) = (result.unit = "root" \/ result.doc \in pack.roots)
         /\ pack.truncated => focused.truncated
         /\ ~focused.truncated => ~pack.truncated /\ taken = Payload(result.payload)
         /\ result.payload # None \/ result.ref
         /\ pack.chars + Payload(result.payload) <= PackMaxChars /\ ~pack.truncated => ~focused.truncated
<1>1. /\ pack.hits \in Nat /\ pack.chars \in Nat /\ PackMaxChars - pack.chars \in Nat
      /\ PackMaxHits \in Nat /\ PackMaxChars \in Nat /\ pack.hits + 1 \in 0..PackMaxHits
      /\ pack.truncated \in BOOLEAN
  BY SearchAssumption DEF PackOK
<1>2. ContentOK(result.payload) /\ result.ref \in BOOLEAN
  BY DEF ResultOK
<1>3. /\ taken \in 0..(PackMaxChars - pack.chars) /\ (result.payload = None => result.ref)
      /\ taken <= Payload(result.payload)
      /\ Cut(result.payload, taken) => PackMaxChars - pack.chars < Payload(result.payload)
      /\ ~Cut(result.payload, taken) => taken = Payload(result.payload)
  BY <1>1, <1>2, SegmentFits
<1>4. Payload(result.payload) \in Nat
  BY <1>2, SearchAssumption DEF Payload, ContentOK
<1>5. PICK roots, truncated :
        /\ roots = (IF result.unit = "root" THEN pack.roots \cup {result.doc} ELSE pack.roots)
        /\ truncated = (pack.truncated \/ Cut(result.payload, taken))
  OBVIOUS
<1>6. focused = [hits |-> pack.hits + 1, chars |-> pack.chars + taken, roots |-> roots,
                 closed |-> FALSE, truncated |-> truncated]
  BY <1>5 DEF PackFocus
<1>7. truncated \in BOOLEAN /\ (pack.truncated => truncated)
      /\ (~truncated => ~pack.truncated /\ ~Cut(result.payload, taken))
      /\ (~pack.truncated /\ ~Cut(result.payload, taken) => ~truncated)
  BY <1>1, <1>5, Zenon DEF Cut
<1>8. (result.doc \in roots) = (result.unit = "root" \/ result.doc \in pack.roots)
  BY <1>5
<1>9. pack.chars + taken \in 0..PackMaxChars
  BY <1>1, <1>3
<1>10. pack.chars + Payload(result.payload) <= PackMaxChars => ~Cut(result.payload, taken)
  <2>1. CASE Cut(result.payload, taken)
    BY <2>1, <1>1, <1>3, <1>4
  <2> QED BY <2>1
<1>11. /\ focused.hits = pack.hits + 1 /\ focused.chars = pack.chars + taken /\ focused.roots = roots
       /\ focused.closed = FALSE /\ focused.truncated = truncated
  BY <1>6
<1>12. PackOK(focused)
  <2>1. focused = [hits |-> focused.hits, chars |-> focused.chars, roots |-> focused.roots,
                   closed |-> focused.closed, truncated |-> focused.truncated]
    BY <1>6, <1>11
  <2>2. focused.closed \in BOOLEAN /\ focused.truncated \in BOOLEAN
    BY <1>7, <1>11
  <2>3. focused.hits \in 0..PackMaxHits /\ focused.chars \in 0..PackMaxChars
    BY <1>1, <1>9, <1>11
  <2> QED BY <2>1, <2>2, <2>3 DEF PackOK
<1>13. pack.truncated => focused.truncated
  BY <1>7, <1>11, Zenon
<1>14. ~focused.truncated => ~pack.truncated /\ taken = Payload(result.payload)
  BY <1>3, <1>7, <1>11, Zenon
<1>15. pack.chars + Payload(result.payload) <= PackMaxChars /\ ~pack.truncated => ~focused.truncated
  BY <1>7, <1>10, <1>11, Zenon
<1>16. taken \in Nat /\ (result.payload # None \/ result.ref)
  BY <1>1, <1>3
<1> QED BY <1>8, <1>11, <1>12, <1>13, <1>14, <1>15, <1>16

\* The part of _pack that concerns the text of the whole document: it shares the budget.
LEMMA RootIsHonest ==
  ASSUME NEW pack, PackOK(pack), NEW result, ResultOK(result), result.root # None,
         NEW next, next = PackRoot(pack, result)
  PROVE  /\ PackOK(next) /\ next.hits = pack.hits
         /\ pack.truncated => next.truncated
         /\ ~next.truncated => /\ ~pack.truncated
                               /\ next.chars = pack.chars + Payload(result.root.content)
                               /\ result.root.content # None \/ result.root.ref
         /\ /\ pack.chars + Payload(result.root.content) < PackMaxChars /\ ~pack.truncated
            /\ result.root.content # None \/ result.root.ref
            => ~next.truncated
<1>1. PICK taken, chars, closed, truncated :
        /\ taken = Segment(result.root.content, result.root.ref, PackMaxChars - pack.chars)
        /\ chars = pack.chars + (IF taken = None THEN 0 ELSE taken)
        /\ closed = (chars >= PackMaxChars)
        /\ truncated = (pack.truncated \/ taken = None \/ Cut(result.root.content, taken))
  OBVIOUS
<1>2. next = [hits |-> pack.hits, chars |-> chars, roots |-> pack.roots \cup {result.doc},
              closed |-> closed, truncated |-> truncated]
  BY <1>1 DEF PackRoot
<1>3. /\ pack.hits \in 0..PackMaxHits /\ pack.chars \in 0..PackMaxChars /\ PackMaxChars - pack.chars \in Nat
      /\ PackMaxChars \in Nat /\ pack.truncated \in BOOLEAN
  BY SearchAssumption DEF PackOK
<1>4. ContentOK(result.root.content) /\ result.root.ref \in BOOLEAN
  BY DEF ResultOK
<1>5. Payload(result.root.content) \in Nat
  BY <1>4, SearchAssumption DEF Payload, ContentOK
<1>6. truncated \in BOOLEAN /\ closed \in BOOLEAN /\ (pack.truncated => truncated)
      /\ (~truncated => ~pack.truncated /\ taken # None /\ ~Cut(result.root.content, taken))
      /\ (~pack.truncated /\ taken # None /\ ~Cut(result.root.content, taken) => ~truncated)
  BY <1>1, <1>3, (chars >= PackMaxChars) \in BOOLEAN, Zenon DEF Cut
<1>7. CASE taken = None
  <2>1. chars = pack.chars
    BY <1>1, <1>3, <1>7
  <2>2. \/ result.root.content = None /\ ~result.root.ref
        \/ result.root.content # None /\ PackMaxChars - pack.chars = 0
    <3>1. Segment(result.root.content, result.root.ref, PackMaxChars - pack.chars) = None
      BY <1>1, <1>7
    <3> QED BY <1>3, <1>4, <3>1, SegmentFits
  <2>3. ~(/\ pack.chars + Payload(result.root.content) < PackMaxChars
          /\ result.root.content # None \/ result.root.ref)
    BY <2>2, <1>3, <1>5
  <2> QED BY <1>2, <1>3, <1>6, <1>7, <2>1, <2>3 DEF PackOK
<1>8. CASE taken # None
  <2>1. /\ taken \in 0..(PackMaxChars - pack.chars)
        /\ result.root.content = None => result.root.ref
        /\ Cut(result.root.content, taken) => PackMaxChars - pack.chars < Payload(result.root.content)
        /\ ~Cut(result.root.content, taken) => taken = Payload(result.root.content)
    BY <1>1, <1>3, <1>4, <1>8, SegmentFits
  <2>2. chars = pack.chars + taken /\ chars \in 0..PackMaxChars
    BY <2>1, <1>1, <1>3, <1>8
  <2>3. pack.chars + Payload(result.root.content) < PackMaxChars => ~Cut(result.root.content, taken)
    <3>1. CASE Cut(result.root.content, taken)
      BY <3>1, <2>1, <1>3, <1>5
    <3> QED BY <3>1
  <2> QED BY <1>2, <1>3, <1>6, <1>8, <2>1, <2>2, <2>3 DEF PackOK
<1> QED BY <1>7, <1>8

\* Whatever a result carries, packing it (_pack) keeps both budgets, which the hit and
\* the text of its whole document share; either the pack is marked truncated from then
\* on, or it took one more result with all its text, and its document unless the pack
\* had it: nothing is dropped silently.  And it is not marked without cause: an open
\* pack with room for all of a result that can be shown stays unmarked.
THEOREM PackingIsHonest ==
  ASSUME NEW pack, PackOK(pack), NEW result, ResultOK(result),
         NEW next, next = PackOne(pack, result)
  PROVE  /\ PackOK(next)
         /\ pack.truncated => next.truncated
         /\ ~next.truncated => /\ next.hits = pack.hits + 1
                               /\ next.chars = pack.chars + Brings(pack, result)
                               /\ Shown(pack, result)
         /\ /\ ~pack.truncated /\ ~pack.closed /\ pack.hits # PackMaxHits
            /\ Shown(pack, result) /\ pack.chars + Brings(pack, result) < PackMaxChars
            => ~next.truncated
<1>1. PICK taken, focused :
        /\ taken = Segment(result.payload, result.ref, PackMaxChars - pack.chars)
        /\ focused = PackFocus(pack, result, taken)
  OBVIOUS
<1>2. /\ pack.hits \in 0..PackMaxHits /\ pack.chars \in 0..PackMaxChars /\ PackMaxChars - pack.chars \in Nat
      /\ PackMaxChars \in Nat /\ PackMaxHits \in Nat
      /\ pack.truncated \in BOOLEAN /\ pack.closed \in BOOLEAN
  BY SearchAssumption DEF PackOK
<1>3. /\ Payload(result.payload) \in Nat
      /\ result.root # None => Payload(result.root.content) \in Nat
  BY SearchAssumption DEF Payload, ContentOK, ResultOK
<1>4. CASE pack.closed \/ pack.hits = PackMaxHits
  <2>1. next = [pack EXCEPT !.closed = TRUE, !.truncated = TRUE]
    BY <1>4 DEF PackOne
  <2>2. next = [hits |-> pack.hits, chars |-> pack.chars, roots |-> pack.roots, closed |-> TRUE, truncated |-> TRUE]
    BY <2>1 DEF PackOK
  <2> QED BY <1>2, <1>4, <2>2 DEF PackOK
<1>5. CASE ~(pack.closed \/ pack.hits = PackMaxHits) /\ taken = None
  <2>1. next = [pack EXCEPT !.truncated = TRUE]
    BY <1>1, <1>5 DEF PackOne
  <2>2. next = [hits |-> pack.hits, chars |-> pack.chars, roots |-> pack.roots, closed |-> pack.closed, truncated |-> TRUE]
    BY <2>1 DEF PackOK
  <2>3. PackOK(next) /\ next.truncated
    BY <1>2, <2>2 DEF PackOK
  <2>4. ~(Shown(pack, result) /\ pack.chars + Brings(pack, result) < PackMaxChars)
    <3>1. SUFFICES ASSUME Shown(pack, result), pack.chars + Brings(pack, result) < PackMaxChars
                   PROVE  FALSE
      OBVIOUS
    <3>2. result.payload # None /\ PackMaxChars - pack.chars = 0
      <4>1. ContentOK(result.payload) /\ result.ref \in BOOLEAN
        BY DEF ResultOK
      <4> QED BY <4>1, <1>1, <1>2, <1>5, <3>1, SegmentFits, SearchAssumption DEF Shown
    <3>3. Brings(pack, result) \in Nat
      <4>1. Due(pack, result) => Payload(result.root.content) \in Nat
        BY <1>3, <3>1 DEF Shown, Due
      <4> QED BY <4>1, <1>3 DEF Brings
    <3> QED BY <1>2, <3>1, <3>2, <3>3
  <2> QED BY <2>3, <2>4
<1>6. CASE ~(pack.closed \/ pack.hits = PackMaxHits) /\ taken # None
  <2>1. /\ PackOK(focused) /\ focused.hits = pack.hits + 1 /\ ~focused.closed
        /\ focused.chars = pack.chars + taken /\ taken \in Nat
        /\ (result.doc \in focused.roots) = (result.unit = "root" \/ result.doc \in pack.roots)
        /\ pack.truncated => focused.truncated
        /\ ~focused.truncated => ~pack.truncated /\ taken = Payload(result.payload)
        /\ result.payload # None \/ result.ref
        /\ pack.chars + Payload(result.payload) <= PackMaxChars /\ ~pack.truncated => ~focused.truncated
    BY <1>1, <1>6, FocusIsHonest
  <2>2. focused.truncated \in BOOLEAN /\ focused.chars \in 0..PackMaxChars /\ focused.hits \in 0..PackMaxHits
    BY <2>1 DEF PackOK
  <2>3. CASE ~Inflated(result)
    <3>1. PICK closed : closed = (focused.chars >= PackMaxChars)
      OBVIOUS
    <3>2. next = [focused EXCEPT !.closed = closed]
      BY <1>1, <1>6, <2>3, <3>1 DEF PackOne
    <3>3. next = [hits |-> focused.hits, chars |-> focused.chars, roots |-> focused.roots,
                  closed |-> closed, truncated |-> focused.truncated]
      BY <2>1, <3>2 DEF PackOK
    <3>4. closed \in BOOLEAN
      BY <3>1, (focused.chars >= PackMaxChars) \in BOOLEAN
    <3>5. ~Due(pack, result) /\ Brings(pack, result) = Payload(result.payload)
      BY <1>3, <2>3 DEF Due, Brings
    <3>6. Shown(pack, result)
      BY <2>1, <2>3, <3>5 DEF Shown
    <3> QED BY <1>2, <1>3, <2>1, <2>2, <3>3, <3>4, <3>5, <3>6 DEF PackOK
  <2>4. CASE Inflated(result) /\ result.root = None
    <3>1. next = [focused EXCEPT !.truncated = TRUE]
      BY <1>1, <1>6, <2>4 DEF PackOne
    <3>2. next = [hits |-> focused.hits, chars |-> focused.chars, roots |-> focused.roots,
                  closed |-> focused.closed, truncated |-> TRUE]
      BY <2>1, <3>1 DEF PackOK
    <3>3. ~Shown(pack, result)
      BY <2>4 DEF Shown
    <3>4. focused.closed \in BOOLEAN
      BY <2>1 DEF PackOK
    <3> QED BY <2>2, <3>2, <3>3, <3>4 DEF PackOK
  <2>5. CASE Inflated(result) /\ result.root # None /\ result.doc \in focused.roots
    <3>1. next = focused
      BY <1>1, <1>6, <2>5 DEF PackOne
    <3>2. ~Due(pack, result) /\ Brings(pack, result) = Payload(result.payload)
      BY <1>3, <2>1, <2>5 DEF Due, Brings
    <3>3. Shown(pack, result)
      BY <2>1, <2>5, <3>2 DEF Shown
    <3> QED BY <1>2, <1>3, <2>1, <2>2, <3>1, <3>2, <3>3
  <2>6. CASE Inflated(result) /\ result.root # None /\ result.doc \notin focused.roots
    <3>1. next = PackRoot(focused, result)
      BY <1>1, <1>6, <2>6 DEF PackOne
    <3>2. /\ Due(pack, result)
          /\ Brings(pack, result) = Payload(result.payload) + Payload(result.root.content)
      BY <2>1, <2>6 DEF Due, Brings
    <3>3. /\ PackOK(next) /\ next.hits = focused.hits
          /\ focused.truncated => next.truncated
          /\ ~next.truncated => /\ ~focused.truncated
                                /\ next.chars = focused.chars + Payload(result.root.content)
                                /\ result.root.content # None \/ result.root.ref
          /\ /\ focused.chars + Payload(result.root.content) < PackMaxChars /\ ~focused.truncated
             /\ result.root.content # None \/ result.root.ref
             => ~next.truncated
      BY <2>1, <2>6, <3>1, RootIsHonest
    <3>4. Shown(pack, result) = (result.root.content # None \/ result.root.ref)
      <4>1. result.root.ref \in BOOLEAN
        BY <2>6 DEF ResultOK
      <4> QED BY <4>1, <2>1, <2>6, <3>2 DEF Shown
    <3>5. ASSUME ~next.truncated
          PROVE  /\ next.hits = pack.hits + 1 /\ next.chars = pack.chars + Brings(pack, result)
                 /\ Shown(pack, result)
      <4>1. next.chars = (pack.chars + Payload(result.payload)) + Payload(result.root.content)
        BY <2>1, <3>3, <3>5
      <4>2. result.root.content # None \/ result.root.ref
        BY <3>3, <3>5
      <4>3. next.chars = pack.chars + Brings(pack, result)
        BY <1>2, <1>3, <2>6, <3>2, <4>1
      <4> QED BY <2>1, <3>3, <3>4, <4>2, <4>3
    <3>6. ASSUME ~pack.truncated, Shown(pack, result), pack.chars + Brings(pack, result) < PackMaxChars
          PROVE  ~next.truncated
      <4>1. pack.chars + (Payload(result.payload) + Payload(result.root.content)) < PackMaxChars
        BY <3>2, <3>6
      <4>2. ~focused.truncated /\ taken = Payload(result.payload)
        BY <1>2, <1>3, <2>1, <2>6, <3>6, <4>1
      <4> QED BY <1>2, <1>3, <2>1, <2>6, <3>3, <3>4, <3>6, <4>1, <4>2
    <3> QED BY <2>1, <3>3, <3>5, <3>6
  <2> QED BY <2>3, <2>4, <2>5, <2>6
<1> QED BY <1>4, <1>5, <1>6
=============================================================================
