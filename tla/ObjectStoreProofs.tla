-------------------------- MODULE ObjectStoreProofs --------------------------
(***************************************************************************)
(* Upload holds protect their rows and the bytes of referenced objects are *)
(* kept, for every number of clients, keys, rows and references.           *)
(*                                                                         *)
(* That referenced bytes are kept is not inductive.  The argument: a row   *)
(* is created only by a put in flight, a put in flight without a live row  *)
(* has its bytes on the CAS path, and the collector removes a quarantined  *)
(* copy only after it saw no live row, so that a row that appeared since   *)
(* came with bytes of its own.                                             *)
(***************************************************************************)
EXTENDS ObjectStore, TLAPS

\* Some row of the digest is live.
Catalogued == \E r \in Rows : rowState[r] = "live"

\* The digest has at most one live row: ux_obj_stored_digest_size_live.
OneLive == \A r \in Rows : \A q \in Rows : rowState[r] = "live" /\ rowState[q] = "live" => r = q

\* What the collector is about to delete is still catalogued.
CandidateLive == scanStep \in {"fence", "unlink", "prove"} => rowState[candidate] = "live"

\* A put in flight without a live row has bytes on the CAS path.
FlightHasBytes == ~overlapped /\ put # {} /\ ~Catalogued => live

\* A live row has bytes somewhere.
RowHasBytes == ~overlapped /\ Catalogued => live \/ quarantine

\* Where the collector may drop the quarantined copy, the live row has another.
SafePurge == ~overlapped /\ Catalogued /\ scanStep \in {"check", "purge", "destroy"} => live

\* A hold is on a row.
HeldRows == \A k \in held : sessionRow[k] \in Rows

BytesInv == OneLive /\ CandidateLive /\ FlightHasBytes /\ RowHasBytes /\ SafePurge
HoldInv == SessionOwnsHold /\ HeldRows /\ HoldsProtect
Inv == TypeOK /\ HoldInv /\ BytesInv

-----------------------------------------------------------------------------
(* Type correctness. *)

\* Releasing a reference keeps the collector's memory well-typed.
LEMMA ReleasedType ==
  ASSUME TypeOK, NEW rows, Released(rows)
  PROVE  aged' \subseteq Rows /\ scanStep' \in ScanSteps /\ candidate' \in Rows /\ moved' \in BOOLEAN
BY DEF TypeOK, Released

\* Cataloguing a row keeps the catalogue well-typed.
LEMMA CatalogueType ==
  ASSUME TypeOK, NEW r \in Rows, Catalogue(r)
  PROVE  rowState' \in [Rows -> {"absent", "live", "tombstoned"}] /\ aged' \subseteq Rows
BY DEF TypeOK, Catalogue

\* Ending a session keeps every table well-typed.
LEMMA EndSessionType ==
  ASSUME TypeOK, NEW k \in Keys, NEW state \in SessionState, EndSession(k, state)
  PROVE  TypeOK'
<1>1. aged' \subseteq Rows /\ scanStep' \in ScanSteps /\ candidate' \in Rows /\ moved' \in BOOLEAN
  BY ReleasedType DEF EndSession, TypeOK, scanner
<1> QED BY <1>1 DEF EndSession, TypeOK, bytesVars

\* Every step of the collector keeps every variable well-typed.
LEMMA ScanType ==
  ASSUME TypeOK, ScanProceeds \/ ScanDies
  PROVE  TypeOK'
<1> USE DEF TypeOK, Scan, ScanSteps, refVars, bytesVars
<1>1. CASE ReconcileRead BY <1>1 DEF ReconcileRead
<1>2. CASE ReconcileCheck BY <1>2 DEF ReconcileCheck
<1>3. CASE ReconcileRestore BY <1>3 DEF ReconcileRestore, RestoreBytes
<1>4. CASE ReconcilePurge BY <1>4 DEF ReconcilePurge
<1>5. CASE Collect BY <1>5 DEF Collect
<1>6. CASE DeleteFence BY <1>6 DEF DeleteFence
<1>7. CASE QuarantineCandidate BY <1>7 DEF QuarantineCandidate
<1>8. CASE DeleteProof BY <1>8 DEF DeleteProof
<1>9. CASE RestoreCandidate BY <1>9 DEF RestoreCandidate, RestoreBytes
<1>10. CASE DestroyCandidate BY <1>10 DEF DestroyCandidate
<1>11. CASE ScanDies BY <1>11 DEF ScanDies
<1> QED BY <1>1, <1>2, <1>3, <1>4, <1>5, <1>6, <1>7, <1>8, <1>9, <1>10, <1>11 DEF ScanProceeds

\* Every step keeps every variable well-typed.
LEMMA TypeStep ==
  ASSUME TypeOK, [Next]_vars
  PROVE  TypeOK'
<1> USE BoundAssumption DEF refVars, bytesVars, scanner
<1>1. ASSUME NEW c \in Clients, Promote(c) \/ PutDies(c) PROVE TypeOK'
  BY <1>1 DEF Promote, PutDies, TypeOK
<1>2. ASSUME NEW c \in Clients, CommitAnonymous(c) PROVE TypeOK'
  <2>1. PICK r \in Rows : /\ Catalogue(r) /\ pending[r] < MaxRefs
                          /\ pending' = [pending EXCEPT ![r] = @ + 1]
    BY <1>2 DEF CommitAnonymous
  <2>2. pending' \in [Rows -> 0..MaxRefs] BY <2>1 DEF TypeOK
  <2> QED BY <1>2, <2>1, <2>2, CatalogueType DEF CommitAnonymous, TypeOK
<1>3. ASSUME NEW c \in Clients, CommitOutput(c) PROVE TypeOK'
  <2>1. PICK r \in Rows : /\ Catalogue(r) /\ business[r] < MaxRefs
                          /\ business' = [business EXCEPT ![r] = @ + 1]
    BY <1>3 DEF CommitOutput
  <2>2. business' \in [Rows -> 0..MaxRefs] BY <2>1 DEF TypeOK
  <2> QED BY <1>3, <2>1, <2>2, CatalogueType DEF CommitOutput, TypeOK
<1>4. ASSUME NEW c \in Clients, NEW k \in Keys, CommitUpload(c, k) PROVE TypeOK'
  <2>1. PICK r \in Rows : Catalogue(r) /\ sessionRow' = [sessionRow EXCEPT ![k] = r]
    BY <1>4 DEF CommitUpload
  <2> QED BY <1>4, <2>1, CatalogueType DEF CommitUpload, TypeOK, SessionState
<1>5. ASSUME NEW c \in Clients, NEW k \in Keys, ReplayUpload(c, k) PROVE TypeOK'
  BY <1>5 DEF ReplayUpload, TypeOK
<1>6. ASSUME NEW k \in Keys, ReserveSession(k) PROVE TypeOK'
  BY <1>6 DEF ReserveSession, TypeOK, SessionState
<1>7. ASSUME NEW k \in Keys, ConsumeSession(k) \/ CancelSession(k) \/ ExpireSession(k) PROVE TypeOK'
  <2>1. PICK state \in SessionState : EndSession(k, state)
    BY <1>7 DEF ConsumeSession, CancelSession, ExpireSession, SessionState, TypeOK
  <2> QED BY <2>1, EndSessionType
<1>8. ASSUME NEW r \in Rows, ReleasePending(r) PROVE TypeOK'
  <2>1. pending' \in [Rows -> 0..MaxRefs] BY <1>8 DEF ReleasePending, TypeOK
  <2> QED BY <1>8, <2>1, ReleasedType DEF ReleasePending, TypeOK
<1>9. ASSUME NEW r \in Rows, CleanupReleases(r) PROVE TypeOK'
  <2>1. business' \in [Rows -> 0..MaxRefs] BY <1>9 DEF CleanupReleases, TypeOK
  <2> QED BY <1>9, <2>1, ReleasedType DEF CleanupReleases, TypeOK
<1>10. ASSUME NEW r \in Rows, Acquire(r) \/ GraceElapses(r) PROVE TypeOK'
  BY <1>10 DEF Acquire, GraceElapses, TypeOK
<1>11. CASE Accept
  <2>1. ingest \in Rows BY <1>11 DEF Accept, TypeOK
  <2>2. business' \in [Rows -> 0..MaxRefs] /\ pending' \in [Rows -> 0..MaxRefs]
    BY <1>11, <2>1 DEF Accept, TypeOK
  <2>3. aged' \subseteq Rows /\ scanStep' \in ScanSteps /\ candidate' \in Rows /\ moved' \in BOOLEAN
    BY <1>11, ReleasedType DEF Accept, TypeOK
  <2> QED BY <1>11, <2>2, <2>3 DEF Accept, TypeOK
<1>12. CASE IngestEnds BY <1>12 DEF IngestEnds, TypeOK
<1>13. CASE ScanProceeds \/ ScanDies BY <1>13, ScanType
<1>14. CASE UNCHANGED vars BY <1>14 DEF vars, TypeOK
<1> QED BY <1>1, <1>2, <1>3, <1>4, <1>5, <1>6, <1>7, <1>8, <1>9, <1>10, <1>11, <1>12,
           <1>13, <1>14 DEF Next

-----------------------------------------------------------------------------
(* Holds. *)

\* Cataloguing makes the row live and leaves every other row as it was.
LEMMA CatalogueRow ==
  ASSUME TypeOK, NEW r \in Rows, Catalogue(r)
  PROVE  /\ rowState'[r] = "live"
         /\ \A q \in Rows : q # r => rowState'[q] = rowState[q]
BY DEF Catalogue, TypeOK

\* A step that leaves the rows, the sessions and their holds alone and adds no
\* anonymous hold keeps the holds protected.
LEMMA HoldFrame ==
  ASSUME HoldInv, UNCHANGED <<rowState, session, sessionRow, held>>,
         \A r \in Rows : pending'[r] > 0 => pending[r] > 0
  PROVE  HoldInv'
BY DEF HoldInv, SessionOwnsHold, HeldRows, HoldsProtect

\* A session that ends gives up its hold.
LEMMA EndSessionHold ==
  ASSUME TypeOK, HoldInv, NEW k \in Keys, NEW state \in SessionState \ {"committed"},
         EndSession(k, state)
  PROVE  HoldInv'
BY DEF TypeOK, HoldInv, SessionOwnsHold, HeldRows, HoldsProtect, EndSession

\* Every step keeps the holds protected: the collector tombstones a row only
\* in a transaction that finds no reference on it.
LEMMA HoldStep ==
  ASSUME TypeOK, HoldInv, [Next]_vars
  PROVE  HoldInv'
<1> USE DEF refVars, bytesVars, scanner
<1>1. ASSUME NEW c \in Clients, Promote(c) \/ PutDies(c) PROVE HoldInv'
  BY <1>1, HoldFrame DEF Promote, PutDies
<1>2. ASSUME NEW c \in Clients, CommitAnonymous(c) PROVE HoldInv'
  <2>1. PICK r \in Rows : Catalogue(r) /\ pending' = [pending EXCEPT ![r] = @ + 1]
    BY <1>2 DEF CommitAnonymous
  <2> QED BY <1>2, <2>1, CatalogueRow
          DEF CommitAnonymous, TypeOK, HoldInv, SessionOwnsHold, HeldRows, HoldsProtect
<1>3. ASSUME NEW c \in Clients, CommitOutput(c) PROVE HoldInv'
  <2>1. PICK r \in Rows : Catalogue(r) BY <1>3 DEF CommitOutput
  <2> QED BY <1>3, <2>1, CatalogueRow
          DEF CommitOutput, TypeOK, HoldInv, SessionOwnsHold, HeldRows, HoldsProtect
<1>4. ASSUME NEW c \in Clients, NEW k \in Keys, CommitUpload(c, k) PROVE HoldInv'
  <2>1. PICK r \in Rows : Catalogue(r) /\ sessionRow' = [sessionRow EXCEPT ![k] = r]
    BY <1>4 DEF CommitUpload
  <2> QED BY <1>4, <2>1, CatalogueRow
          DEF CommitUpload, TypeOK, HoldInv, SessionOwnsHold, HeldRows, HoldsProtect
<1>5. ASSUME NEW c \in Clients, NEW k \in Keys, ReplayUpload(c, k) PROVE HoldInv'
  BY <1>5, HoldFrame DEF ReplayUpload
<1>6. ASSUME NEW k \in Keys, ReserveSession(k) PROVE HoldInv'
  BY <1>6 DEF ReserveSession, TypeOK, HoldInv, SessionOwnsHold, HeldRows, HoldsProtect
<1>7. ASSUME NEW k \in Keys, ConsumeSession(k) \/ CancelSession(k) \/ ExpireSession(k) PROVE HoldInv'
  <2>1. PICK state \in SessionState \ {"committed"} : EndSession(k, state)
    BY <1>7 DEF ConsumeSession, CancelSession, ExpireSession, SessionState, TypeOK
  <2> QED BY <2>1, EndSessionHold
<1>8. ASSUME NEW r \in Rows, ReleasePending(r) PROVE HoldInv'
  BY <1>8, HoldFrame DEF ReleasePending, TypeOK
<1>9. ASSUME NEW r \in Rows, CleanupReleases(r) \/ Acquire(r) \/ GraceElapses(r) PROVE HoldInv'
  BY <1>9, HoldFrame DEF CleanupReleases, Acquire, GraceElapses
<1>10. CASE Accept
  <2>1. \A r \in Rows : pending'[r] > 0 => pending[r] > 0 BY <1>10 DEF Accept, TypeOK
  <2> QED BY <1>10, <2>1, HoldFrame DEF Accept
<1>11. CASE IngestEnds BY <1>11, HoldFrame DEF IngestEnds
<1>12. CASE DeleteProof
  BY <1>12 DEF DeleteProof, Deletable, Referenced, TypeOK, HoldInv, SessionOwnsHold, HeldRows,
               HoldsProtect
<1>13. CASE \/ ReconcileRead \/ ReconcileCheck \/ ReconcileRestore \/ ReconcilePurge \/ Collect
            \/ DeleteFence \/ QuarantineCandidate \/ RestoreCandidate \/ DestroyCandidate
            \/ ScanDies
  BY <1>13, HoldFrame DEF ReconcileRead, ReconcileCheck, ReconcileRestore, ReconcilePurge,
     Collect, DeleteFence, QuarantineCandidate, RestoreCandidate, DestroyCandidate, ScanDies
<1>14. CASE UNCHANGED vars BY <1>14, HoldFrame DEF vars
<1> QED BY <1>1, <1>2, <1>3, <1>4, <1>5, <1>6, <1>7, <1>8, <1>9, <1>10, <1>11, <1>12,
           <1>13, <1>14 DEF Next, ScanProceeds

-----------------------------------------------------------------------------
(* Bytes. *)

\* A step of anyone but the collector that starts no put and catalogues nothing.
LEMMA BytesFrame ==
  ASSUME BytesInv, put' \subseteq put,
         UNCHANGED <<live, quarantine, rowState, scanStep, candidate, overlapped>>
  PROVE  BytesInv'
BY DEF BytesInv, OneLive, CandidateLive, FlightHasBytes, RowHasBytes, SafePurge, Catalogued

\* A put that is catalogued had its bytes on the CAS path, or joins a row.
LEMMA CatalogueBytes ==
  ASSUME TypeOK, BytesInv, NEW c \in put, put' = put \ {c}, NEW r \in Rows, Catalogue(r),
         UNCHANGED <<live, quarantine, scanStep, candidate, overlapped>>
  PROVE  BytesInv'
<1>1. CASE rowState[r] = "live" /\ UNCHANGED rowState BY <1>1, BytesFrame
<1>2. CASE rowState[r] # "live" \/ ~UNCHANGED rowState
  <2>1. /\ ~Catalogued /\ put # {}
        /\ rowState' = [rowState EXCEPT ![r] = "live"]
    BY <1>2 DEF Catalogue, Catalogued
  <2>2. ~overlapped => live BY <2>1 DEF BytesInv, FlightHasBytes
  <2>3. \A q \in Rows : rowState'[q] = "live" <=> q = r BY <2>1 DEF TypeOK, Catalogued
  <2>4. OneLive' BY <2>3 DEF OneLive
  <2>5. CandidateLive' BY <2>1, <2>3 DEF BytesInv, CandidateLive, Catalogued, TypeOK
  <2>6. (FlightHasBytes /\ RowHasBytes /\ SafePurge)'
    BY <2>2, <2>3 DEF FlightHasBytes, RowHasBytes, SafePurge, Catalogued
  <2> QED BY <2>4, <2>5, <2>6 DEF BytesInv
<1> QED BY <1>1, <1>2

\* The collector drops a copy only where no live row depends on it.
LEMMA ScanBytes ==
  ASSUME TypeOK, BytesInv, ScanProceeds \/ ScanDies
  PROVE  BytesInv'
<1> USE DEF Scan, bytesVars, BytesInv, OneLive, CandidateLive, FlightHasBytes, RowHasBytes,
            SafePurge, Catalogued, TypeOK
<1>1. CASE ReconcileRead BY <1>1 DEF ReconcileRead
<1>2. CASE ReconcileCheck BY <1>2 DEF ReconcileCheck
<1>3. CASE ReconcileRestore BY <1>3 DEF ReconcileRestore, RestoreBytes
<1>4. CASE ReconcilePurge BY <1>4 DEF ReconcilePurge
<1>5. CASE Collect BY <1>5 DEF Collect
<1>6. CASE DeleteFence BY <1>6 DEF DeleteFence, Deletable
<1>7. CASE QuarantineCandidate BY <1>7 DEF QuarantineCandidate
<1>8. CASE DeleteProof BY <1>8 DEF DeleteProof, Deletable
<1>9. CASE RestoreCandidate BY <1>9 DEF RestoreCandidate, RestoreBytes
<1>10. CASE DestroyCandidate BY <1>10 DEF DestroyCandidate
<1>11. CASE ScanDies BY <1>11 DEF ScanDies
<1> QED BY <1>1, <1>2, <1>3, <1>4, <1>5, <1>6, <1>7, <1>8, <1>9, <1>10, <1>11 DEF ScanProceeds

\* Every step keeps the bytes of a live row somewhere.
LEMMA BytesStep ==
  ASSUME TypeOK, BytesInv, [Next]_vars
  PROVE  BytesInv'
<1> USE DEF refVars, bytesVars, scanner
<1>1. ASSUME NEW c \in Clients, Promote(c) PROVE BytesInv'
  BY <1>1 DEF Promote, BytesInv, OneLive, CandidateLive, FlightHasBytes, RowHasBytes, SafePurge,
              Catalogued
<1>2. ASSUME NEW c \in Clients, PutDies(c) PROVE BytesInv'
  BY <1>2, BytesFrame DEF PutDies
<1>3. ASSUME NEW c \in Clients, CommitAnonymous(c) PROVE BytesInv'
  BY <1>3, CatalogueBytes DEF CommitAnonymous
<1>4. ASSUME NEW c \in Clients, CommitOutput(c) PROVE BytesInv'
  BY <1>4, CatalogueBytes DEF CommitOutput
<1>5. ASSUME NEW c \in Clients, NEW k \in Keys, CommitUpload(c, k) PROVE BytesInv'
  BY <1>5, CatalogueBytes DEF CommitUpload
<1>6. ASSUME NEW c \in Clients, NEW k \in Keys, ReplayUpload(c, k) PROVE BytesInv'
  BY <1>6, BytesFrame DEF ReplayUpload
<1>7. ASSUME NEW k \in Keys, \/ ReserveSession(k) \/ ConsumeSession(k) \/ CancelSession(k)
                             \/ ExpireSession(k)
      PROVE BytesInv'
  BY <1>7, BytesFrame DEF ReserveSession, ConsumeSession, CancelSession, ExpireSession, EndSession,
                          Released
<1>8. ASSUME NEW r \in Rows, \/ ReleasePending(r) \/ Acquire(r) \/ CleanupReleases(r)
                             \/ GraceElapses(r)
      PROVE BytesInv'
  BY <1>8, BytesFrame DEF ReleasePending, Acquire, CleanupReleases, GraceElapses, Released
<1>9. CASE Accept \/ IngestEnds BY <1>9, BytesFrame DEF Accept, IngestEnds, Released
<1>10. CASE ScanProceeds \/ ScanDies BY <1>10, ScanBytes
<1>11. CASE UNCHANGED vars BY <1>11, BytesFrame DEF vars
<1> QED BY <1>1, <1>2, <1>3, <1>4, <1>5, <1>6, <1>7, <1>8, <1>9, <1>10, <1>11 DEF Next

-----------------------------------------------------------------------------
(* The theorems. *)

\* The empty store satisfies the invariant.
LEMMA InvInit == Init => Inv
<1> SUFFICES ASSUME Init PROVE Inv OBVIOUS
<1>1. TypeOK
  <2>1. candidate \in Rows /\ 0 \in 0..MaxRefs BY BoundAssumption DEF Init, Rows
  <2> QED BY <2>1 DEF Init, TypeOK, SessionState, ScanSteps
<1>2. HoldInv BY DEF Init, HoldInv, SessionOwnsHold, HeldRows, HoldsProtect
<1>3. BytesInv
  BY DEF Init, BytesInv, OneLive, CandidateLive, FlightHasBytes, RowHasBytes, SafePurge, Catalogued
<1> QED BY <1>1, <1>2, <1>3 DEF Inv

\* The invariant holds throughout.
LEMMA InvAlways == Spec => []Inv
<1>1. Inv /\ [Next]_vars => Inv' BY TypeStep, HoldStep, BytesStep DEF Inv
<1> QED BY <1>1, InvInit, PTL DEF Spec

\* Every table, directory and scanner variable stays within its type.
THEOREM StoreTypeCorrect == Spec => []TypeOK
<1>1. Inv => TypeOK BY DEF Inv
<1> QED BY <1>1, InvAlways, PTL

\* Upload sessions own their pending references exactly while they are open.
THEOREM SessionsOwnHolds == Spec => []SessionOwnsHold
<1>1. Inv => SessionOwnsHold BY DEF Inv, HoldInv
<1> QED BY <1>1, InvAlways, PTL

\* The collector tombstones no row under an upload hold.
THEOREM HoldsAreSafe == Spec => []HoldsProtect
<1>1. Inv => HoldsProtect BY DEF Inv, HoldInv
<1> QED BY <1>1, InvAlways, PTL

\* The bytes of referenced objects are kept through every scan, crash of the
\* scanner and restart of it, as long as no deletion completes under a put.
THEOREM BytesAreKept == Spec => []ReferencedBytesKept
<1>1. Inv => ReferencedBytesKept BY DEF Inv, BytesInv, RowHasBytes, ReferencedBytesKept, Catalogued
<1> QED BY <1>1, InvAlways, PTL
=============================================================================
