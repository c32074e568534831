----------------------------- MODULE ObjectStore -----------------------------
(***************************************************************************)
(* The content-addressed object store of one Team, seen through one digest *)
(* (digests never interact): the bytes on the CAS path and in quarantine,  *)
(* the catalogue rows of the digest, the references that hold them, the    *)
(* upload sessions, the TTL scanner and the orphan collector.              *)
(*                                                                         *)
(* Database transactions and file operations are separate steps: a put     *)
(* promotes bytes and catalogues them in a later transaction; the          *)
(* collector checks its fence in one transaction, renames the bytes,       *)
(* proves and tombstones in a second one, and then destroys or restores    *)
(* what it renamed.  Every actor may die between two steps.                *)
(*                                                                         *)
(* References are counted per row and purpose.  Clocks are abstract: holds *)
(* and grace periods may run out at any time.                              *)
(***************************************************************************)
EXTENDS Naturals

CONSTANTS
  Clients,   \* callers that promote bytes: uploads and stage handlers
  Keys,      \* idempotency keys of public uploads
  MaxRows,   \* bound: catalogue rows the digest may get in its life
  MaxRefs    \* bound: live references of one purpose on one row

ASSUME BoundAssumption == MaxRows \in Nat \ {0} /\ MaxRefs \in Nat \ {0}

Rows == 1..MaxRows
SessionState == {"absent", "committed", "reserved", "consumed", "cancelled", "expired"}
ScanSteps == {"idle", "check", "restore", "purge", "collect", "fence", "unlink", "prove",
              "undo", "destroy"}

VARIABLES
  live,        \* the bytes are on the CAS path
  quarantine,  \* a copy is in quarantine
  rowState,    \* mkb_stored_objects: absent, live or tombstoned
  aged,        \* rows whose unowned_at lies more than the orphan grace back
  session,     \* mkb_object_upload_sessions.state by idempotency key
  sessionRow,  \* the session's stored_object_uuid (0: none)
  held,        \* keys whose session still has its upload_pending reference
  pending,     \* anonymous upload_pending references (owner_kind public_upload)
  business,    \* references of snapshots, revisions and Process outputs
  put,         \* clients that promoted bytes and have not catalogued them
  ingest,      \* row an ingest has acquired and not yet accepted (0: none)
  scanStep,    \* where the collector is in scan_once
  candidate,   \* the row it means to delete
  moved,       \* the candidate's unowned_at has moved since it was collected
  overlapped   \* history: a row was tombstoned while a put was in flight

refVars == <<session, sessionRow, held, pending, business>>
bytesVars == <<live, quarantine>>
scanner == <<scanStep, candidate, moved>>
vars == <<bytesVars, rowState, aged, refVars, put, ingest, scanner, overlapped>>

Init ==
  /\ live = FALSE /\ quarantine = FALSE
  /\ rowState = [r \in Rows |-> "absent"]
  /\ aged = {}
  /\ session = [k \in Keys |-> "absent"]
  /\ sessionRow = [k \in Keys |-> 0]
  /\ held = {}
  /\ pending = [r \in Rows |-> 0]
  /\ business = [r \in Rows |-> 0]
  /\ put = {}
  /\ ingest = 0
  /\ scanStep = "idle" /\ candidate = 1 /\ moved = FALSE
  /\ overlapped = FALSE

Referenced(r) == \/ \E k \in held : sessionRow[k] = r
                 \/ pending[r] > 0
                 \/ business[r] > 0

\* A reference on one of these rows is released: unowned_at moves to now.
Released(rows) ==
  /\ aged' = aged \ rows
  /\ moved' = (moved \/ candidate \in rows)
  /\ UNCHANGED <<scanStep, candidate>>

-----------------------------------------------------------------------------
(* Puts: promote_stream, and the transaction that catalogues the bytes. *)

\* promote_stream: bytes already on the CAS path are verified and reused.
Promote(c) ==
  /\ c \notin put
  /\ put' = put \cup {c}
  /\ live' = TRUE
  /\ UNCHANGED <<quarantine, rowState, aged, refVars, ingest, scanner, overlapped>>

\* The caller dies, or its transaction fails, between promotion and catalogue.
PutDies(c) ==
  /\ c \in put
  /\ put' = put \ {c}
  /\ UNCHANGED <<bytesVars, rowState, aged, refVars, ingest, scanner, overlapped>>

\* live_stored_object_uuid, or a new row: r is the row the transaction uses.
Catalogue(r) ==
  \/ /\ rowState[r] = "live"
     /\ UNCHANGED <<rowState, aged>>
  \/ /\ rowState[r] = "absent"
     /\ \A q \in Rows : rowState[q] # "live" /\ (q < r => rowState[q] # "absent")
     /\ rowState' = [rowState EXCEPT ![r] = "live"]
     /\ aged' = aged \ {r}

\* ObjectUploadService.upload under a key seen for the first time.
CommitUpload(c, k) ==
  /\ c \in put /\ put' = put \ {c}
  /\ session[k] = "absent"
  /\ \E r \in Rows : /\ Catalogue(r)
                     /\ sessionRow' = [sessionRow EXCEPT ![k] = r]
  /\ session' = [session EXCEPT ![k] = "committed"]
  /\ held' = held \cup {k}
  /\ UNCHANGED <<bytesVars, pending, business, ingest, scanner, overlapped>>

\* ObjectUploadService.upload under a known key: the session is replayed, or
\* refused because its row is tombstoned; no hold is placed in either case.
ReplayUpload(c, k) ==
  /\ c \in put /\ put' = put \ {c}
  /\ session[k] # "absent"
  /\ UNCHANGED <<bytesVars, rowState, aged, refVars, ingest, scanner, overlapped>>

\* ObjectUploadService.upload without a key: every call adds a hold of its own.
CommitAnonymous(c) ==
  /\ c \in put /\ put' = put \ {c}
  /\ \E r \in Rows : /\ Catalogue(r)
                     /\ pending[r] < MaxRefs
                     /\ pending' = [pending EXCEPT ![r] = @ + 1]
  /\ UNCHANGED <<bytesVars, session, sessionRow, held, business, ingest, scanner, overlapped>>

\* _catalog_stat in the transaction of a Process success.
CommitOutput(c) ==
  /\ c \in put /\ put' = put \ {c}
  /\ \E r \in Rows : /\ Catalogue(r)
                     /\ business[r] < MaxRefs
                     /\ business' = [business EXCEPT ![r] = @ + 1]
  /\ UNCHANGED <<bytesVars, session, sessionRow, held, pending, ingest, scanner, overlapped>>

-----------------------------------------------------------------------------
(* Upload sessions and holds. *)

\* reserve_session: one Task generation takes the session.
ReserveSession(k) ==
  /\ session[k] = "committed"
  /\ session' = [session EXCEPT ![k] = "reserved"]
  /\ UNCHANGED <<bytesVars, rowState, aged, sessionRow, held, pending, business, put, ingest,
                 scanner, overlapped>>

\* Mutant: the hold is kept.
EndSessionHeld(k, state) ==
  /\ session' = [session EXCEPT ![k] = state]
  /\ UNCHANGED <<aged, scanner, held, bytesVars, rowState, sessionRow, pending, business, put,
                 ingest, overlapped>>

\* The session of k ends in a state and its pending reference is released.
EndSession(k, state) ==
  /\ session' = [session EXCEPT ![k] = state]
  /\ IF k \in held THEN Released({sessionRow[k]}) ELSE UNCHANGED <<aged, scanner>>
  /\ held' = held \ {k}
  /\ UNCHANGED <<bytesVars, rowState, sessionRow, pending, business, put, ingest, overlapped>>

\* consume_session
ConsumeSession(k) == session[k] = "reserved" /\ EndSession(k, "consumed")

\* cancel_session: only an open session is cancelled, but the reference of any
\* session is released.
CancelSession(k) ==
  /\ session[k] # "absent"
  /\ EndSession(k, IF session[k] = "committed" THEN "cancelled" ELSE session[k])

\* ObjectUploadLifecycleService.scan_once on one expired session hold.
ExpireSession(k) ==
  /\ k \in held /\ session[k] \notin {"reserved", "consumed"}
  /\ EndSession(k, IF session[k] = "committed" THEN "expired" ELSE session[k])

\* Mutant: a hold that is already released is released again.
ReleasePendingTwice(r) ==
  /\ rowState[r] = "live"
  /\ pending' = [pending EXCEPT ![r] = @ - 1]
  /\ Released({r})
  /\ UNCHANGED <<bytesVars, rowState, session, sessionRow, held, business, put, ingest, overlapped>>

\* The TTL scan, or cancel without a session token, releases an anonymous hold.
ReleasePending(r) ==
  /\ pending[r] > 0
  /\ pending' = [pending EXCEPT ![r] = @ - 1]
  /\ Released({r})
  /\ UNCHANGED <<bytesVars, rowState, session, sessionRow, held, business, put, ingest, overlapped>>

-----------------------------------------------------------------------------
(* Ingest of an uploaded object, and cleanup of what was ingested. *)

\* _live_local_object and read_verified: the object must be catalogued,
\* referenced and readable.
Acquire(r) ==
  /\ ingest = 0
  /\ rowState[r] = "live" /\ Referenced(r) /\ live
  /\ ingest' = r
  /\ UNCHANGED <<bytesVars, rowState, aged, refVars, put, scanner, overlapped>>

\* The acceptance transaction: a business reference replaces the anonymous
\* holds of the source object.
Accept ==
  /\ ingest # 0
  /\ business[ingest] < MaxRefs
  /\ business' = [business EXCEPT ![ingest] = @ + 1]
  /\ pending' = [pending EXCEPT ![ingest] = 0]
  /\ IF pending[ingest] > 0 THEN Released({ingest}) ELSE UNCHANGED <<aged, scanner>>
  /\ ingest' = 0
  /\ UNCHANGED <<bytesVars, rowState, session, sessionRow, held, put, overlapped>>

\* The Execution fails, is cancelled, or finds nothing new.
IngestEnds ==
  /\ ingest # 0
  /\ ingest' = 0
  /\ UNCHANGED <<bytesVars, rowState, aged, refVars, put, scanner, overlapped>>

\* The delete command of an Item, or a step of its cleanup job.
CleanupReleases(r) ==
  /\ business[r] > 0
  /\ business' = [business EXCEPT ![r] = @ - 1]
  /\ Released({r})
  /\ UNCHANGED <<bytesVars, rowState, session, sessionRow, held, pending, put, ingest, overlapped>>

-----------------------------------------------------------------------------
(* The collector: ObjectGcService.scan_once. *)

Scan(from, to) ==
  scanStep = from /\ scanStep' = to /\ UNCHANGED <<candidate, moved>>

GraceElapses(r) ==
  /\ rowState[r] = "live" /\ r \notin aged
  /\ aged' = aged \cup {r}
  /\ UNCHANGED <<bytesVars, rowState, refVars, put, ingest, scanner, overlapped>>

\* Mutant: quarantine is not reconciled.
ReconcileNothing ==
  /\ Scan("idle", "collect")
  /\ UNCHANGED <<bytesVars, rowState, aged, refVars, put, ingest, overlapped>>

\* reconcile_quarantine: the read of the live row, then of the newest row.
ReconcileRead ==
  /\ \/ ~quarantine /\ Scan("idle", "collect")
     \/ /\ quarantine
        /\ \/ (\E r \in Rows : rowState[r] = "live") /\ Scan("idle", "restore")
           \/ (\A r \in Rows : rowState[r] # "live") /\ Scan("idle", "check")
  /\ UNCHANGED <<bytesVars, rowState, aged, refVars, put, ingest, overlapped>>

NewestTombstoned ==
  \E r \in Rows : rowState[r] = "tombstoned" /\ \A q \in Rows : q > r => rowState[q] = "absent"

ReconcileCheck ==
  /\ \/ NewestTombstoned /\ Scan("check", "purge")
     \/ ~NewestTombstoned /\ Scan("check", "collect")
  /\ UNCHANGED <<bytesVars, rowState, aged, refVars, put, ingest, overlapped>>

\* Mutant: the quarantined copy is dropped instead of restored.
RestoreNothing ==
  /\ quarantine' = FALSE
  /\ UNCHANGED live

\* restore_quarantined
RestoreBytes ==
  /\ live' = (live \/ quarantine)
  /\ quarantine' = FALSE

ReconcileRestore ==
  /\ Scan("restore", "collect")
  /\ RestoreBytes
  /\ UNCHANGED <<rowState, aged, refVars, put, ingest, overlapped>>

ReconcilePurge ==
  /\ Scan("purge", "collect")
  /\ quarantine' = FALSE
  /\ UNCHANGED <<live, rowState, aged, refVars, put, ingest, overlapped>>

\* collect_candidates
Collect ==
  /\ \/ /\ scanStep = "collect" /\ scanStep' = "fence"
        /\ \E r \in aged : rowState[r] = "live" /\ ~Referenced(r) /\ candidate' = r
        /\ moved' = FALSE
     \/ /\ \A r \in aged : rowState[r] # "live" \/ Referenced(r)
        /\ Scan("collect", "idle")
  /\ UNCHANGED <<bytesVars, rowState, aged, refVars, put, ingest, overlapped>>

\* Mutant: the references are not looked at again.
UnfencedDeletable(r) ==
  rowState[r] = "live" /\ ~moved

\* _same_catalogue_row and _delete_blocker_tx.  Its cleanup fence never holds:
\* the cleanup intents the program opens name Items and indexes, not objects.
Deletable(r) ==
  rowState[r] = "live" /\ ~moved /\ ~Referenced(r)

\* The first transaction of delete_candidate.
DeleteFence ==
  /\ \/ Deletable(candidate) /\ Scan("fence", "unlink")
     \/ ~Deletable(candidate) /\ Scan("fence", "idle")
  /\ UNCHANGED <<bytesVars, rowState, aged, refVars, put, ingest, overlapped>>

\* quarantine_object; a candidate without bytes is left as it is.
QuarantineCandidate ==
  /\ \/ /\ live /\ Scan("unlink", "prove")
        /\ live' = FALSE /\ quarantine' = TRUE
     \/ /\ ~live /\ Scan("unlink", "idle")
        /\ UNCHANGED bytesVars
  /\ UNCHANGED <<rowState, aged, refVars, put, ingest, overlapped>>

\* The second transaction of delete_candidate: proof and tombstone, or not.
DeleteProof ==
  /\ \/ /\ Deletable(candidate) /\ Scan("prove", "destroy")
        /\ rowState' = [rowState EXCEPT ![candidate] = "tombstoned"]
        /\ overlapped' = (overlapped \/ put # {})
     \/ /\ ~Deletable(candidate) /\ Scan("prove", "undo")
        /\ UNCHANGED <<rowState, overlapped>>
  /\ UNCHANGED <<bytesVars, aged, refVars, put, ingest>>

RestoreCandidate ==
  /\ Scan("undo", "idle")
  /\ RestoreBytes
  /\ UNCHANGED <<rowState, aged, refVars, put, ingest, overlapped>>

DestroyCandidate ==
  /\ Scan("destroy", "idle")
  /\ quarantine' = FALSE
  /\ UNCHANGED <<live, rowState, aged, refVars, put, ingest, overlapped>>

\* The scan is cancelled, raises, or its process dies.
ScanDies ==
  /\ scanStep # "idle" /\ Scan(scanStep, "idle")
  /\ UNCHANGED <<bytesVars, rowState, aged, refVars, put, ingest, overlapped>>

ScanProceeds ==
  \/ ReconcileRead \/ ReconcileCheck \/ ReconcileRestore \/ ReconcilePurge
  \/ Collect \/ DeleteFence \/ QuarantineCandidate \/ DeleteProof
  \/ RestoreCandidate \/ DestroyCandidate

-----------------------------------------------------------------------------

Next ==
  \/ \E c \in Clients :
       \/ Promote(c) \/ PutDies(c) \/ CommitAnonymous(c) \/ CommitOutput(c)
       \/ \E k \in Keys : CommitUpload(c, k) \/ ReplayUpload(c, k)
  \/ \E k \in Keys : \/ ReserveSession(k) \/ ConsumeSession(k)
                     \/ CancelSession(k) \/ ExpireSession(k)
  \/ \E r \in Rows : \/ ReleasePending(r) \/ Acquire(r) \/ CleanupReleases(r)
                     \/ GraceElapses(r)
  \/ Accept \/ IngestEnds
  \/ ScanProceeds \/ ScanDies

Spec == Init /\ [][Next]_vars

\* The scanner runs for ever, and does not die in every reconciliation.
ScanFairness ==
  /\ WF_vars(ScanProceeds)
  /\ SF_vars(ReconcileRead) /\ SF_vars(ReconcileRestore)

FairSpec == Spec /\ ScanFairness

-----------------------------------------------------------------------------
(* Properties. *)

\* Every variable holds a value its table, directory or actor admits.
TypeOK ==
  /\ live \in BOOLEAN /\ quarantine \in BOOLEAN /\ overlapped \in BOOLEAN
  /\ rowState \in [Rows -> {"absent", "live", "tombstoned"}]
  /\ aged \subseteq Rows
  /\ session \in [Keys -> SessionState]
  /\ sessionRow \in [Keys -> Rows \cup {0}]
  /\ held \subseteq Keys
  /\ pending \in [Rows -> 0..MaxRefs] /\ business \in [Rows -> 0..MaxRefs]
  /\ put \subseteq Clients /\ ingest \in Rows \cup {0}
  /\ scanStep \in ScanSteps /\ candidate \in Rows /\ moved \in BOOLEAN

\* A committed session owns its pending reference and a finished one has none,
\* however expiry, cancellation, reservation and consumption interleave.
SessionOwnsHold ==
  \A k \in Keys : /\ session[k] = "committed" => k \in held
                  /\ session[k] \in {"absent", "consumed", "cancelled", "expired"} => k \notin held

\* An upload hold protects its row: whatever was collected before the hold was
\* placed, the row is not tombstoned while it lasts.
HoldsProtect ==
  /\ \A k \in held : rowState[sessionRow[k]] = "live"
  /\ \A r \in Rows : pending[r] > 0 => rowState[r] = "live"

\* The bytes of a catalogued and referenced object are on the CAS path or in
\* quarantine, from where the next scan brings them back, unless the collector
\* finished a deletion while a put of the same bytes was in flight.
ReferencedBytesKept ==
  overlapped \/ \A r \in Rows : rowState[r] = "live" /\ Referenced(r) => live \/ quarantine

\* object_gc: the catalogue never points at missing bytes.
CatalogueNeverMissing ==
  \A r \in Rows : rowState[r] = "live" /\ Referenced(r) => live \/ quarantine

Bereft == quarantine /\ ~live /\ \E r \in Rows : rowState[r] = "live" /\ Referenced(r)

\* Bytes that a dead scan left in quarantine under a referenced row return.
BytesReturn == Bereft ~> ~Bereft
=============================================================================
