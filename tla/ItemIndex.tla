------------------------------ MODULE ItemIndex ------------------------------
(***************************************************************************)
(* One Intake Item, its revisions, and the index that serves it: the Item  *)
(* row with its epoch (row_revision), the vector namespaces, the active    *)
(* index pointer of the Item in each namespace, the vector records each    *)
(* Execution wrote, and the retirement of old index generations.           *)
(*                                                                         *)
(* A job is one Execution.  It is admitted with a frozen view of the Item  *)
(* and changes the Item later, in the transaction of a Process outcome;    *)
(* between the two any other job, a reviewer, the retirement scanner or    *)
(* another Item of the namespace may act.  A revision number stands for a  *)
(* semantic fingerprint: content seen before gets its old revision back.   *)
(*                                                                         *)
(* The records a job writes in a namespace change state together, so they  *)
(* are one record set <<job, namespace>>.  The artifact and the proof of a *)
(* generation are named by the job that made them.  pointer_row_revision   *)
(* is left out: a pointer that is active again has a higher generation.    *)
(***************************************************************************)
EXTENDS Naturals

CONSTANTS
  Jobs,        \* Executions that may work on the Item
  Namespaces,  \* vector namespaces of the Team: one per embedding model
  None,        \* no job, no namespace
  MaxRev,      \* bound: distinct contents of the Item
  MaxGen       \* bound: index generations other Items may reserve up to

ASSUME IndexAssumption ==
  /\ None \notin Jobs /\ None \notin Namespaces
  /\ MaxRev \in Nat \ {0} /\ MaxGen \in Nat

Revisions == 1..MaxRev
Sets == Jobs \X Namespaces

Commands == {"deactivate", "reactivate", "delete"}
Accepting == {"ingest", "reviewed", "metadata", "rebuild"}
Stages == Commands \cup Accepting \cup
          {"none", "index", "gate", "ready", "embedding", "vectorized", "planned", "done", "failed"}

VARIABLES
  lifecycle,     \* mkb_intake_items.lifecycle_state, or absent
  latest,        \* latest_revision_uuid (0: NULL)
  serving,       \* serving_revision_uuid (0: NULL)
  epoch,         \* row_revision
  stage,         \* where each job is
  jobRev,        \* its intake_revision_uuid
  jobNs,         \* the namespace of its frozen embedding model (None: it embeds nothing)
  jobEpoch,      \* the Item epoch frozen at admission or in its plan (0: none)
  jobGen,        \* the index generation of its record set (0: none)
  observed,      \* jobs whose mkb_intake_observations.state is accepted
  nsGen,         \* mkb_vector_namespaces.index_generation
  pointerGen,    \* mkb_index_active_pointers.active_index_generation (0: no row)
  pointerState,  \* its lifecycle_state
  pointerProof,  \* the job of last_proof_uuid
  recState,      \* publication_state of a record set, or none
  purged,        \* record sets with deleted_at
  intents,       \* open retirement intents: <<namespace, generation>>
  known,         \* the Item's revision rows, each made by the snapshot that brought it first
  owner,         \* history: the job that made the latest revision the latest
  suspended      \* history: deactivated by command and not reactivated since

item == <<lifecycle, latest, serving, epoch>>
frozen == <<jobRev, jobNs, observed>>
pointers == <<pointerGen, pointerState, pointerProof>>
records == <<recState, purged>>
history == <<known, owner, suspended>>
index == <<nsGen, pointers, records, intents>>
vars == <<item, stage, frozen, jobEpoch, jobGen, index, history>>

Init ==
  /\ lifecycle = "absent" /\ latest = 0 /\ serving = 0 /\ epoch = 0
  /\ stage = [j \in Jobs |-> "none"]
  /\ jobRev = [j \in Jobs |-> 0]
  /\ jobNs = [j \in Jobs |-> None]
  /\ observed = {}
  /\ jobEpoch = [j \in Jobs |-> 0]
  /\ jobGen = [s \in Sets |-> 0]
  /\ nsGen = [n \in Namespaces |-> 0]
  /\ pointerGen = [n \in Namespaces |-> 0]
  /\ pointerState = [n \in Namespaces |-> "withdrawn"]
  /\ pointerProof = [n \in Namespaces |-> None]
  /\ recState = [s \in Sets |-> "none"]
  /\ purged = {} /\ intents = {}
  /\ known = {} /\ owner = None /\ suspended = FALSE

-----------------------------------------------------------------------------
(* Admission: what a Task freezes of the Item. *)

Admit(j, to, rev, ns, seen) ==
  /\ stage[j] = "none"
  /\ stage' = [stage EXCEPT ![j] = to]
  /\ jobRev' = [jobRev EXCEPT ![j] = rev]
  /\ jobNs' = [jobNs EXCEPT ![j] = ns]
  /\ jobEpoch' = [jobEpoch EXCEPT ![j] = seen]
  /\ UNCHANGED <<item, jobGen, index, history>>

\* ObservationReservationService.prepare: an inactive Item admits no
\* observation, and an Item that does not exist yet gives no epoch.
AdmitIngest(j) ==
  /\ lifecycle \in {"absent", "active"}
  /\ \E rev \in Revisions, to \in {"ingest", "reviewed"}, ns \in Namespaces :
       Admit(j, to, rev, ns, epoch)
  /\ UNCHANGED observed

\* resolve_metadata_update: a changed value makes a revision nobody has.
AdmitMetadata(j) ==
  /\ lifecycle = "active"
  /\ \E rev \in Revisions, ns \in Namespaces :
       /\ \A k \in Jobs : jobRev[k] # rev
       /\ Admit(j, "metadata", rev, ns, epoch)
  /\ UNCHANGED observed

\* resolve_rebuild
AdmitRebuild(j) ==
  /\ lifecycle = "active"
  /\ \E ns \in Namespaces : Admit(j, "rebuild", latest, ns, epoch)
  /\ UNCHANGED observed

\* resolve_index_rebuild freezes the revision; the plan reads the epoch.
AdmitIndexRebuild(j) ==
  /\ lifecycle = "active"
  /\ Admit(j, "index", latest, None, 0)
  /\ UNCHANGED observed

\* resolve_lifecycle_target
AdmitCommand(j) ==
  /\ lifecycle \in {"active", "deactivated"}
  /\ \E action \in Commands : Admit(j, action, latest, None, epoch)
  /\ UNCHANGED observed

\* retry_task on an ingest that was accepted and did not succeed: the accepted
\* observation is replayed, without touching the Item and without a new gate.
AdmitFullRetry(j, k) ==
  /\ k # j /\ stage[k] = "failed" /\ k \in observed
  /\ Admit(j, "ready", jobRev[k], jobNs[k], 0)
  /\ observed' = (observed \ {k}) \cup {j}

\* The Execution fails, is refused, or is cancelled; an open gate is superseded.
JobFails(j) ==
  /\ stage[j] \notin {"none", "done", "failed"}
  /\ stage' = [stage EXCEPT ![j] = "failed"]
  /\ jobEpoch' = [jobEpoch EXCEPT ![j] = 0]
  /\ UNCHANGED <<item, frozen, jobGen, index, history>>

-----------------------------------------------------------------------------
(* Acceptance, and the review gate behind it. *)

\* The transaction of intake.accept_snapshot moves the Item to a revision.
BecomesLatest(j) ==
  /\ latest' = jobRev[j]
  /\ epoch' = epoch + 1
  /\ known' = known \cup {jobRev[j]}
  /\ owner' = j
  /\ UNCHANGED <<serving, suspended>>

Accepted(j, to) ==
  /\ stage' = [stage EXCEPT ![j] = to]
  /\ jobEpoch' = [jobEpoch EXCEPT ![j] = 0]
  /\ UNCHANGED <<jobRev, jobNs, jobGen, index>>

\* expected_item_epoch: a job admitted before the Item existed has none.
EpochMatches(j) == jobEpoch[j] \in {0, epoch}

\* _human_review_evidence_tx: a gate needs a revision its own snapshot made;
\* for content the Item already had the Execution fails.
AfterAccept(j) ==
  IF stage[j] = "ingest" THEN "ready"
  ELSE IF jobRev[j] \in known THEN "failed"
  ELSE "gate"

\* _accept_snapshot: the Item is created, moved, or found unchanged.
AcceptSnapshot(j) ==
  /\ stage[j] \in {"ingest", "reviewed"}
  /\ \/ /\ lifecycle = "absent"
        /\ lifecycle' = IF stage[j] = "reviewed" THEN "deactivated" ELSE "active"
        /\ BecomesLatest(j)
     \/ /\ EpochMatches(j) /\ latest # jobRev[j]
        /\ lifecycle \in {"active", "deactivated"} /\ UNCHANGED lifecycle
        /\ BecomesLatest(j)
     \/ /\ EpochMatches(j) /\ latest = jobRev[j]
        /\ UNCHANGED <<item, history>>
  /\ observed' = observed \cup {j}
  /\ Accepted(j, AfterAccept(j))

\* _accept_metadata_update
AcceptMetadata(j) ==
  /\ stage[j] = "metadata" /\ jobEpoch[j] = epoch /\ lifecycle = "active"
  /\ BecomesLatest(j) /\ UNCHANGED <<lifecycle, observed>>
  /\ Accepted(j, "ready")

\* _accept_rebuild
AcceptRebuild(j) ==
  /\ stage[j] = "rebuild" /\ jobEpoch[j] = epoch /\ lifecycle = "active" /\ latest = jobRev[j]
  /\ UNCHANGED <<item, observed, history>>
  /\ Accepted(j, "ready")

\* Mutant: the approval activates the Item whatever inactive state it has.
GateApprovesInactive(j) ==
  /\ stage[j] = "gate" /\ stage' = [stage EXCEPT ![j] = "ready"]
  /\ IF lifecycle # "active"
     THEN lifecycle' = "active" /\ epoch' = epoch + 1
     ELSE UNCHANGED <<lifecycle, epoch>>
  /\ UNCHANGED <<latest, serving, frozen, jobEpoch, jobGen, index, history>>

\* consume_gate_decision with approve: the Item becomes active, whoever made it
\* inactive.
GateApproves(j) ==
  /\ stage[j] = "gate" /\ stage' = [stage EXCEPT ![j] = "ready"]
  /\ IF lifecycle = "deactivated"
     THEN lifecycle' = "active" /\ epoch' = epoch + 1
     ELSE UNCHANGED <<lifecycle, epoch>>
  /\ UNCHANGED <<latest, serving, frozen, jobEpoch, jobGen, index, history>>

\* consume_gate_decision with reject: an active Item is taken out of service;
\* its pointers and records stay as they are.
GateRejects(j) ==
  /\ stage[j] = "gate" /\ stage' = [stage EXCEPT ![j] = "failed"]
  /\ IF lifecycle = "active"
     THEN lifecycle' = "deactivated" /\ serving' = 0 /\ epoch' = epoch + 1
     ELSE UNCHANGED <<lifecycle, serving, epoch>>
  /\ UNCHANGED <<latest, frozen, jobEpoch, jobGen, index, history>>

-----------------------------------------------------------------------------
(* Vectorize: the generation is read in one transaction, reserved in another. *)

\* _vectorize_from_construct up to the embeddings: _namespace_coordinates.
ReadGeneration(j) ==
  /\ stage[j] = "ready" /\ stage' = [stage EXCEPT ![j] = "embedding"]
  /\ jobGen' = [jobGen EXCEPT ![<<j, jobNs[j]>>] = nsGen[jobNs[j]] + 1]
  /\ UNCHANGED <<item, frozen, jobEpoch, index, history>>

\* Mutant: the generation is taken as it was read.
UnreservedGeneration(j) == TRUE

\* The reservation of the outcome transaction finds the namespace as it was.
GenerationFree(j) == jobGen[<<j, jobNs[j]>>] = nsGen[jobNs[j]] + 1

\* The outcome transaction of vectorize: reserve, then upsert withdrawn records.
Vectorize(j) ==
  /\ stage[j] = "embedding" /\ GenerationFree(j)
  /\ stage' = [stage EXCEPT ![j] = "vectorized"]
  /\ nsGen' = [nsGen EXCEPT ![jobNs[j]] = jobGen[<<j, jobNs[j]>>]]
  /\ recState' = [recState EXCEPT ![<<j, jobNs[j]>>] = "withdrawn"]
  /\ UNCHANGED <<item, frozen, jobEpoch, jobGen, pointers, purged, intents, history>>

\* VECTORIZE_GENERATION_FENCE: the outcome is rolled back, and the worker
\* submits a terminal failure in its place.
VectorizeFenced(j) ==
  /\ stage[j] = "embedding" /\ ~GenerationFree(j)
  /\ stage' = [stage EXCEPT ![j] = "failed"]
  /\ jobEpoch' = [jobEpoch EXCEPT ![j] = 0]
  /\ UNCHANGED <<item, frozen, jobGen, index, history>>

\* VECTORIZE_INFERENCE_FAILED, or a lost lease: the Process runs again and
\* reads the generation anew.
VectorizeRetried(j) ==
  /\ stage[j] = "embedding" /\ stage' = [stage EXCEPT ![j] = "ready"]
  /\ jobGen' = [jobGen EXCEPT ![<<j, jobNs[j]>>] = 0]
  /\ UNCHANGED <<item, frozen, jobEpoch, index, history>>

\* Another Item of the Team reserves a generation of the namespace.
OtherItemReserves(n) ==
  /\ nsGen[n] < MaxGen
  /\ nsGen' = [nsGen EXCEPT ![n] = @ + 1]
  /\ UNCHANGED <<item, stage, frozen, jobEpoch, jobGen, pointers, records, intents, history>>

-----------------------------------------------------------------------------
(* Publication: one outcome transaction, or nothing. *)

\* Mutant: whether the Item is still active is not asked again.
PublishableInactive(j) ==
  /\ recState[<<j, jobNs[j]>>] = "withdrawn"
  /\ pointerGen[jobNs[j]] < jobGen[<<j, jobNs[j]>>]
  /\ latest = jobRev[j]

\* The record set is publishable, the pointer moves forward, and
\* publish_revision_tx finds an active Item with this latest revision.
\* deleted_at of the records is not looked at.
Publishable(j) ==
  /\ recState[<<j, jobNs[j]>>] = "withdrawn"
  /\ pointerGen[jobNs[j]] < jobGen[<<j, jobNs[j]>>]
  /\ lifecycle = "active" /\ latest = jobRev[j]

\* _publish, publish_revision_tx and schedule_retirement_tx.
Publish(j) ==
  LET n == jobNs[j] IN
  /\ stage[j] = "vectorized" /\ Publishable(j)
  /\ stage' = [stage EXCEPT ![j] = "done"]
  /\ recState' = [recState EXCEPT ![<<j, n>>] = "indexed"]
  /\ pointerGen' = [pointerGen EXCEPT ![n] = jobGen[<<j, n>>]]
  /\ pointerState' = [pointerState EXCEPT ![n] = "active"]
  /\ pointerProof' = [pointerProof EXCEPT ![n] = j]
  /\ serving' = jobRev[j] /\ epoch' = epoch + 1
  /\ intents' = IF pointerGen[n] = 0 THEN intents ELSE intents \cup {<<n, pointerGen[n]>>}
  /\ UNCHANGED <<lifecycle, latest, frozen, jobEpoch, jobGen, nsGen, purged, history>>

-----------------------------------------------------------------------------
(* Lifecycle commands: apply_tx. *)

\* Mutant: a deleted Item gets a state of its own making.
TargetRemoved(action) ==
  IF action = "deactivate" THEN "deactivated" ELSE IF action = "reactivate" THEN "active" ELSE "removed"

\* _target_state
Target(action) ==
  IF action = "deactivate" THEN "deactivated" ELSE IF action = "reactivate" THEN "active" ELSE "deleted"

\* Nothing of the Item is served any more.
Withdraw ==
  /\ serving' = 0
  /\ pointerState' = [n \in Namespaces |-> "withdrawn"]
  /\ recState' = [s \in Sets |-> IF recState[s] = "indexed" /\ s \notin purged
                                 THEN "withdrawn" ELSE recState[s]]

\* The Item is as it was when the command was admitted, and a deleted Item is
\* only deleted again.
Applicable(j) == jobEpoch[j] = epoch /\ (lifecycle # "deleted" \/ stage[j] = "delete")

ApplyCommand(j) ==
  /\ stage[j] \in Commands /\ Applicable(j)
  /\ stage' = [stage EXCEPT ![j] = "done"]
  /\ jobEpoch' = [jobEpoch EXCEPT ![j] = 0]
  /\ \/ /\ lifecycle # Target(stage[j])
        /\ lifecycle' = Target(stage[j]) /\ epoch' = epoch + 1
        /\ Withdraw
        /\ suspended' = (stage[j] # "reactivate")
     \/ /\ lifecycle = Target(stage[j])
        /\ UNCHANGED <<lifecycle, epoch, serving, pointerState, recState, suspended>>
  /\ UNCHANGED <<latest, frozen, jobGen, nsGen, pointerGen, pointerProof, purged, intents, known, owner>>

-----------------------------------------------------------------------------
(* index.rebuild: plan, then commit, for every active pointer of the Item. *)

Active(n) == pointerState[n] = "active"

\* The pointer's proof is for this revision and its records are complete.
Clonable(n, rev) ==
  /\ pointerProof[n] # None /\ jobRev[pointerProof[n]] = rev
  /\ recState[<<pointerProof[n], n>>] = "indexed"
  /\ <<pointerProof[n], n>> \notin purged

\* _plan_index_rebuild; an Item whose latest revision is not serving is no target.
PlanRebuild(j) ==
  /\ stage[j] = "index" /\ lifecycle = "active" /\ latest = jobRev[j]
  /\ \/ /\ serving # latest
        /\ stage' = [stage EXCEPT ![j] = "done"]
        /\ UNCHANGED <<jobEpoch, jobGen>>
     \/ /\ serving = latest
        /\ \E n \in Namespaces : Active(n)
        /\ \A n \in Namespaces : Active(n) => Clonable(n, jobRev[j])
        /\ stage' = [stage EXCEPT ![j] = "planned"]
        /\ jobEpoch' = [jobEpoch EXCEPT ![j] = epoch]
        /\ jobGen' = [s \in Sets |-> IF s[1] = j /\ Active(s[2]) THEN pointerGen[s[2]] + 1
                                     ELSE jobGen[s]]
  /\ UNCHANGED <<item, frozen, index, history>>

Planned(j, n) == jobGen[<<j, n>>] # 0

\* Mutant: the pointer is not compared with the plan.
UnfencedRevalidated(j) ==
  /\ jobEpoch[j] = epoch /\ lifecycle = "active"
  /\ latest = jobRev[j] /\ serving = jobRev[j]

\* _revalidate_index_rebuild_plan_tx and the compare-and-set of each pointer.
Revalidated(j) ==
  /\ jobEpoch[j] = epoch /\ lifecycle = "active"
  /\ latest = jobRev[j] /\ serving = jobRev[j]
  /\ \A n \in Namespaces : Planned(j, n) =>
       Active(n) /\ pointerGen[n] + 1 = jobGen[<<j, n>>] /\ Clonable(n, jobRev[j])

\* _commit_index_rebuild: cloned records are indexed at once.
CommitRebuild(j) ==
  /\ stage[j] = "planned" /\ Revalidated(j)
  /\ stage' = [stage EXCEPT ![j] = "done"]
  /\ jobEpoch' = [jobEpoch EXCEPT ![j] = 0]
  /\ recState' = [s \in Sets |-> IF s[1] = j /\ Planned(j, s[2]) THEN "indexed" ELSE recState[s]]
  /\ pointerGen' = [n \in Namespaces |-> IF Planned(j, n) THEN jobGen[<<j, n>>] ELSE pointerGen[n]]
  /\ pointerProof' = [n \in Namespaces |-> IF Planned(j, n) THEN j ELSE pointerProof[n]]
  /\ nsGen' = [n \in Namespaces |-> IF jobGen[<<j, n>>] > nsGen[n] THEN jobGen[<<j, n>>] ELSE nsGen[n]]
  /\ intents' = intents \cup {<<n, pointerGen[n]>> : n \in {m \in Namespaces : Planned(j, m)}}
  /\ UNCHANGED <<item, frozen, jobGen, pointerState, purged, history>>

-----------------------------------------------------------------------------
(* Retirement of old generations: IndexGenerationRetirementService. *)

\* _active_pointer_tx
PointerAvailable(n) == Active(n) /\ lifecycle = "active" /\ serving # 0

\* Mutant: every generation that is not the namespace's newest is retired.
OldInNamespace(n, g) ==
  \E j \in Jobs : /\ recState[<<j, n>>] # "none" /\ <<j, n>> \notin purged
                  /\ jobGen[<<j, n>>] = g /\ g < nsGen[n]

\* Live records behind the active pointer.
OldGeneration(n, g) ==
  \E j \in Jobs : /\ recState[<<j, n>>] # "none" /\ <<j, n>> \notin purged
                  /\ jobGen[<<j, n>>] = g /\ g < pointerGen[n]

\* discover_retirements
Discover(n, g) ==
  /\ PointerAvailable(n) /\ OldGeneration(n, g)
  /\ <<n, g>> \notin intents
  /\ intents' = intents \cup {<<n, g>>}
  /\ UNCHANGED <<item, stage, frozen, jobEpoch, jobGen, nsGen, pointers, records, history>>

\* soft_purge of an intent whose grace has passed.  An intent is kept while the
\* pointer is available and not past it; without a pointer it is abandoned, and
\* its records are deleted all the same.
SoftPurge(n, g) ==
  /\ <<n, g>> \in intents
  /\ ~PointerAvailable(n) \/ pointerGen[n] > g
  /\ intents' = intents \ {<<n, g>>}
  /\ purged' = purged \cup {s \in Sets : s[2] = n /\ recState[s] # "none" /\ jobGen[s] = g}
  /\ UNCHANGED <<item, stage, frozen, jobEpoch, jobGen, nsGen, pointers, recState, history>>

-----------------------------------------------------------------------------

Next ==
  \/ \E j \in Jobs :
       \/ AdmitIngest(j) \/ AdmitMetadata(j) \/ AdmitRebuild(j) \/ AdmitIndexRebuild(j)
       \/ AdmitCommand(j) \/ (\E k \in Jobs : AdmitFullRetry(j, k)) \/ JobFails(j)
       \/ AcceptSnapshot(j) \/ AcceptMetadata(j) \/ AcceptRebuild(j)
       \/ GateApproves(j) \/ GateRejects(j)
       \/ ReadGeneration(j) \/ Vectorize(j) \/ VectorizeFenced(j) \/ VectorizeRetried(j)
       \/ Publish(j)
       \/ ApplyCommand(j) \/ PlanRebuild(j) \/ CommitRebuild(j)
  \/ \E n \in Namespaces :
       \/ OtherItemReserves(n)
       \/ \E g \in 1..nsGen[n] : Discover(n, g) \/ SoftPurge(n, g)

Spec == Init /\ [][Next]_vars

-----------------------------------------------------------------------------
(* Properties. *)

\* Every variable holds a value its table or its actor admits; the Item has a
\* state of the check constraint of mkb_intake_items.
TypeOK ==
  /\ lifecycle \in {"absent", "active", "deactivated", "deleted"}
  /\ latest \in 0..MaxRev /\ serving \in 0..MaxRev /\ epoch \in Nat
  /\ stage \in [Jobs -> Stages]
  /\ jobRev \in [Jobs -> 0..MaxRev]
  /\ jobNs \in [Jobs -> Namespaces \cup {None}]
  /\ observed \subseteq Jobs
  /\ jobEpoch \in [Jobs -> Nat] /\ jobGen \in [Sets -> Nat]
  /\ nsGen \in [Namespaces -> Nat] /\ pointerGen \in [Namespaces -> Nat]
  /\ pointerState \in [Namespaces -> {"active", "withdrawn"}]
  /\ pointerProof \in [Namespaces -> Jobs \cup {None}]
  /\ recState \in [Sets -> {"none", "withdrawn", "indexed"}]
  /\ purged \subseteq Sets /\ intents \subseteq Namespaces \X Nat
  /\ known \subseteq 0..MaxRev /\ owner \in Jobs \cup {None} /\ suspended \in BOOLEAN

\* A serving revision can be retrieved: the Item is active and in some namespace
\* the active pointer's proof is for exactly this revision, with its whole record
\* set indexed and live (the fences of retrieval_rank), whatever the scanner,
\* rebuilds and other publications did meanwhile.
ServedIsPublished ==
  serving # 0 => /\ lifecycle = "active"
                 /\ \E n \in Namespaces : Active(n) /\ Clonable(n, serving)

\* Retirement stays behind the pointer: no open intent names the pointer's
\* generation or a later one, and no generation that may still be published has
\* lost its records.
RetirementBehindPointer ==
  /\ \A i \in intents : i[2] < pointerGen[i[1]]
  /\ \A s \in purged : jobGen[s] < pointerGen[s[2]]

\* The latest revision is not shut out of publication: when its job is ready to
\* publish and the Item is active, it may, unless the same revision was already
\* published from a later generation of the namespace.
LatestNotShutOut ==
  owner # None /\ stage[owner] = "vectorized" /\ lifecycle = "active" =>
    \/ Publishable(owner)
    \/ LET p == pointerProof[jobNs[owner]] IN p # None /\ jobRev[p] = latest

\* The pointer of a namespace never goes back, and points at other records only
\* by going forward.
PointerAdvances ==
  [][\A n \in Namespaces : /\ pointerGen'[n] >= pointerGen[n]
                           /\ pointerProof'[n] # pointerProof[n] => pointerGen'[n] > pointerGen[n]]_vars

\* Delete is final: no job admitted before it, no gate and no retry brings the
\* Item or one of its pointers back.
DeletedIsFinal ==
  [][lifecycle = "deleted" =>
       UNCHANGED item /\ \A n \in Namespaces : pointerState'[n] = "withdrawn"]_vars

\* D02 says a deactivated Item must first be reactivated: after a deactivate or
\* delete command the Item is not active before a reactivate command.
DeactivationHolds == suspended => lifecycle # "active"
=============================================================================
