--------------------------- MODULE ItemIndexProofs ---------------------------
(***************************************************************************)
(* What is served is published, retirement stays behind the pointers, the  *)
(* pointers only advance and delete is final, for every number of jobs,    *)
(* namespaces, revisions and generations.                                  *)
(*                                                                         *)
(* The argument: a pointer's proof names a finished job whose record set   *)
(* has the pointer's own generation, and a record set loses its records    *)
(* only when its generation is behind the pointer.  Record sets belong to  *)
(* one job and none exists before that job vectorizes or commits, so a     *)
(* generation that is read, planned or given back never names old records. *)
(***************************************************************************)
EXTENDS ItemIndex, TLAPS

\* A job that embeds has a namespace, and an accepted job has begun.
Embeds == \A j \in Jobs :
  /\ stage[j] \in Accepting \cup {"gate", "ready", "embedding", "vectorized"} \/ j \in observed =>
       jobNs[j] \in Namespaces
  /\ j \in observed => stage[j] # "none"

\* A job that has not vectorized or committed has no records.
NoRecordsYet == \A j \in Jobs, n \in Namespaces :
  stage[j] \notin {"vectorized", "done", "failed"} => recState[<<j, n>>] = "none"

\* Only records that exist are purged.
PurgedExist == \A j \in Jobs, n \in Namespaces : <<j, n>> \in purged => recState[<<j, n>>] # "none"

\* A pointer's proof is a finished job with a record set of its generation.
ProofsCurrent == \A n \in Namespaces : pointerProof[n] # None =>
  stage[pointerProof[n]] = "done" /\ jobGen[<<pointerProof[n], n>>] = pointerGen[n]

\* A deleted Item has no active pointer.
DeletedWithdrawn == lifecycle = "deleted" => \A n \in Namespaces : pointerState[n] = "withdrawn"

\* The two halves of RetirementBehindPointer.
IntentsBehind == \A i \in intents : i[2] < pointerGen[i[1]]
PurgedBehind == \A j \in Jobs, n \in Namespaces : <<j, n>> \in purged => jobGen[<<j, n>>] < pointerGen[n]

\* What holds of records, pointers and intents, and the whole invariant.
RecordInv == NoRecordsYet /\ PurgedExist /\ ProofsCurrent /\ IntentsBehind /\ PurgedBehind
Inv == TypeOK /\ Embeds /\ RecordInv /\ ServedIsPublished /\ DeletedWithdrawn

\* What an action leaves alone when it does not touch the index.
LEMMA IndexUntouched ==
  ASSUME Inv, UNCHANGED <<index, jobGen>>, NEW j \in Jobs,
         NEW to \in Stages, stage' = [stage EXCEPT ![j] = to], stage[j] # "done",
         to \in {"vectorized", "done", "failed"} \/ stage[j] \notin {"vectorized", "failed"}
  PROVE  RecordInv'
<1> USE DEF Inv, RecordInv, index, pointers, records
<1>1. NoRecordsYet'
  BY DEF NoRecordsYet, TypeOK
<1>2. PurgedExist'
  BY DEF PurgedExist
<1>3. ProofsCurrent'
  BY DEF ProofsCurrent, TypeOK
<1>4. IntentsBehind' /\ PurgedBehind'
  BY DEF IntentsBehind, PurgedBehind
<1> QED BY <1>1, <1>2, <1>3, <1>4

\* An admission freezes values of the Item.
LEMMA AdmitSafe ==
  ASSUME Inv, NEW j \in Jobs, NEW to \in Stages \ {"vectorized", "done", "failed"},
         NEW rev \in 0..MaxRev, NEW ns \in Namespaces \cup {None}, NEW seen \in Nat,
         Admit(j, to, rev, ns, seen)
  PROVE  /\ stage' \in [Jobs -> Stages] /\ jobRev' \in [Jobs -> 0..MaxRev]
         /\ jobNs' \in [Jobs -> Namespaces \cup {None}] /\ jobEpoch' \in [Jobs -> Nat]
         /\ RecordInv' /\ ServedIsPublished' /\ DeletedWithdrawn'
<1> USE DEF Inv
<1>1. stage[j] = "none" /\ stage' = [stage EXCEPT ![j] = to] /\ UNCHANGED <<item, jobGen, index>>
  BY DEF Admit
<1>2. RecordInv'
  BY <1>1, IndexUntouched
<1>3. /\ stage' \in [Jobs -> Stages] /\ jobRev' \in [Jobs -> 0..MaxRev]
      /\ jobNs' \in [Jobs -> Namespaces \cup {None}] /\ jobEpoch' \in [Jobs -> Nat]
  BY DEF Admit, TypeOK
<1>4. ASSUME serving # 0 PROVE lifecycle = "active" /\ \E n \in Namespaces : (Active(n) /\ Clonable(n, serving))'
  <2>1. PICK n \in Namespaces : Active(n) /\ Clonable(n, serving)
    BY <1>4 DEF ServedIsPublished
  <2>2. pointerProof[n] \in Jobs /\ pointerProof[n] # j
    BY <2>1, <1>1 DEF Clonable, RecordInv, ProofsCurrent, TypeOK
  <2>3. (Active(n) /\ Clonable(n, serving))'
    BY <2>1, <2>2, <1>1 DEF Active, Clonable, Admit, TypeOK, index, pointers, records, item
  <2> QED BY <2>3, <1>4 DEF ServedIsPublished
<1>5. ServedIsPublished'
  BY <1>4, <1>1 DEF ServedIsPublished, item
<1>6. DeletedWithdrawn'
  BY <1>1 DEF DeletedWithdrawn, item, index, pointers
<1> QED BY <1>2, <1>3, <1>5, <1>6

\* An action that leaves index and frozen revisions alone keeps what is served,
\* unless it ends the serving or makes the Item inactive.
LEMMA ServedKept ==
  ASSUME Inv, UNCHANGED <<index, jobRev>>,
         serving' = 0 \/ (serving' = serving /\ lifecycle' \in {lifecycle, "active"})
  PROVE  ServedIsPublished'
BY DEF Inv, ServedIsPublished, Active, Clonable, index, pointers, records

-----------------------------------------------------------------------------
(* Admission. *)

\* Every admission keeps the invariant: it freezes values and a namespace where one
\* is needed.
LEMMA AdmissionSafe ==
  ASSUME Inv, NEW j \in Jobs, IndexAssumption,
         \/ AdmitIngest(j) \/ AdmitMetadata(j) \/ AdmitRebuild(j) \/ AdmitIndexRebuild(j)
         \/ AdmitCommand(j) \/ \E k \in Jobs : AdmitFullRetry(j, k)
  PROVE  Inv'
<1> USE DEF Inv
<1> DEFINE Froze(to, rev, ns, seen) ==
      /\ to \in Stages \ {"none", "vectorized", "done", "failed"} /\ rev \in 0..MaxRev
      /\ ns \in Namespaces \cup {None} /\ seen \in Nat /\ Admit(j, to, rev, ns, seen)
      /\ to \in Accepting \cup {"gate", "ready", "embedding"} \/ j \in observed' => ns \in Namespaces
      /\ observed' \subseteq observed \cup {j}
<1>1. \E to, rev, ns, seen : Froze(to, rev, ns, seen)
  <2> USE DEF TypeOK, Stages, Accepting, Commands, Revisions
  <2>1. CASE AdmitIngest(j)
    <3>1. PICK rev \in Revisions, to \in {"ingest", "reviewed"}, ns \in Namespaces : Admit(j, to, rev, ns, epoch)
      BY <2>1 DEF AdmitIngest
    <3>2. Froze(to, rev, ns, epoch)
      BY <2>1, <3>1, IndexAssumption DEF AdmitIngest
    <3> QED BY <3>2
  <2>2. CASE AdmitMetadata(j)
    <3>1. PICK rev \in Revisions, ns \in Namespaces : Admit(j, "metadata", rev, ns, epoch)
      BY <2>2 DEF AdmitMetadata
    <3>2. Froze("metadata", rev, ns, epoch)
      BY <2>2, <3>1, IndexAssumption DEF AdmitMetadata
    <3> QED BY <3>2
  <2>3. CASE AdmitRebuild(j)
    <3>1. PICK ns \in Namespaces : Admit(j, "rebuild", latest, ns, epoch)
      BY <2>3 DEF AdmitRebuild
    <3>2. Froze("rebuild", latest, ns, epoch)
      BY <2>3, <3>1 DEF AdmitRebuild
    <3> QED BY <3>2
  <2>4. CASE AdmitIndexRebuild(j)
    <3>1. stage[j] = "none"
      BY <2>4 DEF AdmitIndexRebuild, Admit
    <3>2. Froze("index", latest, None, 0)
      BY <2>4, <3>1 DEF AdmitIndexRebuild, Embeds
    <3> QED BY <3>2
  <2>5. CASE AdmitCommand(j)
    <3>1. PICK action \in Commands : Admit(j, action, latest, None, epoch)
      BY <2>5 DEF AdmitCommand
    <3>2. Froze(action, latest, None, epoch)
      BY <2>5, <3>1 DEF AdmitCommand, Admit, Embeds
    <3> QED BY <3>2
  <2>6. CASE \E k \in Jobs : AdmitFullRetry(j, k)
    <3>1. PICK k \in Jobs : AdmitFullRetry(j, k)
      BY <2>6
    <3>2. Froze("ready", jobRev[k], jobNs[k], 0)
      BY <3>1 DEF AdmitFullRetry, Embeds
    <3> QED BY <3>2
  <2> QED BY <2>1, <2>2, <2>3, <2>4, <2>5, <2>6
<1>2. PICK to, rev, ns, seen : Froze(to, rev, ns, seen)
  BY <1>1
<1>3. /\ stage' \in [Jobs -> Stages] /\ jobRev' \in [Jobs -> 0..MaxRev]
      /\ jobNs' \in [Jobs -> Namespaces \cup {None}] /\ jobEpoch' \in [Jobs -> Nat]
      /\ RecordInv' /\ ServedIsPublished' /\ DeletedWithdrawn'
  BY <1>2, AdmitSafe
<1>4. TypeOK'
  BY <1>2, <1>3 DEF TypeOK, Admit, item, index, pointers, records, history
<1>5. Embeds'
  BY <1>2 DEF Embeds, Admit, TypeOK
<1> QED BY <1>3, <1>4, <1>5

-----------------------------------------------------------------------------
(* Failure, acceptance and review: the index is left alone. *)

\* A step of one job that leaves the index and the frozen values alone.
LEMMA JobStepSafe ==
  ASSUME Inv, NEW j \in Jobs, NEW to \in Stages \ {"none"}, stage[j] \notin {"none", "done", "failed"},
         stage' = [stage EXCEPT ![j] = to], to \in {"done", "failed"} \/ stage[j] # "vectorized",
         to \in {"gate", "ready", "embedding", "vectorized"} => jobNs[j] \in Namespaces,
         to \notin Accepting,
         UNCHANGED <<jobRev, jobNs, index, jobGen>>,
         observed' = observed \/ (observed' = observed \cup {j} /\ jobNs[j] \in Namespaces)
  PROVE  stage' \in [Jobs -> Stages] /\ observed' \subseteq Jobs /\ Embeds' /\ RecordInv'
<1>1. RecordInv'
  BY IndexUntouched
<1>2. Embeds'
  BY DEF Inv, Embeds, TypeOK
<1> QED BY <1>1, <1>2 DEF Inv, TypeOK

\* A failing Execution leaves Item and index alone.
LEMMA JobFailsSafe ==
  ASSUME Inv, NEW j \in Jobs, JobFails(j)
  PROVE  Inv'
<1> USE DEF Inv
<1>1. /\ stage[j] \notin {"none", "done", "failed"} /\ stage' = [stage EXCEPT ![j] = "failed"]
      /\ UNCHANGED <<jobRev, jobNs, observed, index, jobGen, item, history>>
      /\ jobEpoch' = [jobEpoch EXCEPT ![j] = 0]
  BY DEF JobFails, frozen
<1>2. Embeds' /\ RecordInv' /\ stage' \in [Jobs -> Stages]
  <2>1. UNCHANGED <<jobRev, jobNs, index, jobGen>> /\ observed' = observed
    BY <1>1
  <2>2. "failed" \in Stages \ {"none"} /\ "failed" \notin Accepting
    BY DEF Stages, Accepting
  <2> QED BY <1>1, <2>1, <2>2, JobStepSafe
<1>3. TypeOK'
  BY <1>1, <1>2 DEF TypeOK, index, pointers, records, item, history
<1>4. ServedIsPublished' /\ DeletedWithdrawn'
  BY <1>1, ServedKept DEF DeletedWithdrawn, item, index, pointers
<1> QED BY <1>2, <1>3, <1>4

\* Acceptance moves the latest revision and never what is served.
LEMMA AcceptanceSafe ==
  ASSUME Inv, NEW j \in Jobs, AcceptSnapshot(j) \/ AcceptMetadata(j) \/ AcceptRebuild(j)
  PROVE  Inv'
<1> USE DEF Inv
<1>1. PICK to \in {"gate", "ready", "failed"} :
        /\ stage[j] \in Accepting /\ stage' = [stage EXCEPT ![j] = to]
        /\ jobEpoch' = [jobEpoch EXCEPT ![j] = 0]
        /\ UNCHANGED <<jobRev, jobNs, jobGen, index>>
        /\ observed' = observed \/ observed' = observed \cup {j}
  BY DEF AcceptSnapshot, AcceptMetadata, AcceptRebuild, Accepted, AfterAccept, Accepting
<1>2. /\ lifecycle' \in {"absent", "active", "deactivated", "deleted"}
      /\ lifecycle = "deleted" <=> lifecycle' = "deleted"
      /\ lifecycle # "absent" => lifecycle' = lifecycle
      /\ serving' = serving /\ latest' \in 0..MaxRev /\ epoch' \in Nat
      /\ owner' \in Jobs \cup {None} /\ suspended' \in BOOLEAN
      /\ known' \subseteq 0..MaxRev
  <2>1. CASE UNCHANGED <<item, history>>
    BY <2>1 DEF TypeOK, item, history
  <2>2. CASE BecomesLatest(j) /\ (AcceptSnapshot(j) \/ AcceptMetadata(j))
    <3>1. /\ latest' = jobRev[j] /\ epoch' = epoch + 1 /\ known' = known \cup {jobRev[j]} /\ owner' = j
          /\ UNCHANGED <<serving, suspended>>
      BY <2>2 DEF BecomesLatest
    <3>2. /\ lifecycle' \in {"absent", "active", "deactivated", "deleted"}
          /\ lifecycle = "deleted" <=> lifecycle' = "deleted"
          /\ lifecycle # "absent" => lifecycle' = lifecycle
      BY <2>2 DEF AcceptSnapshot, AcceptMetadata, item, TypeOK
    <3>3. latest' \in 0..MaxRev /\ epoch' \in Nat /\ known' \subseteq 0..MaxRev
      <4>1. jobRev[j] \in 0..MaxRev /\ epoch \in Nat /\ known \subseteq 0..MaxRev
        BY DEF TypeOK
      <4>2. epoch' \in Nat
        BY <3>1, <4>1
      <4> QED BY <3>1, <4>1, <4>2, Zenon
    <3>4. owner' \in Jobs \cup {None} /\ suspended' \in BOOLEAN
      BY <3>1 DEF TypeOK
    <3> QED BY <3>1, <3>2, <3>3, <3>4
  <2>3. AcceptRebuild(j) => UNCHANGED <<item, history>>
    BY DEF AcceptRebuild
  <2>4. AcceptMetadata(j) => BecomesLatest(j)
    BY DEF AcceptMetadata
  <2>5. AcceptSnapshot(j) => BecomesLatest(j) \/ UNCHANGED <<item, history>>
    BY DEF AcceptSnapshot
  <2> QED BY <2>1, <2>2, <2>3, <2>4, <2>5
<1>3. jobNs[j] \in Namespaces
  BY <1>1 DEF Embeds
<1>4. Embeds' /\ RecordInv' /\ stage' \in [Jobs -> Stages] /\ observed' \subseteq Jobs
  BY <1>1, <1>3, JobStepSafe DEF Stages, Accepting
<1>5. TypeOK'
  BY <1>1, <1>2, <1>4 DEF TypeOK, index, pointers, records
<1>6. ServedIsPublished'
  <2>1. CASE serving = 0
    <3>1. serving' = 0 /\ UNCHANGED <<index, jobRev>>
      BY <2>1, <1>1, <1>2
    <3> QED BY <3>1, ServedKept
  <2>2. CASE serving # 0
    BY <2>2, <1>1, <1>2, ServedKept DEF ServedIsPublished
  <2> QED BY <2>1, <2>2
<1>7. DeletedWithdrawn'
  BY <1>1, <1>2 DEF DeletedWithdrawn, index, pointers
<1> QED BY <1>4, <1>5, <1>6, <1>7

\* A review decision changes the Item's state and, on reject, ends the serving.
LEMMA GateSafe ==
  ASSUME Inv, NEW j \in Jobs, GateApproves(j) \/ GateRejects(j)
  PROVE  Inv'
<1> USE DEF Inv
<1>1. PICK to \in {"ready", "failed"} :
        /\ stage[j] = "gate" /\ stage' = [stage EXCEPT ![j] = to]
        /\ UNCHANGED <<jobRev, jobNs, observed, jobEpoch, jobGen, index, history, latest>>
  BY DEF GateApproves, GateRejects, frozen
<1>2. /\ lifecycle' \in {"absent", "active", "deactivated", "deleted"}
      /\ lifecycle = "deleted" <=> lifecycle' = "deleted"
      /\ serving' = 0 \/ (serving' = serving /\ lifecycle' \in {lifecycle, "active"})
      /\ serving' \in 0..MaxRev /\ epoch' \in Nat
  BY IndexAssumption DEF GateApproves, GateRejects, TypeOK
<1>3. Embeds' /\ RecordInv' /\ stage' \in [Jobs -> Stages]
  BY <1>1, JobStepSafe DEF Stages, Accepting, Embeds
<1>4. TypeOK'
  BY <1>1, <1>2, <1>3 DEF TypeOK, index, pointers, records, history
<1>5. ServedIsPublished'
  BY <1>1, <1>2, ServedKept
<1>6. DeletedWithdrawn'
  BY <1>1, <1>2 DEF DeletedWithdrawn, index, pointers
<1> QED BY <1>3, <1>4, <1>5, <1>6

-----------------------------------------------------------------------------
(* Generations are read, given back and planned before records exist. *)

\* A job without records may take or give back generations.
LEMMA RegenerationSafe ==
  ASSUME Inv, NEW j \in Jobs, NEW to \in Stages \ {"none"}, stage[j] \in Stages \ {"none", "vectorized", "done", "failed"},
         stage' = [stage EXCEPT ![j] = to], to \notin Accepting,
         to \in {"gate", "ready", "embedding", "vectorized"} => jobNs[j] \in Namespaces,
         jobGen' \in [Sets -> Nat],
         \A k \in Jobs, n \in Namespaces : k # j => jobGen'[<<k, n>>] = jobGen[<<k, n>>],
         UNCHANGED <<index, jobRev, jobNs, observed, item, history>>, jobEpoch' \in [Jobs -> Nat]
  PROVE  Inv'
<1> USE DEF Inv, RecordInv, index, pointers, records
<1>1. TypeOK'
  BY DEF TypeOK, item, history
<1>2. Embeds'
  BY DEF Embeds, TypeOK
<1>3. NoRecordsYet' /\ PurgedExist'
  BY DEF NoRecordsYet, PurgedExist, TypeOK
<1>4. ProofsCurrent'
  BY DEF ProofsCurrent, TypeOK
<1>5. IntentsBehind' /\ PurgedBehind'
  BY DEF IntentsBehind, PurgedBehind, NoRecordsYet, PurgedExist, TypeOK
<1>6. ServedIsPublished' /\ DeletedWithdrawn'
  BY ServedKept DEF DeletedWithdrawn, item
<1> QED BY <1>1, <1>2, <1>3, <1>4, <1>5, <1>6

\* Reading the namespace's generation keeps the invariant.
LEMMA ReadGenerationSafe ==
  ASSUME Inv, NEW j \in Jobs, ReadGeneration(j)
  PROVE  Inv'
<1>1. jobNs[j] \in Namespaces
  BY DEF ReadGeneration, Inv, Embeds
<1>2. /\ jobGen' \in [Sets -> Nat] /\ jobEpoch' \in [Jobs -> Nat]
      /\ \A k \in Jobs, n \in Namespaces : k # j => jobGen'[<<k, n>>] = jobGen[<<k, n>>]
  BY <1>1 DEF ReadGeneration, Inv, TypeOK, Sets
<1> QED BY <1>1, <1>2, RegenerationSafe DEF ReadGeneration, Stages, Accepting, frozen

\* Giving a lost generation back keeps the invariant.
LEMMA VectorizeRetriedSafe ==
  ASSUME Inv, NEW j \in Jobs, VectorizeRetried(j)
  PROVE  Inv'
<1>1. jobNs[j] \in Namespaces
  BY DEF VectorizeRetried, Inv, Embeds
<1>2. /\ jobGen' \in [Sets -> Nat] /\ jobEpoch' \in [Jobs -> Nat]
      /\ \A k \in Jobs, n \in Namespaces : k # j => jobGen'[<<k, n>>] = jobGen[<<k, n>>]
  BY <1>1 DEF VectorizeRetried, Inv, TypeOK, Sets
<1> QED BY <1>1, <1>2, RegenerationSafe DEF VectorizeRetried, Stages, Accepting, frozen

\* A plan names generations and writes no record.
LEMMA PlanRebuildSafe ==
  ASSUME Inv, NEW j \in Jobs, PlanRebuild(j)
  PROVE  Inv'
<1>1. /\ jobGen' \in [Sets -> Nat] /\ jobEpoch' \in [Jobs -> Nat]
      /\ \A k \in Jobs, n \in Namespaces : k # j => jobGen'[<<k, n>>] = jobGen[<<k, n>>]
  BY DEF PlanRebuild, Inv, TypeOK, Sets
<1>2. PICK to \in {"done", "planned"} : stage' = [stage EXCEPT ![j] = to]
  BY DEF PlanRebuild
<1> QED BY <1>1, <1>2, RegenerationSafe DEF PlanRebuild, Stages, Accepting, frozen

-----------------------------------------------------------------------------
(* Records, pointers and retirement. *)

\* New records are withdrawn and belong to no pointer.
LEMMA VectorizeSafe ==
  ASSUME Inv, NEW j \in Jobs, Vectorize(j)
  PROVE  Inv'
<1> USE DEF Inv, RecordInv
<1> DEFINE own == <<j, jobNs[j]>>
<1>1. jobNs[j] \in Namespaces /\ own \in Sets
  BY DEF Vectorize, Embeds, Sets
<1>2. /\ stage[j] = "embedding" /\ stage' = [stage EXCEPT ![j] = "vectorized"]
      /\ nsGen' = [nsGen EXCEPT ![jobNs[j]] = jobGen[own]]
      /\ recState' = [recState EXCEPT ![own] = "withdrawn"]
      /\ UNCHANGED <<item, jobRev, jobNs, observed, jobEpoch, jobGen, pointers, purged, intents, history>>
  BY DEF Vectorize, frozen
<1>3. TypeOK'
  BY <1>1, <1>2 DEF TypeOK, item, history, pointers, Stages
<1>4. Embeds'
  BY <1>1, <1>2 DEF Embeds, TypeOK
<1>5. \A k \in Jobs, n \in Namespaces : k # j => recState'[<<k, n>>] = recState[<<k, n>>]
  BY <1>1, <1>2 DEF TypeOK, Sets
<1>6. NoRecordsYet'
  BY <1>2, <1>5 DEF NoRecordsYet, TypeOK
<1>7. PurgedExist'
  BY <1>1, <1>2 DEF PurgedExist, TypeOK, Sets
<1>8. ProofsCurrent'
  BY <1>2 DEF ProofsCurrent, TypeOK, pointers
<1>9. IntentsBehind' /\ PurgedBehind'
  BY <1>2 DEF IntentsBehind, PurgedBehind, pointers
<1>10. ServedIsPublished'
  <2> SUFFICES ASSUME serving # 0 PROVE lifecycle = "active" /\ \E n \in Namespaces : (Active(n) /\ Clonable(n, serving))'
    BY <1>2 DEF ServedIsPublished, item
  <2>1. PICK n \in Namespaces : Active(n) /\ Clonable(n, serving)
    BY DEF ServedIsPublished
  <2>2. pointerProof[n] \in Jobs /\ pointerProof[n] # j
    BY <2>1, <1>2 DEF Clonable, ProofsCurrent, TypeOK
  <2>3. (Active(n) /\ Clonable(n, serving))'
    BY <2>1, <2>2, <1>2, <1>5 DEF Active, Clonable, pointers, item
  <2> QED BY <2>3 DEF ServedIsPublished
<1>11. DeletedWithdrawn'
  BY <1>2 DEF DeletedWithdrawn, item, pointers
<1> QED BY <1>3, <1>4, <1>6, <1>7, <1>8, <1>9, <1>10, <1>11

\* A reservation by another Item moves the namespace only.
LEMMA OtherItemReservesSafe ==
  ASSUME Inv, NEW n \in Namespaces, OtherItemReserves(n)
  PROVE  Inv'
<1> USE DEF Inv, RecordInv, item, frozen, pointers, records, history, OtherItemReserves
<1>1. TypeOK' /\ Embeds'
  BY DEF TypeOK, Embeds
<1>2. NoRecordsYet' /\ PurgedExist' /\ ProofsCurrent' /\ IntentsBehind' /\ PurgedBehind'
  BY DEF NoRecordsYet, PurgedExist, ProofsCurrent, IntentsBehind, PurgedBehind
<1>3. ServedIsPublished' /\ DeletedWithdrawn'
  BY DEF ServedIsPublished, DeletedWithdrawn, Active, Clonable
<1> QED BY <1>1, <1>2, <1>3

\* Publication moves the pointer past everything purged or intended.
LEMMA PublishSafe ==
  ASSUME Inv, NEW j \in Jobs, Publish(j)
  PROVE  Inv'
<1> USE DEF Inv, RecordInv
<1> DEFINE n == jobNs[j]
<1> DEFINE own == <<j, n>>
<1>1. n \in Namespaces /\ own \in Sets
  BY DEF Publish, Embeds, Sets
<1>2. /\ stage[j] = "vectorized" /\ stage' = [stage EXCEPT ![j] = "done"]
      /\ pointerGen[n] < jobGen[own] /\ lifecycle = "active" /\ lifecycle' = lifecycle
      /\ recState' = [recState EXCEPT ![own] = "indexed"]
      /\ pointerGen' = [pointerGen EXCEPT ![n] = jobGen[own]]
      /\ pointerState' = [pointerState EXCEPT ![n] = "active"]
      /\ pointerProof' = [pointerProof EXCEPT ![n] = j]
      /\ serving' = jobRev[j] /\ epoch' = epoch + 1
      /\ intents' = IF pointerGen[n] = 0 THEN intents ELSE intents \cup {<<n, pointerGen[n]>>}
      /\ UNCHANGED <<latest, jobRev, jobNs, observed, jobEpoch, jobGen, nsGen, purged, history>>
  BY DEF Publish, Publishable, frozen
<1>3. TypeOK'
  BY <1>1, <1>2 DEF TypeOK, history, Stages
<1>4. Embeds'
  BY <1>1, <1>2 DEF Embeds, TypeOK, Accepting
<1>5. \A k \in Jobs, m \in Namespaces : k # j => recState'[<<k, m>>] = recState[<<k, m>>]
  BY <1>1, <1>2 DEF TypeOK, Sets
<1>6. NoRecordsYet'
  BY <1>2, <1>5 DEF NoRecordsYet, TypeOK
<1>7. PurgedExist'
  BY <1>1, <1>2 DEF PurgedExist, TypeOK, Sets
<1>8. ProofsCurrent'
  BY <1>1, <1>2 DEF ProofsCurrent, TypeOK
<1>9. \A m \in Namespaces : pointerGen'[m] \in Nat /\ pointerGen[m] \in Nat /\ pointerGen'[m] >= pointerGen[m]
  BY <1>1, <1>2 DEF TypeOK
<1>10. IntentsBehind'
  <2> SUFFICES ASSUME NEW i \in intents' PROVE i[2] < pointerGen'[i[1]]
    BY DEF IntentsBehind
  <2>1. CASE i \in intents
    <3>1. i[1] \in Namespaces /\ i[2] \in Nat
      BY <2>1 DEF TypeOK
    <3> QED BY <2>1, <3>1, <1>9 DEF IntentsBehind
  <2>2. CASE i = <<n, pointerGen[n]>>
    BY <2>2, <1>1, <1>2 DEF TypeOK
  <2> QED BY <2>1, <2>2, <1>2
<1>11. PurgedBehind'
  BY <1>2, <1>9 DEF PurgedBehind, TypeOK, Sets
<1>12. ServedIsPublished'
  <2>1. own \notin purged
    BY <1>1, <1>2 DEF PurgedBehind, TypeOK, Sets
  <2>2. (Active(n) /\ Clonable(n, serving))'
    BY <2>1, <1>1, <1>2, IndexAssumption DEF Active, Clonable, TypeOK, Sets
  <2> QED BY <2>2, <1>1, <1>2 DEF ServedIsPublished
<1>13. DeletedWithdrawn'
  BY <1>2 DEF DeletedWithdrawn
<1> QED BY <1>3, <1>4, <1>6, <1>7, <1>8, <1>10, <1>11, <1>12, <1>13

\* A command withdraws everything, or changes nothing.
LEMMA ApplyCommandSafe ==
  ASSUME Inv, NEW j \in Jobs, ApplyCommand(j)
  PROVE  Inv'
<1> USE DEF Inv, RecordInv
<1>1. /\ stage[j] \in Commands /\ stage' = [stage EXCEPT ![j] = "done"]
      /\ jobEpoch' = [jobEpoch EXCEPT ![j] = 0]
      /\ UNCHANGED <<latest, jobRev, jobNs, observed, jobGen, nsGen, pointerGen, pointerProof, purged, intents, known, owner>>
  BY DEF ApplyCommand, frozen
<1>2. /\ Target(stage[j]) \in {"active", "deactivated", "deleted"}
      /\ lifecycle' = Target(stage[j])
  BY <1>1 DEF ApplyCommand, Target
<1>3. \/ Withdraw
      \/ UNCHANGED <<lifecycle, serving, pointerState, recState>>
  BY DEF ApplyCommand
<1>4. epoch' \in Nat
  BY DEF ApplyCommand, TypeOK
<1>12. suspended' \in BOOLEAN
  BY Zenon DEF ApplyCommand, TypeOK
<1>5. \A s \in Sets : recState'[s] \in {"none", "withdrawn", "indexed"} /\ (recState'[s] = "none" <=> recState[s] = "none")
  BY <1>3 DEF Withdraw, TypeOK
<1>6. TypeOK'
  <2>1. serving' \in 0..MaxRev /\ pointerState' \in [Namespaces -> {"active", "withdrawn"}]
    BY <1>3, IndexAssumption DEF Withdraw, TypeOK
  <2>2. recState' \in [Sets -> {"none", "withdrawn", "indexed"}]
    BY <1>3, <1>5 DEF Withdraw, TypeOK
  <2> QED BY <1>1, <1>2, <1>4, <1>12, <2>1, <2>2 DEF TypeOK, Stages
<1>7. Embeds'
  BY <1>1 DEF Embeds, TypeOK, Accepting
<1>8. NoRecordsYet' /\ PurgedExist'
  BY <1>1, <1>5 DEF NoRecordsYet, PurgedExist, TypeOK, Sets
<1>9. ProofsCurrent' /\ IntentsBehind' /\ PurgedBehind'
  BY <1>1 DEF ProofsCurrent, IntentsBehind, PurgedBehind, TypeOK, Commands
<1>10. ServedIsPublished'
  BY <1>1, <1>3 DEF ServedIsPublished, Withdraw, Active, Clonable
<1>11. DeletedWithdrawn'
  BY <1>3 DEF DeletedWithdrawn, Withdraw
<1> QED BY <1>6, <1>7, <1>8, <1>9, <1>10, <1>11

\* A committed rebuild moves each planned pointer by one generation.
LEMMA CommitRebuildSafe ==
  ASSUME Inv, NEW j \in Jobs, CommitRebuild(j)
  PROVE  Inv'
<1> USE DEF Inv, RecordInv
<1>1. /\ stage[j] = "planned" /\ stage' = [stage EXCEPT ![j] = "done"]
      /\ jobEpoch' = [jobEpoch EXCEPT ![j] = 0] /\ lifecycle = "active" /\ serving = jobRev[j]
      /\ UNCHANGED <<item, jobRev, jobNs, observed, jobGen, pointerState, purged, history>>
  BY DEF CommitRebuild, Revalidated, frozen
<1>2. \A n \in Namespaces : Planned(j, n) => Active(n) /\ jobGen[<<j, n>>] = pointerGen[n] + 1
  BY DEF CommitRebuild, Revalidated, TypeOK, Sets
<1>3. /\ recState' \in [Sets -> {"none", "withdrawn", "indexed"}]
      /\ \A n \in Namespaces : Planned(j, n) => recState'[<<j, n>>] = "indexed"
      /\ \A n \in Namespaces : ~Planned(j, n) => recState'[<<j, n>>] = recState[<<j, n>>]
      /\ \A k \in Jobs, n \in Namespaces : k # j => recState'[<<k, n>>] = recState[<<k, n>>]
  BY DEF CommitRebuild, TypeOK, Sets
<1>4. \A n \in Namespaces :
        /\ Planned(j, n) => pointerGen'[n] = jobGen[<<j, n>>] /\ pointerProof'[n] = j
        /\ ~Planned(j, n) => pointerGen'[n] = pointerGen[n] /\ pointerProof'[n] = pointerProof[n]
  BY DEF CommitRebuild
<1>5. \A n \in Namespaces : pointerGen[n] \in Nat /\ pointerGen'[n] \in Nat /\ pointerGen'[n] >= pointerGen[n]
  <2> SUFFICES ASSUME NEW n \in Namespaces
               PROVE  pointerGen[n] \in Nat /\ pointerGen'[n] \in Nat /\ pointerGen'[n] >= pointerGen[n]
    OBVIOUS
  <2>1. pointerGen[n] \in Nat
    BY DEF TypeOK
  <2>2. CASE Planned(j, n)
    BY <2>1, <2>2, <1>2, <1>4 DEF Planned, Active
  <2>3. CASE ~Planned(j, n)
    BY <2>1, <2>3, <1>4 DEF Planned
  <2> QED BY <2>2, <2>3
<1>6. \A i \in intents' : i \in intents \/ \E n \in Namespaces : Planned(j, n) /\ i = <<n, pointerGen[n]>>
  BY DEF CommitRebuild
<1>7. TypeOK'
  <2>1. /\ pointerGen' \in [Namespaces -> Nat] /\ nsGen' \in [Namespaces -> Nat]
        /\ pointerProof' \in [Namespaces -> Jobs \cup {None}]
    BY DEF CommitRebuild, TypeOK, Sets
  <2>2. intents' \subseteq Namespaces \X Nat
    BY <1>5, <1>6 DEF TypeOK
  <2> QED BY <1>1, <1>3, <2>1, <2>2 DEF TypeOK, item, history, Stages
<1>8. Embeds'
  BY <1>1 DEF Embeds, TypeOK, Accepting
<1>9. NoRecordsYet' /\ PurgedExist'
  BY <1>1, <1>3 DEF NoRecordsYet, PurgedExist, TypeOK
<1>10. ProofsCurrent'
  <2> SUFFICES ASSUME NEW n \in Namespaces, pointerProof'[n] # None
               PROVE  stage'[pointerProof'[n]] = "done" /\ jobGen'[<<pointerProof'[n], n>>] = pointerGen'[n]
    BY DEF ProofsCurrent
  <2>1. CASE Planned(j, n)
    BY <2>1, <1>1, <1>4 DEF TypeOK
  <2>2. CASE ~Planned(j, n)
    BY <2>2, <1>1, <1>4 DEF ProofsCurrent, TypeOK, Planned
  <2> QED BY <2>1, <2>2
<1>11. IntentsBehind'
  <2> SUFFICES ASSUME NEW i \in intents' PROVE i[2] < pointerGen'[i[1]]
    BY DEF IntentsBehind
  <2>1. CASE i \in intents
    <3>1. i[1] \in Namespaces /\ i[2] \in Nat
      BY <2>1 DEF TypeOK
    <3> QED BY <2>1, <3>1, <1>5 DEF IntentsBehind
  <2>2. ASSUME NEW n \in Namespaces, Planned(j, n), i = <<n, pointerGen[n]>> PROVE i[2] < pointerGen'[i[1]]
    BY <2>2, <1>2, <1>4, <1>5 DEF Planned, Active
  <2> QED BY <2>1, <2>2, <1>6
<1>12. PurgedBehind'
  BY <1>1, <1>5 DEF PurgedBehind, TypeOK, Sets
<1>13. ServedIsPublished'
  <2> SUFFICES ASSUME serving # 0 PROVE \E n \in Namespaces : (Active(n) /\ Clonable(n, serving))'
    BY <1>1 DEF ServedIsPublished, item
  <2>1. PICK n \in Namespaces : Active(n) /\ Clonable(n, serving)
    BY DEF ServedIsPublished
  <2>2. CASE Planned(j, n)
    <3>1. <<j, n>> \notin purged
      BY <1>1 DEF PurgedExist, NoRecordsYet
    <3> QED BY <2>1, <2>2, <3>1, <1>1, <1>3, <1>4, IndexAssumption DEF Active, Clonable, item
  <2>3. CASE ~Planned(j, n)
    <3>1. pointerProof[n] \in Jobs /\ pointerProof[n] # j
      BY <2>1, <1>1 DEF Clonable, ProofsCurrent, TypeOK
    <3> QED BY <2>1, <2>3, <3>1, <1>1, <1>3, <1>4 DEF Active, Clonable, item
  <2> QED BY <2>2, <2>3
<1>14. DeletedWithdrawn'
  BY <1>1 DEF DeletedWithdrawn, item
<1> QED BY <1>7, <1>8, <1>9, <1>10, <1>11, <1>12, <1>13, <1>14

\* A discovered generation is behind its pointer.
LEMMA DiscoverSafe ==
  ASSUME Inv, NEW n \in Namespaces, NEW g \in Nat, Discover(n, g)
  PROVE  Inv'
<1> USE DEF Inv, RecordInv, item, frozen, pointers, records, history, Discover
<1>1. TypeOK' /\ Embeds'
  BY DEF TypeOK, Embeds
<1>2. NoRecordsYet' /\ PurgedExist' /\ ProofsCurrent' /\ PurgedBehind'
  BY DEF NoRecordsYet, PurgedExist, ProofsCurrent, PurgedBehind
<1>3. IntentsBehind'
  BY DEF IntentsBehind, OldGeneration
<1>4. ServedIsPublished' /\ DeletedWithdrawn'
  BY DEF ServedIsPublished, DeletedWithdrawn, Active, Clonable
<1> QED BY <1>1, <1>2, <1>3, <1>4

\* A purge deletes no record of a pointer's generation.
LEMMA SoftPurgeSafe ==
  ASSUME Inv, NEW n \in Namespaces, NEW g \in Nat, SoftPurge(n, g)
  PROVE  Inv'
<1> USE DEF Inv, RecordInv, item, frozen, pointers, history
<1>1. /\ g < pointerGen[n] /\ intents' \subseteq intents
      /\ purged \subseteq purged' /\ purged' \subseteq Sets
      /\ UNCHANGED <<item, stage, frozen, jobEpoch, jobGen, nsGen, pointers, recState, history>>
  BY DEF SoftPurge, IntentsBehind, TypeOK
<1>2. \A k \in Jobs, m \in Namespaces : <<k, m>> \in purged' =>
        <<k, m>> \in purged \/ (m = n /\ recState[<<k, m>>] # "none" /\ jobGen[<<k, m>>] = g)
  BY DEF SoftPurge, Sets
<1>3. TypeOK' /\ Embeds'
  BY <1>1 DEF TypeOK, Embeds
<1>4. NoRecordsYet' /\ PurgedExist' /\ ProofsCurrent' /\ IntentsBehind' /\ PurgedBehind'
  BY <1>1, <1>2 DEF NoRecordsYet, PurgedExist, ProofsCurrent, IntentsBehind, PurgedBehind
<1>5. ServedIsPublished'
  <2> SUFFICES ASSUME serving # 0 PROVE lifecycle = "active" /\ \E m \in Namespaces : (Active(m) /\ Clonable(m, serving))'
    BY <1>1 DEF ServedIsPublished
  <2>1. PICK m \in Namespaces : Active(m) /\ Clonable(m, serving)
    BY DEF ServedIsPublished
  <2>2. pointerProof[m] \in Jobs /\ jobGen[<<pointerProof[m], m>>] = pointerGen[m] /\ pointerGen[m] \in Nat
    BY <2>1 DEF Clonable, ProofsCurrent, TypeOK
  <2>3. <<pointerProof[m], m>> \notin purged'
    BY <2>1, <2>2, <1>1, <1>2 DEF Clonable
  <2> QED BY <2>1, <2>3, <1>1 DEF Active, Clonable, ServedIsPublished
<1>6. DeletedWithdrawn'
  BY <1>1 DEF DeletedWithdrawn
<1> QED BY <1>3, <1>4, <1>5, <1>6

-----------------------------------------------------------------------------
(* The inductive invariant and what follows from it. *)

\* The invariant holds before the Item exists.
LEMMA InitInv == Init => Inv
<1> SUFFICES ASSUME Init PROVE Inv
  OBVIOUS
<1>1. TypeOK
  <2>1. latest \in 0..MaxRev /\ serving \in 0..MaxRev /\ jobRev \in [Jobs -> 0..MaxRev]
    BY IndexAssumption DEF Init
  <2>2. stage \in [Jobs -> Stages] /\ lifecycle \in {"absent", "active", "deactivated", "deleted"}
    BY DEF Init, Stages
  <2>3. /\ jobNs \in [Jobs -> Namespaces \cup {None}] /\ pointerProof \in [Namespaces -> Jobs \cup {None}]
        /\ known \subseteq 0..MaxRev /\ owner \in Jobs \cup {None} /\ suspended \in BOOLEAN
    BY DEF Init
  <2>4. /\ pointerState \in [Namespaces -> {"active", "withdrawn"}]
        /\ recState \in [Sets -> {"none", "withdrawn", "indexed"}]
        /\ observed \subseteq Jobs /\ purged \subseteq Sets /\ intents \subseteq Namespaces \X Nat
    BY DEF Init
  <2>5. /\ epoch \in Nat /\ jobEpoch \in [Jobs -> Nat] /\ jobGen \in [Sets -> Nat]
        /\ nsGen \in [Namespaces -> Nat] /\ pointerGen \in [Namespaces -> Nat]
    BY DEF Init
  <2> QED BY <2>1, <2>2, <2>3, <2>4, <2>5 DEF TypeOK
<1>2. Embeds
  BY DEF Init, Embeds, Accepting
<1>3. RecordInv
  <2>1. NoRecordsYet
    BY DEF Init, NoRecordsYet, Sets
  <2>2. PurgedExist /\ IntentsBehind /\ PurgedBehind
    BY DEF Init, PurgedExist, IntentsBehind, PurgedBehind
  <2>3. ProofsCurrent
    BY DEF Init, ProofsCurrent
  <2> QED BY <2>1, <2>2, <2>3 DEF RecordInv
<1>4. ServedIsPublished /\ DeletedWithdrawn
  BY DEF Init, ServedIsPublished, DeletedWithdrawn
<1> QED BY <1>1, <1>2, <1>3, <1>4 DEF Inv

\* Stuttering keeps the invariant.
LEMMA StutterInv == Inv /\ UNCHANGED vars => Inv'
<1> SUFFICES ASSUME Inv, UNCHANGED vars PROVE Inv'
  OBVIOUS
<1> USE DEF Inv, vars, item, frozen, index, pointers, records, history
<1>1. TypeOK' /\ Embeds'
  BY DEF TypeOK, Embeds
<1>2. RecordInv'
  BY DEF RecordInv, NoRecordsYet, PurgedExist, ProofsCurrent, IntentsBehind, PurgedBehind
<1>3. ServedIsPublished' /\ DeletedWithdrawn'
  BY DEF ServedIsPublished, DeletedWithdrawn, Active, Clonable
<1> QED BY <1>1, <1>2, <1>3

\* Every action keeps the invariant.
LEMMA NextInv == Inv /\ [Next]_vars => Inv'
<1> SUFFICES ASSUME Inv, [Next]_vars PROVE Inv'
  OBVIOUS
<1>1. CASE UNCHANGED vars
  BY <1>1, StutterInv
<1>2. ASSUME NEW j \in Jobs,
             \/ AdmitIngest(j) \/ AdmitMetadata(j) \/ AdmitRebuild(j) \/ AdmitIndexRebuild(j)
             \/ AdmitCommand(j) \/ \E k \in Jobs : AdmitFullRetry(j, k)
      PROVE  Inv'
  BY <1>2, AdmissionSafe, IndexAssumption
<1>3. ASSUME NEW j \in Jobs, JobFails(j) \/ VectorizeFenced(j) PROVE Inv'
  BY <1>3, JobFailsSafe DEF JobFails, VectorizeFenced
<1>4. ASSUME NEW j \in Jobs, AcceptSnapshot(j) \/ AcceptMetadata(j) \/ AcceptRebuild(j) PROVE Inv'
  BY <1>4, AcceptanceSafe
<1>5. ASSUME NEW j \in Jobs, GateApproves(j) \/ GateRejects(j) PROVE Inv'
  BY <1>5, GateSafe
<1>6. ASSUME NEW j \in Jobs, ReadGeneration(j) \/ VectorizeRetried(j) \/ PlanRebuild(j) PROVE Inv'
  BY <1>6, ReadGenerationSafe, VectorizeRetriedSafe, PlanRebuildSafe
<1>7. ASSUME NEW j \in Jobs, Vectorize(j) \/ Publish(j) PROVE Inv'
  BY <1>7, VectorizeSafe, PublishSafe
<1>8. ASSUME NEW j \in Jobs, ApplyCommand(j) \/ CommitRebuild(j) PROVE Inv'
  BY <1>8, ApplyCommandSafe, CommitRebuildSafe
<1>9. ASSUME NEW n \in Namespaces,
             OtherItemReserves(n) \/ \E g \in 1..nsGen[n] : Discover(n, g) \/ SoftPurge(n, g)
      PROVE  Inv'
  <2>1. nsGen[n] \in Nat
    BY DEF Inv, TypeOK
  <2>2. \A g \in 1..nsGen[n] : g \in Nat
    BY <2>1
  <2> QED BY <1>9, <2>2, OtherItemReservesSafe, DiscoverSafe, SoftPurgeSafe
<1> QED BY <1>1, <1>2, <1>3, <1>4, <1>5, <1>6, <1>7, <1>8, <1>9 DEF Next

\* The inductive invariant holds in every reachable state.
LEMMA Invariance == Spec => []Inv
BY InitInv, NextInv, PTL DEF Spec

\* Every table of Item and index stays within its type, whatever jobs, reviewers,
\* operators and the retirement scanner do.
THEOREM IndexTypeCorrect == Spec => []TypeOK
<1>1. Inv => TypeOK
  BY DEF Inv
<1> QED BY <1>1, Invariance, PTL

\* The revision that the Item serves is published: an active pointer, a proof for
\* this very revision, live indexed records.
THEOREM ServedPublished == Spec => []ServedIsPublished
<1>1. Inv => ServedIsPublished
  BY DEF Inv
<1> QED BY <1>1, Invariance, PTL

\* discover_retirements and soft_purge never reach the pointer's generation or one
\* that may still be published.
THEOREM RetirementBehind == Spec => []RetirementBehindPointer
<1>1. Inv => RetirementBehindPointer
  <2> SUFFICES ASSUME Inv PROVE RetirementBehindPointer
    OBVIOUS
  <2>1. \A s \in purged : jobGen[s] < pointerGen[s[2]]
    <3> SUFFICES ASSUME NEW s \in purged PROVE jobGen[s] < pointerGen[s[2]]
      OBVIOUS
    <3>1. PICK j \in Jobs, n \in Namespaces : s = <<j, n>>
      BY DEF Inv, TypeOK, Sets
    <3> QED BY <3>1 DEF Inv, RecordInv, PurgedBehind
  <2> QED BY <2>1 DEF Inv, RecordInv, IntentsBehind, RetirementBehindPointer
<1> QED BY <1>1, Invariance, PTL

\* The index pointer of the Item goes only forward, whichever of Publish and
\* CommitRebuild moves it.
THEOREM PointersAdvance == Spec => PointerAdvances
<1> DEFINE Forward(n) == /\ pointerGen'[n] >= pointerGen[n]
                         /\ pointerProof'[n] # pointerProof[n] => pointerGen'[n] > pointerGen[n]
<1>1. ASSUME Inv, [Next]_vars PROVE \A n \in Namespaces : Forward(n)
  <2>1. CASE UNCHANGED pointers
    BY <1>1, <2>1 DEF Inv, TypeOK, pointers
  <2>2. ASSUME NEW j \in Jobs, Publish(j) PROVE \A n \in Namespaces : Forward(n)
    <3>1. jobNs[j] \in Namespaces /\ <<j, jobNs[j]>> \in Sets
      BY <1>1, <2>2 DEF Publish, Inv, Embeds, Sets
    <3> QED BY <1>1, <2>2, <3>1 DEF Publish, Publishable, Inv, TypeOK
  <2>3. ASSUME NEW j \in Jobs, CommitRebuild(j) PROVE \A n \in Namespaces : Forward(n)
    <3> SUFFICES ASSUME NEW n \in Namespaces PROVE Forward(n)
      OBVIOUS
    <3>1. pointerGen[n] \in Nat
      BY <1>1 DEF Inv, TypeOK
    <3>2. CASE Planned(j, n)
      <4>1. pointerGen'[n] = jobGen[<<j, n>>] /\ jobGen[<<j, n>>] = pointerGen[n] + 1
        BY <2>3, <3>2 DEF CommitRebuild, Revalidated, Planned, Active
      <4> QED BY <3>1, <4>1
    <3>3. CASE ~Planned(j, n)
      <4>1. pointerGen'[n] = pointerGen[n] /\ pointerProof'[n] = pointerProof[n]
        BY <2>3, <3>3 DEF CommitRebuild, Planned
      <4> QED BY <3>1, <4>1
    <3> QED BY <3>2, <3>3
  <2>4. ASSUME NEW j \in Jobs, ApplyCommand(j) PROVE \A n \in Namespaces : Forward(n)
    BY <1>1, <2>4 DEF ApplyCommand, Inv, TypeOK
  <2>5. \/ UNCHANGED pointers
        \/ \E j \in Jobs : Publish(j) \/ CommitRebuild(j) \/ ApplyCommand(j)
    BY <1>1 DEF Next, vars, index, Admit, AdmitIngest, AdmitMetadata, AdmitRebuild, AdmitIndexRebuild,
                AdmitCommand, AdmitFullRetry, JobFails, AcceptSnapshot, AcceptMetadata, AcceptRebuild,
                Accepted, GateApproves, GateRejects, ReadGeneration, Vectorize, VectorizeFenced,
                VectorizeRetried, PlanRebuild, OtherItemReserves, Discover, SoftPurge
  <2> QED BY <2>1, <2>2, <2>3, <2>4, <2>5
<1> QED BY <1>1, Invariance, PTL DEF Spec, PointerAdvances

\* Nothing brings a deleted Item or one of its pointers back: not a job admitted
\* before the delete, not a review decision, not a retry.
THEOREM DeleteFinal == Spec => DeletedIsFinal
<1>1. ASSUME Inv, [Next]_vars, lifecycle = "deleted"
      PROVE  UNCHANGED item /\ \A n \in Namespaces : pointerState'[n] = "withdrawn"
  <2>1. UNCHANGED <<item, pointerState>>
    <3>1. CASE UNCHANGED vars
      BY <3>1 DEF vars, index, pointers, item
    <3>2. ASSUME NEW j \in Jobs, ApplyCommand(j) PROVE UNCHANGED <<item, pointerState>>
      <4>1. stage[j] = "delete" /\ Target(stage[j]) = "deleted"
        BY <1>1, <3>2 DEF ApplyCommand, Applicable, Target
      <4> QED BY <1>1, <3>2, <4>1 DEF ApplyCommand, item
    <3>3. ASSUME NEW j \in Jobs, AcceptSnapshot(j) PROVE UNCHANGED <<item, pointerState>>
      BY <1>1, <3>3 DEF AcceptSnapshot, Accepted, index, pointers, item
    <3>4. ASSUME NEW j \in Jobs, GateApproves(j) \/ GateRejects(j) PROVE UNCHANGED <<item, pointerState>>
      BY <1>1, <3>4 DEF GateApproves, GateRejects, index, pointers, item
    <3>5. ASSUME NEW j \in Jobs,
                 \/ AdmitIngest(j) \/ AdmitMetadata(j) \/ AdmitRebuild(j) \/ AdmitIndexRebuild(j)
                 \/ AdmitCommand(j) \/ (\E k \in Jobs : AdmitFullRetry(j, k)) \/ JobFails(j)
                 \/ AcceptMetadata(j) \/ AcceptRebuild(j)
          PROVE  UNCHANGED <<item, pointerState>>
      BY <1>1, <3>5 DEF AdmitIngest, AdmitMetadata, AdmitRebuild, AdmitIndexRebuild, AdmitCommand, Admit,
                        AdmitFullRetry, JobFails, AcceptMetadata, AcceptRebuild, Accepted, index, pointers
    <3>6. ASSUME NEW j \in Jobs,
                 \/ ReadGeneration(j) \/ Vectorize(j) \/ VectorizeFenced(j) \/ VectorizeRetried(j)
                 \/ Publish(j) \/ PlanRebuild(j) \/ CommitRebuild(j)
          PROVE  UNCHANGED <<item, pointerState>>
      BY <1>1, <3>6 DEF ReadGeneration, Vectorize, VectorizeFenced, VectorizeRetried, Publish, Publishable, PlanRebuild,
                        CommitRebuild, Revalidated, index, pointers
    <3>7. ASSUME NEW n \in Namespaces,
                 OtherItemReserves(n) \/ \E g \in 1..nsGen[n] : Discover(n, g) \/ SoftPurge(n, g)
          PROVE  UNCHANGED <<item, pointerState>>
      BY <3>7 DEF OtherItemReserves, Discover, SoftPurge, pointers
    <3> QED BY <1>1, <3>1, <3>2, <3>3, <3>4, <3>5, <3>6, <3>7 DEF Next
  <2> QED BY <1>1, <2>1 DEF Inv, DeletedWithdrawn
<1> QED BY <1>1, Invariance, PTL DEF Spec, DeletedIsFinal

-----------------------------------------------------------------------------
(* The latest revision is not shut out. *)

\* The job that made the latest revision the latest has begun, and carries it.
OwnerLatest == owner # None => stage[owner] # "none" /\ jobRev[owner] = latest

\* A job between vectorize and publish has withdrawn records, of a generation
\* that its namespace has reserved.
VectorizedReserved == \A j \in Jobs : stage[j] = "vectorized" =>
  /\ recState[<<j, jobNs[j]>>] = "withdrawn"
  /\ jobGen[<<j, jobNs[j]>>] <= nsGen[jobNs[j]]

\* No pointer is ahead of its namespace: the next generation read is past it.
PointersReserved == \A n \in Namespaces : pointerGen[n] <= nsGen[n]

\* Once the owner has vectorized, its namespace's pointer passes it only for the
\* same revision.
OwnerAhead == owner # None /\ stage[owner] = "vectorized" =>
  \/ pointerGen[jobNs[owner]] < jobGen[<<owner, jobNs[owner]>>]
  \/ pointerProof[jobNs[owner]] # None /\ jobRev[pointerProof[jobNs[owner]]] = latest

LatestInv == OwnerLatest /\ VectorizedReserved /\ PointersReserved /\ OwnerAhead

\* A step of one job that leaves the index alone keeps it: the job reaches any
\* stage but vectorized, and may become the owner of the latest revision.
LEMMA JobStepLatest ==
  ASSUME Inv, LatestInv, NEW j \in Jobs, NEW to \in Stages \ {"none", "vectorized"},
         stage[j] # "done", stage' = [stage EXCEPT ![j] = to],
         \A k \in Jobs : k # j => jobRev'[k] = jobRev[k] /\ jobNs'[k] = jobNs[k],
         \A k \in Jobs, n \in Namespaces : k # j => jobGen'[<<k, n>>] = jobGen[<<k, n>>],
         stage[j] # "none" => jobRev'[j] = jobRev[j],
         UNCHANGED index,
         (owner' = owner /\ latest' = latest) \/ (owner' = j /\ latest' = jobRev'[j])
  PROVE  LatestInv'
<1> USE DEF LatestInv
<1>1. stage \in [Jobs -> Stages] /\ owner \in Jobs \cup {None} /\ UNCHANGED <<nsGen, pointerGen, pointerProof, recState>>
  BY DEF Inv, TypeOK, index, pointers, records
<1>2. OwnerLatest'
  BY <1>1 DEF OwnerLatest
<1>3. VectorizedReserved'
  <2> SUFFICES ASSUME NEW k \in Jobs, stage'[k] = "vectorized"
               PROVE  /\ recState'[<<k, jobNs'[k]>>] = "withdrawn"
                      /\ jobGen'[<<k, jobNs'[k]>>] <= nsGen'[jobNs'[k]]
    BY DEF VectorizedReserved
  <2>1. k # j /\ stage[k] = "vectorized"
    BY <1>1
  <2>2. jobNs[k] \in Namespaces
    BY <2>1 DEF Inv, Embeds
  <2> QED BY <1>1, <2>1, <2>2 DEF VectorizedReserved
<1>4. PointersReserved'
  BY <1>1 DEF PointersReserved
<1>5. OwnerAhead'
  <2> SUFFICES ASSUME owner' # None, stage'[owner'] = "vectorized"
               PROVE  \/ pointerGen'[jobNs'[owner']] < jobGen'[<<owner', jobNs'[owner']>>]
                      \/ pointerProof'[jobNs'[owner']] # None /\ jobRev'[pointerProof'[jobNs'[owner']]] = latest'
    BY DEF OwnerAhead
  <2>1. owner' # j /\ owner' = owner /\ owner \in Jobs /\ latest' = latest /\ stage[owner] = "vectorized"
    BY <1>1
  <2>2. jobNs[owner] \in Namespaces /\ jobNs'[owner] = jobNs[owner]
    BY <2>1 DEF Inv, Embeds
  <2>3. pointerProof[jobNs[owner]] \in Jobs \cup {None}
    BY <2>2 DEF Inv, TypeOK
  <2>4. pointerProof[jobNs[owner]] # None => stage[pointerProof[jobNs[owner]]] = "done"
    BY <2>2 DEF Inv, RecordInv, ProofsCurrent
  <2>5. pointerProof[jobNs[owner]] # None =>
          jobRev'[pointerProof[jobNs[owner]]] = jobRev[pointerProof[jobNs[owner]]]
    BY <2>3, <2>4
  <2>6. jobGen'[<<owner, jobNs[owner]>>] = jobGen[<<owner, jobNs[owner]>>]
    BY <2>1, <2>2
  <2> QED BY <1>1, <2>1, <2>2, <2>5, <2>6 DEF OwnerAhead
<1> QED BY <1>2, <1>3, <1>4, <1>5

\* Admission keeps it: the job has no history yet.
LEMMA AdmissionLatest ==
  ASSUME Inv, LatestInv, NEW j \in Jobs,
         \/ AdmitIngest(j) \/ AdmitMetadata(j) \/ AdmitRebuild(j) \/ AdmitIndexRebuild(j)
         \/ AdmitCommand(j) \/ \E k \in Jobs : AdmitFullRetry(j, k)
  PROVE  LatestInv'
<1>1. PICK to, rev, ns, seen : to \in Stages \ {"none", "vectorized"} /\ Admit(j, to, rev, ns, seen)
  BY DEF AdmitIngest, AdmitMetadata, AdmitRebuild, AdmitIndexRebuild, AdmitCommand, AdmitFullRetry,
         Stages, Accepting, Commands
<1>2. /\ stage[j] = "none" /\ stage' = [stage EXCEPT ![j] = to] /\ UNCHANGED <<index, owner, latest>>
      /\ \A k \in Jobs : k # j => jobRev'[k] = jobRev[k] /\ jobNs'[k] = jobNs[k]
      /\ \A k \in Jobs, n \in Namespaces : k # j => jobGen'[<<k, n>>] = jobGen[<<k, n>>]
  BY <1>1 DEF Admit, Inv, TypeOK, item, history
<1> QED BY <1>1, <1>2, JobStepLatest

\* Failing, acceptance, review and the generations read or planned keep it.
LEMMA ProgressLatest ==
  ASSUME Inv, LatestInv, NEW j \in Jobs,
         \/ JobFails(j) \/ VectorizeFenced(j) \/ AcceptSnapshot(j) \/ AcceptMetadata(j) \/ AcceptRebuild(j)
         \/ GateApproves(j) \/ GateRejects(j) \/ ReadGeneration(j) \/ VectorizeRetried(j) \/ PlanRebuild(j)
  PROVE  LatestInv'
<1>1. stage[j] \notin {"none", "done"} /\ UNCHANGED <<jobRev, jobNs, index>>
  BY DEF JobFails, VectorizeFenced, AcceptSnapshot, AcceptMetadata, AcceptRebuild, Accepted, GateApproves,
         GateRejects, ReadGeneration, VectorizeRetried, PlanRebuild, frozen
<1>2. PICK to \in Stages \ {"none", "vectorized"} : stage' = [stage EXCEPT ![j] = to]
  BY DEF JobFails, VectorizeFenced, AcceptSnapshot, AcceptMetadata, AcceptRebuild, Accepted, AfterAccept,
         GateApproves, GateRejects, ReadGeneration, VectorizeRetried, PlanRebuild, Stages
<1>3. (owner' = owner /\ latest' = latest) \/ (owner' = j /\ latest' = jobRev'[j])
  BY <1>1 DEF JobFails, VectorizeFenced, AcceptSnapshot, AcceptMetadata, AcceptRebuild, BecomesLatest,
              GateApproves, GateRejects, ReadGeneration, VectorizeRetried, PlanRebuild, item, history
<1>4. \A k \in Jobs, n \in Namespaces : k # j => jobGen'[<<k, n>>] = jobGen[<<k, n>>]
  <2>1. CASE UNCHANGED jobGen
    BY <2>1
  <2>2. CASE ReadGeneration(j) \/ VectorizeRetried(j)
    BY <2>2 DEF ReadGeneration, VectorizeRetried, Inv, TypeOK, Embeds, Sets
  <2>3. CASE PlanRebuild(j)
    BY <2>3 DEF PlanRebuild, Inv, TypeOK, Sets
  <2> QED BY <2>1, <2>2, <2>3 DEF JobFails, VectorizeFenced, AcceptSnapshot, AcceptMetadata, AcceptRebuild,
                                  Accepted, GateApproves, GateRejects
<1> QED BY <1>1, <1>2, <1>3, <1>4, JobStepLatest

\* A job that vectorizes reserves the generation after the namespace's, so it is
\* ahead of the pointer.
LEMMA VectorizeLatest ==
  ASSUME Inv, LatestInv, NEW j \in Jobs, Vectorize(j)
  PROVE  LatestInv'
<1> USE DEF LatestInv
<1> DEFINE n == jobNs[j]
<1>1. n \in Namespaces /\ <<j, n>> \in Sets
  BY DEF Vectorize, Inv, Embeds, Sets
<1>2. /\ stage[j] = "embedding" /\ stage' = [stage EXCEPT ![j] = "vectorized"]
      /\ jobGen[<<j, n>>] = nsGen[n] + 1
      /\ nsGen' = [nsGen EXCEPT ![n] = nsGen[n] + 1]
      /\ recState' = [recState EXCEPT ![<<j, n>>] = "withdrawn"]
      /\ UNCHANGED <<latest, jobRev, jobNs, jobGen, pointerGen, pointerProof, owner>>
  BY DEF Vectorize, GenerationFree, item, frozen, pointers, history
<1>3. /\ stage \in [Jobs -> Stages] /\ nsGen \in [Namespaces -> Nat] /\ pointerGen \in [Namespaces -> Nat]
      /\ jobGen \in [Sets -> Nat] /\ recState \in [Sets -> {"none", "withdrawn", "indexed"}]
      /\ owner \in Jobs \cup {None}
  BY DEF Inv, TypeOK
<1>4. \A m \in Namespaces : nsGen'[m] \in Nat /\ nsGen'[m] >= nsGen[m]
  BY <1>1, <1>2, <1>3
<1>5. OwnerLatest'
  BY <1>2, <1>3 DEF OwnerLatest
<1>6. VectorizedReserved'
  <2> SUFFICES ASSUME NEW k \in Jobs, stage'[k] = "vectorized"
               PROVE  /\ recState'[<<k, jobNs[k]>>] = "withdrawn"
                      /\ jobGen[<<k, jobNs[k]>>] <= nsGen'[jobNs[k]]
    BY <1>2 DEF VectorizedReserved
  <2>1. CASE k = j
    BY <2>1, <1>1, <1>2, <1>3
  <2>2. CASE k # j
    <3>1. stage[k] = "vectorized" /\ jobNs[k] \in Namespaces /\ <<k, jobNs[k]>> \in Sets
      BY <2>2, <1>2, <1>3 DEF Inv, Embeds, Sets
    <3>2. recState'[<<k, jobNs[k]>>] = recState[<<k, jobNs[k]>>]
      BY <2>2, <3>1, <1>2, <1>3
    <3>3. jobGen[<<k, jobNs[k]>>] <= nsGen[jobNs[k]] /\ recState[<<k, jobNs[k]>>] = "withdrawn"
      BY <3>1 DEF VectorizedReserved
    <3>4. jobGen[<<k, jobNs[k]>>] \in Nat /\ nsGen[jobNs[k]] \in Nat /\ nsGen'[jobNs[k]] \in Nat
          /\ nsGen'[jobNs[k]] >= nsGen[jobNs[k]]
      BY <3>1, <1>3, <1>4
    <3> QED BY <3>2, <3>3, <3>4
  <2> QED BY <2>1, <2>2
<1>7. PointersReserved'
  BY <1>2, <1>3, <1>4 DEF PointersReserved
<1>8. OwnerAhead'
  <2>1. CASE owner = j
    <3>1. pointerGen[n] <= nsGen[n] /\ pointerGen[n] \in Nat /\ nsGen[n] \in Nat
      BY <1>1, <1>3 DEF PointersReserved
    <3>2. pointerGen[n] < jobGen[<<j, n>>]
      BY <3>1, <1>2
    <3> QED BY <2>1, <3>2, <1>2 DEF OwnerAhead
  <2>2. CASE owner # j
    BY <2>2, <1>2, <1>3 DEF OwnerAhead
  <2> QED BY <2>1, <2>2
<1> QED BY <1>5, <1>6, <1>7, <1>8

\* Only the latest revision is published, and the pointer takes a generation that
\* the namespace has reserved.
LEMMA PublishLatest ==
  ASSUME Inv, LatestInv, NEW j \in Jobs, Publish(j)
  PROVE  LatestInv'
<1> USE DEF LatestInv
<1> DEFINE n == jobNs[j]
<1>1. n \in Namespaces /\ <<j, n>> \in Sets
  BY DEF Publish, Inv, Embeds, Sets
<1>2. /\ stage[j] = "vectorized" /\ stage' = [stage EXCEPT ![j] = "done"]
      /\ latest = jobRev[j]
      /\ recState' = [recState EXCEPT ![<<j, n>>] = "indexed"]
      /\ pointerGen' = [pointerGen EXCEPT ![n] = jobGen[<<j, n>>]]
      /\ pointerProof' = [pointerProof EXCEPT ![n] = j]
      /\ UNCHANGED <<latest, jobRev, jobNs, jobGen, nsGen, owner>>
  BY DEF Publish, Publishable, frozen, history
<1>3. /\ stage \in [Jobs -> Stages] /\ nsGen \in [Namespaces -> Nat] /\ pointerGen \in [Namespaces -> Nat]
      /\ jobGen \in [Sets -> Nat] /\ recState \in [Sets -> {"none", "withdrawn", "indexed"}]
      /\ owner \in Jobs \cup {None} /\ pointerProof \in [Namespaces -> Jobs \cup {None}]
  BY DEF Inv, TypeOK
<1>4. OwnerLatest'
  BY <1>2, <1>3 DEF OwnerLatest
<1>5. VectorizedReserved'
  <2> SUFFICES ASSUME NEW k \in Jobs, stage'[k] = "vectorized"
               PROVE  /\ recState'[<<k, jobNs[k]>>] = "withdrawn"
                      /\ jobGen[<<k, jobNs[k]>>] <= nsGen[jobNs[k]]
    BY <1>2 DEF VectorizedReserved
  <2>1. k # j /\ stage[k] = "vectorized" /\ jobNs[k] \in Namespaces /\ <<k, jobNs[k]>> \in Sets
    BY <1>2, <1>3 DEF Inv, Embeds, Sets
  <2>2. recState'[<<k, jobNs[k]>>] = recState[<<k, jobNs[k]>>]
    BY <2>1, <1>2, <1>3
  <2> QED BY <2>1, <2>2 DEF VectorizedReserved
<1>6. PointersReserved'
  <2>1. jobGen[<<j, n>>] <= nsGen[n]
    BY <1>2 DEF VectorizedReserved
  <2> QED BY <2>1, <1>1, <1>2, <1>3 DEF PointersReserved
<1>7. OwnerAhead'
  <2> SUFFICES ASSUME owner # None, stage'[owner] = "vectorized"
               PROVE  \/ pointerGen'[jobNs[owner]] < jobGen[<<owner, jobNs[owner]>>]
                      \/ pointerProof'[jobNs[owner]] # None /\ jobRev[pointerProof'[jobNs[owner]]] = latest
    BY <1>2 DEF OwnerAhead
  <2>1. owner \in Jobs /\ stage[owner] = "vectorized" /\ jobNs[owner] \in Namespaces /\ j # None
    BY <1>2, <1>3, IndexAssumption DEF Inv, Embeds
  <2>2. CASE jobNs[owner] = n
    BY <2>1, <2>2, <1>1, <1>2, <1>3
  <2>3. CASE jobNs[owner] # n
    BY <2>1, <2>3, <1>1, <1>2, <1>3 DEF OwnerAhead
  <2> QED BY <2>2, <2>3
<1> QED BY <1>4, <1>5, <1>6, <1>7

\* A lifecycle command takes records out of service, and a withdrawn set stays one.
LEMMA ApplyCommandLatest ==
  ASSUME Inv, LatestInv, NEW j \in Jobs, ApplyCommand(j)
  PROVE  LatestInv'
<1> USE DEF LatestInv
<1>1. /\ stage[j] \in Commands /\ stage' = [stage EXCEPT ![j] = "done"]
      /\ UNCHANGED <<latest, jobRev, jobNs, jobGen, nsGen, pointerGen, pointerProof, owner>>
      /\ \A s \in Sets : recState[s] = "withdrawn" => recState'[s] = "withdrawn"
  BY DEF ApplyCommand, Withdraw, frozen
<1>2. stage \in [Jobs -> Stages] /\ owner \in Jobs \cup {None}
  BY DEF Inv, TypeOK
<1>3. OwnerLatest' /\ PointersReserved' /\ OwnerAhead'
  BY <1>1, <1>2 DEF OwnerLatest, PointersReserved, OwnerAhead
<1>4. VectorizedReserved'
  <2> SUFFICES ASSUME NEW k \in Jobs, stage'[k] = "vectorized"
               PROVE  /\ recState'[<<k, jobNs[k]>>] = "withdrawn"
                      /\ jobGen[<<k, jobNs[k]>>] <= nsGen[jobNs[k]]
    BY <1>1 DEF VectorizedReserved
  <2>1. stage[k] = "vectorized" /\ <<k, jobNs[k]>> \in Sets
    BY <1>1, <1>2 DEF Inv, Embeds, Sets
  <2> QED BY <2>1, <1>1 DEF VectorizedReserved
<1> QED BY <1>3, <1>4

\* A rebuild moves pointers to the latest revision only, and the namespace with
\* them.
LEMMA CommitRebuildLatest ==
  ASSUME Inv, LatestInv, NEW j \in Jobs, CommitRebuild(j)
  PROVE  LatestInv'
<1> USE DEF LatestInv
<1>1. /\ stage[j] = "planned" /\ stage' = [stage EXCEPT ![j] = "done"] /\ latest = jobRev[j]
      /\ UNCHANGED <<latest, jobRev, jobNs, jobGen, owner>>
  BY DEF CommitRebuild, Revalidated, item, frozen, history
<1>2. /\ recState' = [s \in Sets |-> IF s[1] = j /\ Planned(j, s[2]) THEN "indexed" ELSE recState[s]]
      /\ pointerGen' = [n \in Namespaces |-> IF Planned(j, n) THEN jobGen[<<j, n>>] ELSE pointerGen[n]]
      /\ pointerProof' = [n \in Namespaces |-> IF Planned(j, n) THEN j ELSE pointerProof[n]]
      /\ nsGen' = [n \in Namespaces |-> IF jobGen[<<j, n>>] > nsGen[n] THEN jobGen[<<j, n>>] ELSE nsGen[n]]
  BY DEF CommitRebuild
<1>3. /\ stage \in [Jobs -> Stages] /\ nsGen \in [Namespaces -> Nat] /\ pointerGen \in [Namespaces -> Nat]
      /\ jobGen \in [Sets -> Nat] /\ owner \in Jobs \cup {None}
  BY DEF Inv, TypeOK
<1>4. \A m \in Namespaces : /\ nsGen'[m] \in Nat /\ nsGen'[m] >= nsGen[m] /\ nsGen'[m] >= jobGen[<<j, m>>]
                            /\ nsGen[m] \in Nat /\ jobGen[<<j, m>>] \in Nat /\ pointerGen[m] \in Nat
  BY <1>2, <1>3 DEF Sets
<1>5. OwnerLatest'
  BY <1>1, <1>3 DEF OwnerLatest
<1>6. VectorizedReserved'
  <2> SUFFICES ASSUME NEW k \in Jobs, stage'[k] = "vectorized"
               PROVE  /\ recState'[<<k, jobNs[k]>>] = "withdrawn"
                      /\ jobGen[<<k, jobNs[k]>>] <= nsGen'[jobNs[k]]
    BY <1>1 DEF VectorizedReserved
  <2>1. k # j /\ stage[k] = "vectorized" /\ jobNs[k] \in Namespaces /\ <<k, jobNs[k]>> \in Sets
    BY <1>1, <1>3 DEF Inv, Embeds, Sets
  <2>2. recState'[<<k, jobNs[k]>>] = recState[<<k, jobNs[k]>>]
    BY <2>1, <1>2
  <2>3. jobGen[<<k, jobNs[k]>>] <= nsGen[jobNs[k]] /\ recState[<<k, jobNs[k]>>] = "withdrawn"
    BY <2>1 DEF VectorizedReserved
  <2>4. jobGen[<<k, jobNs[k]>>] \in Nat
    BY <2>1, <1>3
  <2>5. nsGen'[jobNs[k]] \in Nat /\ nsGen[jobNs[k]] \in Nat /\ nsGen'[jobNs[k]] >= nsGen[jobNs[k]]
    BY <2>1, <1>4
  <2> QED BY <2>2, <2>3, <2>4, <2>5
<1>7. PointersReserved'
  <2> SUFFICES ASSUME NEW m \in Namespaces PROVE pointerGen'[m] <= nsGen'[m]
    BY DEF PointersReserved
  <2>1. pointerGen[m] <= nsGen[m]
    BY DEF PointersReserved
  <2>2. pointerGen'[m] \in {jobGen[<<j, m>>], pointerGen[m]}
    BY <1>2
  <2> QED BY <2>1, <2>2, <1>4
<1>8. OwnerAhead'
  <2> SUFFICES ASSUME owner # None, stage'[owner] = "vectorized"
               PROVE  \/ pointerGen'[jobNs[owner]] < jobGen[<<owner, jobNs[owner]>>]
                      \/ pointerProof'[jobNs[owner]] # None /\ jobRev[pointerProof'[jobNs[owner]]] = latest
    BY <1>1 DEF OwnerAhead
  <2>1. owner \in Jobs /\ stage[owner] = "vectorized" /\ jobNs[owner] \in Namespaces /\ j # None
    BY <1>1, <1>3, IndexAssumption DEF Inv, Embeds
  <2>2. CASE Planned(j, jobNs[owner])
    BY <2>1, <2>2, <1>1, <1>2
  <2>3. CASE ~Planned(j, jobNs[owner])
    BY <2>1, <2>3, <1>1, <1>2 DEF OwnerAhead
  <2> QED BY <2>2, <2>3
<1> QED BY <1>5, <1>6, <1>7, <1>8

\* Reservations of other Items only raise the namespace; retirement deletes
\* records without changing what is withdrawn.
LEMMA NamespaceStepLatest ==
  ASSUME Inv, LatestInv, NEW n \in Namespaces, NEW g,
         OtherItemReserves(n) \/ Discover(n, g) \/ SoftPurge(n, g)
  PROVE  LatestInv'
<1> USE DEF LatestInv
<1>1. UNCHANGED <<latest, stage, jobRev, jobNs, jobGen, pointerGen, pointerProof, recState, owner>>
  BY DEF OtherItemReserves, Discover, SoftPurge, item, frozen, pointers, records, history
<1>2. nsGen \in [Namespaces -> Nat] /\ pointerGen \in [Namespaces -> Nat] /\ jobGen \in [Sets -> Nat]
  BY DEF Inv, TypeOK
<1>3. \A m \in Namespaces : nsGen'[m] \in Nat /\ nsGen'[m] >= nsGen[m]
  BY <1>2 DEF OtherItemReserves, Discover, SoftPurge
<1>4. OwnerLatest' /\ OwnerAhead'
  BY <1>1 DEF OwnerLatest, OwnerAhead
<1>5. PointersReserved'
  BY <1>1, <1>2, <1>3 DEF PointersReserved
<1>6. VectorizedReserved'
  <2> SUFFICES ASSUME NEW k \in Jobs, stage[k] = "vectorized"
               PROVE  /\ recState[<<k, jobNs[k]>>] = "withdrawn"
                      /\ jobGen[<<k, jobNs[k]>>] <= nsGen'[jobNs[k]]
    BY <1>1 DEF VectorizedReserved
  <2>1. jobNs[k] \in Namespaces /\ <<k, jobNs[k]>> \in Sets
    BY DEF Inv, Embeds, Sets
  <2>2. jobGen[<<k, jobNs[k]>>] <= nsGen[jobNs[k]] /\ recState[<<k, jobNs[k]>>] = "withdrawn"
    BY DEF VectorizedReserved
  <2>3. jobGen[<<k, jobNs[k]>>] \in Nat /\ nsGen[jobNs[k]] \in Nat
    BY <2>1, <1>2
  <2> QED BY <2>1, <2>2, <2>3, <1>3
<1> QED BY <1>4, <1>5, <1>6

\* Every step keeps it.
LEMMA NextLatest == Inv /\ LatestInv /\ [Next]_vars => LatestInv'
<1> SUFFICES ASSUME Inv, LatestInv, [Next]_vars PROVE LatestInv'
  OBVIOUS
<1>1. CASE UNCHANGED vars
  BY <1>1 DEF vars, item, frozen, index, pointers, records, history, LatestInv, OwnerLatest,
              VectorizedReserved, PointersReserved, OwnerAhead
<1>2. ASSUME NEW j \in Jobs,
             \/ AdmitIngest(j) \/ AdmitMetadata(j) \/ AdmitRebuild(j) \/ AdmitIndexRebuild(j)
             \/ AdmitCommand(j) \/ \E k \in Jobs : AdmitFullRetry(j, k)
      PROVE  LatestInv'
  BY <1>2, AdmissionLatest
<1>3. ASSUME NEW j \in Jobs,
             \/ JobFails(j) \/ VectorizeFenced(j) \/ AcceptSnapshot(j) \/ AcceptMetadata(j) \/ AcceptRebuild(j)
             \/ GateApproves(j) \/ GateRejects(j) \/ ReadGeneration(j) \/ VectorizeRetried(j) \/ PlanRebuild(j)
      PROVE  LatestInv'
  BY <1>3, ProgressLatest
<1>4. ASSUME NEW j \in Jobs, Vectorize(j) \/ Publish(j) \/ ApplyCommand(j) \/ CommitRebuild(j) PROVE LatestInv'
  BY <1>4, VectorizeLatest, PublishLatest, ApplyCommandLatest, CommitRebuildLatest
<1>5. ASSUME NEW n \in Namespaces,
             OtherItemReserves(n) \/ \E g \in 1..nsGen[n] : Discover(n, g) \/ SoftPurge(n, g)
      PROVE  LatestInv'
  BY <1>5, NamespaceStepLatest
<1> QED BY <1>1, <1>2, <1>3, <1>4, <1>5 DEF Next

\* publish_revision_tx and the pointer's compare-and-set never shut the latest
\* revision out: while the Item is active its vectorized job may publish, unless
\* that revision is already what the namespace's pointer proves.
THEOREM LatestPublishable == Spec => []LatestNotShutOut
<1>1. Init => LatestInv
  BY DEF Init, LatestInv, OwnerLatest, VectorizedReserved, PointersReserved, OwnerAhead
<1>2. Inv /\ LatestInv => LatestNotShutOut
  <2> SUFFICES ASSUME Inv, LatestInv, owner # None, stage[owner] = "vectorized", lifecycle = "active"
               PROVE  \/ Publishable(owner)
                      \/ pointerProof[jobNs[owner]] # None /\ jobRev[pointerProof[jobNs[owner]]] = latest
    BY DEF LatestNotShutOut
  <2>1. owner \in Jobs
    BY DEF Inv, TypeOK
  <2> QED BY <2>1 DEF LatestInv, OwnerLatest, VectorizedReserved, OwnerAhead, Publishable
<1> QED BY <1>1, <1>2, NextLatest, Invariance, PTL DEF Spec
=============================================================================
