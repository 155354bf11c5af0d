-------------------------- MODULE CaptureSyncProofs --------------------------
(***************************************************************************)
(* Theorems about CaptureSync for every set of digests, paths and          *)
(* processes, every batch limit and every choice of faults.                *)
(***************************************************************************)
EXTENDS CaptureSync, FiniteSetTheorems, TLAPS

USE DEF queueVars, verdictVars, bytesVars, jobVars, archiveVars, passVars, vars

(* A capture's digest is a digest.                                          *)
LEMMA HashType == \A a \in Capture : Hash(a) \in Sha
  BY CaptureAssumption DEF Hash

(* The digests of some captures are digests.                                *)
LEMMA HashesType == \A rows \in SUBSET Capture : Hashes(rows) \in SUBSET Sha
  BY HashType DEF Hashes

-----------------------------------------------------------------------------
(* Type correctness, one fact per group of actions.                         *)

LEMMA InitType == Init => TypeOK
<1> SUFFICES ASSUME Init PROVE TypeOK
  OBVIOUS
<1>1. QueueTypeOK
  BY DEF Init, QueueInit, QueueTypeOK, QueueStatus
<1>2. ArchiveTypeOK
  BY DEF Init, ArchiveInit, ArchiveTypeOK, RecordStatus, JobState
<1>3. QED
  BY <1>1, <1>2 DEF Init, TypeOK, PassPC

LEMMA EnqueueParseType ==
  ASSUME ArchiveTypeOK, NEW S \in SUBSET Sha, EnqueueParse(S)
  PROVE  ArchiveTypeOK'
  BY DEF EnqueueParse, ArchiveTypeOK, JobState

(* What a parse writes, whoever ran it.                                     *)
LEMMA ParseWrites ==
  ASSUME ArchiveTypeOK, NEW s \in Sha, ParseReturns(s) \/ ParseThrows(s)
  PROVE  /\ record' \in [Sha -> RecordStatus]
         /\ joined' \subseteq joined \cup {s} /\ unsaid' \subseteq unsaid \cup {s}
         /\ Registered' = Registered
         /\ joined' \subseteq joined \cup (Registered \cap objects)
         /\ \A t \in Sha \ {s} : record'[t] = record[t]
         /\ \A t \in Sha \ {s} : t \notin unsaid' => t \notin unsaid
         /\ s \in Registered /\ s \notin unsaid' => record'[s] \in {"parsed", "unknown_format", "failed"}
<1> USE DEF ArchiveTypeOK, RecordStatus, Registered
<1>1. ASSUME NEW v \in {"parsed", "unknown_format", "failed"}, NEW b \in BOOLEAN,
             b => s \in objects \/ s \in joined,
             UpdateRawArtifact(s, v, b), unsaid' = unsaid \ {s}
      PROVE  /\ record' \in [Sha -> RecordStatus]
             /\ joined' \subseteq joined \cup {s} /\ unsaid' \subseteq unsaid \cup {s}
             /\ Registered' = Registered
             /\ joined' \subseteq joined \cup (Registered \cap objects)
             /\ \A t \in Sha \ {s} : record'[t] = record[t]
             /\ \A t \in Sha \ {s} : t \notin unsaid' => t \notin unsaid
             /\ s \in Registered => record'[s] \in {"parsed", "unknown_format", "failed"}
  <2>1. CASE s \in Registered
    <3>1. record' = [record EXCEPT ![s] = v] /\ joined' = IF b THEN joined \cup {s} ELSE joined \ {s}
      BY <1>1, <2>1 DEF UpdateRawArtifact
    <3>2. QED
      BY <1>1, <2>1, <3>1
  <2>2. CASE s \notin Registered
    <3>1. record' = record /\ joined' = joined
      BY <1>1, <2>2 DEF UpdateRawArtifact
    <3>2. QED
      BY <1>1, <2>2, <3>1
  <2>3. QED
    BY <2>1, <2>2
<1>2. CASE ParseReturns(s)
  <2>1. \E v \in {"parsed", "unknown_format", "failed"}, b \in BOOLEAN :
           /\ b => s \in objects \/ s \in joined
           /\ UpdateRawArtifact(s, v, b)
    <3>1. CASE UpdateRawArtifact(s, "parsed", TRUE)
      BY <1>2, <3>1 DEF ParseReturns
    <3>2. CASE UpdateRawArtifact(s, "unknown_format", s \in joined)
      <4>1. (s \in joined) \in BOOLEAN
        OBVIOUS
      <4>2. QED
        BY <3>2, <4>1
    <3>3. QED
      BY <1>2, <3>1, <3>2 DEF ParseReturns
  <2>2. QED
    BY <1>1, <1>2, <2>1 DEF ParseReturns
<1>3. CASE ParseThrows(s)
  <2>1. CASE unsaid' = unsaid \cup {s} /\ UNCHANGED <<record, joined>>
    BY <2>1
  <2>2. CASE /\ \E b \in BOOLEAN : (b => s \in objects) /\ UpdateRawArtifact(s, "failed", b)
             /\ unsaid' = unsaid \ {s}
    BY <1>1, <2>2
  <2>3. QED
    BY <1>3, <2>1, <2>2 DEF ParseThrows
<1>4. QED
  BY <1>2, <1>3

LEMMA JobType ==
  ASSUME ArchiveTypeOK, NEW s \in Sha,
         StartParse(s) \/ ReportJob(s) \/ WorkerStalls(s) \/ RemoveJob(s)
  PROVE  ArchiveTypeOK'
  BY JobAttemptsAssumption DEF StartParse, ReportJob, WorkerStalls, RemoveJob, ArchiveTypeOK, JobState

LEMMA ServerType ==
  ASSUME ArchiveTypeOK, PutStep \/ ParseStep
  PROVE  ArchiveTypeOK'
<1>1. ASSUME NEW s \in Sha, PutObject(s) \/ PutObjectFails(s) PROVE ArchiveTypeOK'
  BY <1>1 DEF PutObject, PutObjectFails, ArchiveTypeOK
<1>2. ASSUME NEW s \in Sha, ParseSucceeds(s) \/ ParseFails(s) PROVE ArchiveTypeOK'
  <2>1. ParseReturns(s) \/ ParseThrows(s)
    BY <1>2 DEF ParseSucceeds, ParseFails
  <2>2. \E end \in {"done", "thrown"} : job' = [job EXCEPT ![s] = end]
    BY <1>2 DEF ParseSucceeds, ParseFails
  <2>3. UNCHANGED <<bytesVars, tries, stalls, stray, swept>>
    BY <1>2 DEF ParseSucceeds, ParseFails
  <2>4. QED
    BY <2>1, <2>2, <2>3, ParseWrites DEF ArchiveTypeOK, JobState
<1>3. ASSUME NEW s \in Sha, Reprocess(s) PROVE ArchiveTypeOK'
  BY <1>3 DEF Reprocess, ArchiveTypeOK
<1>4. ASSUME NEW s \in Sha, StrayEnds(s) PROVE ArchiveTypeOK'
  <2>1. CASE UNCHANGED verdictVars
    BY <1>4, <2>1 DEF StrayEnds, ArchiveTypeOK
  <2>2. CASE ParseReturns(s) \/ ParseThrows(s)
    BY <1>4, <2>2, ParseWrites DEF StrayEnds, ArchiveTypeOK
  <2>3. QED
    BY <1>4, <2>1, <2>2 DEF StrayEnds
<1>5. QED
  BY <1>1, <1>2, <1>3, <1>4, JobType DEF PutStep, ParseStep

LEMMA ForgetType ==
  ASSUME TypeOK, NEW p \in Pass, Forget(p), UNCHANGED <<queueVars, archiveVars>>, crashes' \in Nat
  PROVE  TypeOK'
  BY DEF Forget, Goto, TypeOK, QueueTypeOK, ArchiveTypeOK, PassPC

LEMMA RefuseBatchType ==
  ASSUME TypeOK, NEW p \in Pass, RefuseBatch(p), ArchiveTypeOK',
         UNCHANGED <<queueVars, crashes>>
  PROVE  TypeOK'
  BY DEF RefuseBatch, Goto, TypeOK, QueueTypeOK, PassPC

LEMMA LacksType ==
  ASSUME TypeOK, NEW p \in Pass, NEW a \in Capture, Lacks(p, a),
         UNCHANGED <<queueVars, archiveVars, crashes>>
  PROVE  TypeOK'
  BY HashType DEF Lacks, Goto, TypeOK, QueueTypeOK, ArchiveTypeOK, PassPC

LEMMA NextType == TypeOK /\ [Next]_vars => TypeOK'
<1> SUFFICES ASSUME TypeOK, [Next]_vars PROVE TypeOK'
  OBVIOUS
<1>1. ASSUME NEW p \in Pass, Begin(p) PROVE TypeOK'
  BY <1>1 DEF Begin, PendingBatch, Eligible, Goto, TypeOK, QueueTypeOK, ArchiveTypeOK, PassPC
<1>2. ASSUME NEW p \in Pass, Delta(p) PROVE TypeOK'
  BY <1>2, HashesType DEF Delta, DeltaMissing, Goto, TypeOK, QueueTypeOK, ArchiveTypeOK, PassPC
<1>3. ASSUME NEW p \in Pass, DeltaFails(p) PROVE TypeOK'
  BY <1>3, RefuseBatchType DEF DeltaFails, TypeOK, ArchiveTypeOK
<1>4. ASSUME NEW p \in Pass, NEW a \in Capture, SkipHeld(p, a) PROVE TypeOK'
  BY <1>4 DEF SkipHeld, TypeOK, QueueTypeOK, ArchiveTypeOK
<1>5. ASSUME NEW p \in Pass, NEW a \in Capture, Unreadable(p, a) \/ UploadRefused(p, a) PROVE TypeOK'
  BY <1>5, LacksType DEF Unreadable, UploadRefused
<1>6. ASSUME NEW p \in Pass, NEW a \in Capture, Upload(p, a) PROVE TypeOK'
  <2>1. ArchiveTypeOK'
    BY <1>6, HashType DEF Upload, SaveRawArtifact, TypeOK, ArchiveTypeOK, RecordStatus
  <2>2. QED
    BY <1>6, <2>1 DEF Upload, Goto, TypeOK, QueueTypeOK, PassPC
<1>7. ASSUME NEW p \in Pass, UploadAnswered(p) PROVE TypeOK'
  BY <1>7 DEF UploadAnswered, Goto, TypeOK, QueueTypeOK, ArchiveTypeOK, PassPC
<1>8. ASSUME NEW p \in Pass, UploadFails(p) PROVE TypeOK'
  <2>1. cur[p] \in Capture
    BY <1>8 DEF UploadFails, TypeOK
  <2>2. QED
    BY <1>8, <2>1, LacksType DEF UploadFails
<1>9. ASSUME NEW p \in Pass, Charge(p) \/ Recharge(p) PROVE TypeOK'
  <2>1. cur[p] \in Capture
    BY <1>9 DEF Charge, Recharge, TypeOK
  <2>2. QueueTypeOK'
    <3>1. MarkRetry(cur[p], seen[p]) /\ seen[p] \in Nat
      BY <1>9 DEF Charge, Recharge, TypeOK
    <3>2. QED
      BY <2>1, <3>1 DEF MarkRetry, TypeOK, QueueTypeOK, QueueStatus
  <2>3. QED
    BY <1>9, <2>2 DEF Charge, Recharge, Goto, TypeOK, ArchiveTypeOK, PassPC
<1>10. ASSUME NEW p \in Pass, ManifestAccepted(p) PROVE TypeOK'
  <2>1. Claimed(p) \in SUBSET Capture
    BY DEF Claimed, TypeOK
  <2>2. ArchiveTypeOK'
    BY <1>10, <2>1, HashesType, EnqueueParseType DEF ManifestAccepted, TypeOK
  <2>3. QED
    BY <1>10, <2>1, <2>2 DEF ManifestAccepted, Goto, TypeOK, QueueTypeOK, PassPC
<1>11. ASSUME NEW p \in Pass, ManifestFails(p) PROVE TypeOK'
  <2>1. Hashes(Claimed(p)) \in SUBSET Sha
    BY HashesType DEF Claimed, TypeOK
  <2>2. ArchiveTypeOK'
    <3>1. CASE UNCHANGED archiveVars
      BY <3>1 DEF TypeOK, ArchiveTypeOK
    <3>2. CASE \E S \in SUBSET (Hashes(Claimed(p)) \cap Registered) : EnqueueParse(S)
      BY <3>2, <2>1, EnqueueParseType DEF TypeOK
    <3>3. QED
      BY <1>11, <3>1, <3>2 DEF ManifestFails
  <2>3. QED
    BY <1>11, <2>2, RefuseBatchType DEF ManifestFails
<1>12. ASSUME NEW p \in Pass, NEW a \in Capture, Refuse(p, a) PROVE TypeOK'
  BY <1>12 DEF Refuse, Goto, TypeOK, QueueTypeOK, ArchiveTypeOK, PassPC
<1>13. ASSUME NEW p \in Pass, NEW a \in Capture, Settle(p, a) PROVE TypeOK'
  BY <1>13 DEF Settle, MarkSynced, TypeOK, QueueTypeOK, QueueStatus, ArchiveTypeOK
<1>14. ASSUME NEW p \in Pass, Finish(p) \/ Crash(p) PROVE TypeOK'
  <2>1. crashes' \in Nat
    BY <1>14 DEF Finish, Crash, TypeOK
  <2>2. QED
    BY <1>14, <2>1, ForgetType DEF Finish, Crash
<1>15. ASSUME NEW a \in Capture, CaptureFile(a) \/ WaitOut(a) PROVE TypeOK'
  BY <1>15, HashType DEF CaptureFile, WaitOut, Enqueue, EnqueueInterrupted, WriteBlobOnce,
     BackoffElapses, TypeOK, QueueTypeOK, QueueStatus, ArchiveTypeOK
<1>16. ASSUME NEW s \in Sha, DamageBlob(s) PROVE TypeOK'
  BY <1>16 DEF DamageBlob, SpoilBlob, TypeOK, QueueTypeOK, ArchiveTypeOK
<1>17. ASSUME NEW s \in Sha, RetireJob(s) \/ WorkerCrash(s) PROVE TypeOK'
  <2>1. ArchiveTypeOK'
    BY <1>17, JobType DEF RetireJob, WorkerCrash, TypeOK
  <2>2. QED
    BY <1>17, <2>1 DEF RetireJob, WorkerCrash, TypeOK, QueueTypeOK
<1>18. ASSUME NEW rows \in SUBSET Sha, RetentionSweep(rows) PROVE TypeOK'
  <2>1. ArchiveTypeOK'
    BY <1>18 DEF RetentionSweep, ApplyRetention, TypeOK, ArchiveTypeOK, RecordStatus
  <2>2. QED
    BY <1>18, <2>1 DEF RetentionSweep, TypeOK, QueueTypeOK
<1>19. ASSUME ServerStep PROVE TypeOK'
  <2>1. ArchiveTypeOK'
    BY <1>19, ServerType DEF ServerStep, TypeOK
  <2>2. QED
    BY <1>19, <2>1 DEF ServerStep, TypeOK, QueueTypeOK
<1>20. CASE UNCHANGED vars
  BY <1>20 DEF TypeOK, QueueTypeOK, ArchiveTypeOK
<1>21. QED
  BY <1>1, <1>2, <1>3, <1>4, <1>5, <1>6, <1>7, <1>8, <1>9, <1>10, <1>11, <1>12,
     <1>13, <1>14, <1>15, <1>16, <1>17, <1>18, <1>19, <1>20 DEF Next, PassStep

(* Every reachable state is well typed: no pass holds a row that is not a   *)
(* capture while it charges one or waits for its upload.                    *)
THEOREM TypeCorrect == Spec => []TypeOK
  BY InitType, NextType, PTL DEF Spec

-----------------------------------------------------------------------------
(* The safety of acknowledgement.  SyncInv is inductive: ChosenRows and     *)
(* SettlingIsQueued carry what the manifest established across the steps    *)
(* between its answer and the last mark_synced.                             *)

LEMMA InitSyncInv == Init => SyncInv
<1> SUFFICES ASSUME Init PROVE SyncInv
  OBVIOUS
<1>1. TypeOK
  BY InitType
<1>2. QED
  BY <1>1 DEF Init, QueueInit, ArchiveInit, SyncInv, ChosenRows, SettlingIsQueued,
     RegisteredIsStored, QueuedIsRegistered, SyncedIsRegistered, SweptWasRead, SyncedWasQueued, Registered

(* The manifest's enqueue adds jobs for the digests it was given and for    *)
(* those only.                                                              *)
LEMMA EnqueueParseMeaning ==
  ASSUME ArchiveTypeOK, NEW S \in SUBSET Sha, EnqueueParse(S)
  PROVE  /\ \A s \in S : job'[s] # "none"
         /\ \A s \in Sha : job[s] # "none" => job'[s] # "none"
         /\ \A s \in Sha : job'[s] # "none" => job[s] # "none" \/ s \in S
         /\ UNCHANGED <<record, joined, objects, putting, swept>>
  BY DEF EnqueueParse, ArchiveTypeOK

(* A step of the server, of the job queue or of the sweep makes no row and  *)
(* no job, forgets no job, loses no bytes unless puts may fail, and takes   *)
(* only rows it remembers taking.                                           *)
ArchiveKeeps ==
    /\ Registered' \subseteq Registered
    /\ Registered \cup swept \subseteq Registered' \cup swept'
    /\ \A s \in Sha : job[s] = "none" <=> job'[s] = "none"
    /\ ~StorageFaults => objects \cup putting \subseteq objects' \cup putting'
    /\ joined' \subseteq Registered'
    /\ swept' \cup joined' \subseteq objects'

(* The server's steps leave every row in place; a sweep makes no other step. *)
LEMMA ServerKeeps ==
  ASSUME SyncInv,
         \/ PutStep \/ ParseStep
         \/ \E s \in Sha : RemoveJob(s) \/ WorkerStalls(s)
  PROVE  ArchiveKeeps /\ Registered' = Registered
<1> USE DEF ArchiveKeeps
<1>t. /\ ArchiveTypeOK /\ joined \subseteq Registered /\ swept \cup joined \subseteq objects
      /\ \A s \in Sha : job[s] # "none" => s \in Registered \cup swept
  BY DEF SyncInv, TypeOK, QueuedIsRegistered, SweptWasRead
<1>1. ASSUME NEW s \in Sha, PutObject(s) \/ PutObjectFails(s)
      PROVE  ArchiveKeeps /\ Registered' = Registered
  BY <1>1, <1>t DEF PutObject, PutObjectFails, Registered
<1>2. ASSUME NEW s \in Sha, StartParse(s) \/ ReportJob(s) \/ RemoveJob(s) \/ WorkerStalls(s)
      PROVE  ArchiveKeeps /\ Registered' = Registered
  <2>1. /\ UNCHANGED <<record, joined, objects, putting, swept>>
        /\ job[s] # "none" /\ \E end \in JobState \ {"none"} : job' = [job EXCEPT ![s] = end]
    BY <1>2 DEF StartParse, ReportJob, RemoveJob, WorkerStalls, JobState
  <2>2. QED
    BY <2>1, <1>t DEF Registered, ArchiveTypeOK
<1>3. ASSUME NEW s \in Sha, ParseReturns(s) \/ ParseThrows(s), UNCHANGED <<bytesVars, swept>>,
             \/ UNCHANGED job
             \/ job[s] # "none" /\ \E end \in JobState \ {"none"} : job' = [job EXCEPT ![s] = end]
      PROVE  ArchiveKeeps /\ Registered' = Registered
  <2>1. Registered' = Registered /\ joined' \subseteq joined \cup (Registered \cap objects)
    BY <1>3, <1>t, ParseWrites
  <2>2. \A q \in Sha : job[q] = "none" <=> job'[q] = "none"
    BY <1>3, <1>t DEF ArchiveTypeOK
  <2>3. QED
    BY <1>3, <1>t, <2>1, <2>2
<1>4. ASSUME NEW s \in Sha, ParseSucceeds(s) \/ ParseFails(s)
      PROVE  ArchiveKeeps /\ Registered' = Registered
  <2>1. /\ ParseReturns(s) \/ ParseThrows(s)
        /\ job[s] # "none" /\ \E end \in JobState \ {"none"} : job' = [job EXCEPT ![s] = end]
        /\ UNCHANGED <<bytesVars, swept>>
    BY <1>4 DEF ParseSucceeds, ParseFails, JobState
  <2>2. QED
    BY <1>3, <2>1
<1>5. ASSUME NEW s \in Sha, Reprocess(s) \/ StrayEnds(s)
      PROVE  ArchiveKeeps /\ Registered' = Registered
  <2>1. CASE (ParseReturns(s) \/ ParseThrows(s)) /\ UNCHANGED <<bytesVars, jobVars, swept>>
    BY <1>3, <2>1
  <2>2. CASE UNCHANGED <<verdictVars, bytesVars, jobVars, swept>>
    BY <1>t, <2>2 DEF Registered
  <2>3. QED
    BY <1>5, <2>1, <2>2 DEF Reprocess, StrayEnds
<1>6. QED
  BY <1>1, <1>2, <1>4, <1>5 DEF PutStep, ParseStep

LEMMA SweepKeeps ==
  ASSUME SyncInv, NEW rows \in SUBSET Sha, ApplyRetention(rows)
  PROVE  ArchiveKeeps
  BY DEF ApplyRetention, SyncInv, TypeOK, ArchiveTypeOK, QueuedIsRegistered, SweptWasRead,
     Registered, ArchiveKeeps

(* An archive that keeps what it has keeps the invariant, whoever stepped,  *)
(* when the queue and the passes stand still.                               *)
LEMMA KeepsInv ==
  ASSUME SyncInv, TypeOK', ArchiveKeeps, UNCHANGED <<queueVars, passVars>>
  PROVE  SyncInv'
<1> USE HashType DEF SyncInv, ArchiveKeeps
<1>1. ChosenRows'
  BY DEF ChosenRows
<1>2. SettlingIsQueued'
  BY DEF SettlingIsQueued, TypeOK
<1>3. RegisteredIsStored' /\ QueuedIsRegistered' /\ SweptWasRead'
  BY DEF RegisteredIsStored, QueuedIsRegistered, SweptWasRead
<1>4. SyncedIsRegistered' /\ SyncedWasQueued'
  BY DEF SyncedIsRegistered, SyncedWasQueued
<1>5. QED
  BY <1>1, <1>2, <1>3, <1>4

(* A pass that moves without touching the queue or the archive, into        *)
(* anything but "settle", over rows of a batch that holds captured rows.    *)
LEMMA MoveInv ==
  ASSUME SyncInv, TypeOK', ChosenRows', NEW p \in Pass,
         UNCHANGED <<queueVars, archiveVars>>,
         \A q \in Pass : pc'[q] = "settle" => pc[q] = "settle" /\ todo'[q] = todo[q]
  PROVE  SyncInv'
<1> USE DEF SyncInv
<1>1. SettlingIsQueued'
  BY DEF SettlingIsQueued, Registered
<1>2. RegisteredIsStored' /\ QueuedIsRegistered'
  BY DEF RegisteredIsStored, QueuedIsRegistered, Registered
<1>3. SyncedIsRegistered' /\ SweptWasRead' /\ SyncedWasQueued'
  BY DEF SyncedIsRegistered, SweptWasRead, SyncedWasQueued, Registered
<1>4. QED
  BY <1>1, <1>2, <1>3

LEMMA NextSyncInv == SyncInv /\ [Next]_vars => SyncInv'
<1> SUFFICES ASSUME SyncInv, [Next]_vars PROVE SyncInv'
  OBVIOUS
<1>t. TypeOK /\ TypeOK'
  BY NextType DEF SyncInv
<1>c. ChosenRows
  BY DEF SyncInv
<1>1. ASSUME NEW p \in Pass, Begin(p) PROVE SyncInv'
  <2>1. ChosenRows'
    <3>1. PICK B \in PendingBatch : /\ batch' = [batch EXCEPT ![p] = B]
                                    /\ todo' = [todo EXCEPT ![p] = B]
      BY <1>1 DEF Begin
    <3>2. \A a \in B : status[a] # "absent"
      BY DEF PendingBatch, Eligible
    <3>3. cur[p] = NoArtifact
      BY <1>1, <1>c DEF Begin, ChosenRows
    <3>4. QED
      BY <1>1, <3>1, <3>2, <3>3, <1>c, <1>t DEF Begin, Goto, ChosenRows, TypeOK
  <2>2. QED
    BY <1>1, <1>t, <2>1, MoveInv DEF Begin, Goto, TypeOK
<1>2. ASSUME NEW p \in Pass, Delta(p) PROVE SyncInv'
  <2>1. ChosenRows'
    BY <1>2, <1>c DEF Delta, Goto, ChosenRows
  <2>2. QED
    BY <1>2, <1>t, <2>1, MoveInv DEF Delta, Goto, TypeOK
<1>3. ASSUME NEW p \in Pass, DeltaFails(p) PROVE SyncInv'
  <2>1. ChosenRows'
    BY <1>3, <1>c, <1>t DEF DeltaFails, RefuseBatch, Goto, ChosenRows, TypeOK
  <2>2. QED
    BY <1>3, <1>t, <2>1, MoveInv DEF DeltaFails, RefuseBatch, Goto, TypeOK
<1>4. ASSUME NEW p \in Pass, NEW a \in Capture, SkipHeld(p, a) PROVE SyncInv'
  <2>1. ChosenRows'
    BY <1>4, <1>c, <1>t DEF SkipHeld, ChosenRows, TypeOK
  <2>2. QED
    BY <1>4, <1>t, <2>1, MoveInv DEF SkipHeld, TypeOK
<1>5. ASSUME NEW p \in Pass, NEW a \in batch[p], pc[p] \in {"offer", "uploading"}, Lacks(p, a),
             UNCHANGED <<queueVars, archiveVars>>
      PROVE  SyncInv'
  <2>1. ChosenRows'
    BY <1>5, <1>c, <1>t DEF Lacks, Goto, ChosenRows, TypeOK
  <2>2. QED
    BY <1>5, <1>t, <2>1, MoveInv DEF Lacks, Goto, TypeOK
<1>6. ASSUME NEW p \in Pass, NEW a \in Capture, Unreadable(p, a) \/ UploadRefused(p, a) PROVE SyncInv'
  BY <1>5, <1>6, <1>c DEF Unreadable, UploadRefused, ChosenRows
<1>7. ASSUME NEW p \in Pass, UploadFails(p) PROVE SyncInv'
  <2>1. cur[p] \in batch[p]
    BY <1>7, <1>c, <1>t, PassAssumption DEF UploadFails, ChosenRows, TypeOK
  <2>2. QED
    BY <1>5, <1>7, <2>1 DEF UploadFails
<1>8. ASSUME NEW p \in Pass, NEW a \in Capture, Upload(p, a) PROVE SyncInv'
  <2>1. ChosenRows'
    BY <1>8, <1>c, <1>t DEF Upload, Goto, ChosenRows, TypeOK
  <2>2. Registered \subseteq Registered' /\ UNCHANGED <<joined, objects, job, swept>>
    BY <1>8, <1>t DEF Upload, SaveRawArtifact, Registered, TypeOK, ArchiveTypeOK
  <2>3. RegisteredIsStored'
    BY <1>8, <1>t, HashType DEF Upload, SaveRawArtifact, Registered, RegisteredIsStored,
       SyncInv, TypeOK, ArchiveTypeOK
  <2>4. SettlingIsQueued'
    BY <1>8, <1>t, <2>2 DEF Upload, Goto, SettlingIsQueued, SyncInv, TypeOK
  <2>5. QueuedIsRegistered' /\ SyncedIsRegistered' /\ SweptWasRead' /\ SyncedWasQueued'
    BY <1>8, <2>2 DEF Upload, SyncInv, QueuedIsRegistered, SyncedIsRegistered, SweptWasRead, SyncedWasQueued
  <2>6. QED
    BY <1>t, <2>1, <2>3, <2>4, <2>5 DEF SyncInv
<1>9. ASSUME NEW p \in Pass, UploadAnswered(p) PROVE SyncInv'
  <2>1. ChosenRows'
    BY <1>9, <1>c, <1>t DEF UploadAnswered, Goto, ChosenRows, TypeOK
  <2>2. QED
    BY <1>9, <1>t, <2>1, MoveInv DEF UploadAnswered, Goto, TypeOK
<1>10. ASSUME NEW p \in Pass, Charge(p) \/ Recharge(p) PROVE SyncInv'
  <2>1. MarkRetry(cur[p], seen[p]) /\ UNCHANGED <<archiveVars, batch, todo>>
    BY <1>10 DEF Charge, Recharge
  <2>2. ChosenRows'
    <3>1. \A a \in Capture : status[a] # "absent" => status'[a] # "absent"
      BY <2>1, <1>t DEF MarkRetry, TypeOK, QueueTypeOK
    <3>2. \A q \in Pass : cur'[q] \in {cur[q], NoArtifact} /\ (pc'[q] = "idle" => pc[q] = "idle")
      BY <1>10, <1>t DEF Charge, Recharge, Goto, TypeOK
    <3>3. \A q \in Pass : batch[q] \subseteq Capture
      BY <1>t DEF TypeOK
    <3>4. batch' = batch /\ todo' = todo
      BY <2>1
    <3>5. QED
      BY ONLY <1>c, <3>1, <3>2, <3>3, <3>4 DEF ChosenRows
  <2>3. SettlingIsQueued'
    BY <1>10, <2>1, <1>t DEF Charge, Recharge, Goto, SyncInv, SettlingIsQueued, Registered, TypeOK
  <2>4. RegisteredIsStored' /\ QueuedIsRegistered'
    BY <2>1 DEF SyncInv, RegisteredIsStored, QueuedIsRegistered, Registered
  <2>5. SyncedIsRegistered' /\ SweptWasRead' /\ SyncedWasQueued'
    BY <2>1, <1>t DEF MarkRetry, SyncInv, SyncedIsRegistered, SweptWasRead, SyncedWasQueued, Registered,
       TypeOK, QueueTypeOK
  <2>6. QED
    BY <1>t, <2>2, <2>3, <2>4, <2>5 DEF SyncInv
<1>11. ASSUME NEW p \in Pass, ManifestAccepted(p) PROVE SyncInv'
  <2>1. Claimed(p) \in SUBSET Capture /\ Hashes(Claimed(p)) \in SUBSET Sha
    BY <1>t, HashesType DEF Claimed, TypeOK
  <2>2. /\ \A s \in Hashes(Claimed(p)) : job'[s] # "none"
        /\ \A s \in Sha : job[s] # "none" => job'[s] # "none"
        /\ \A s \in Sha : job'[s] # "none" => job[s] # "none" \/ s \in Hashes(Claimed(p))
        /\ UNCHANGED <<record, joined, objects, putting, swept>>
    BY <1>11, <1>t, <2>1, EnqueueParseMeaning DEF ManifestAccepted, TypeOK
  <2>3. Hashes(Claimed(p)) \subseteq Registered
    BY <1>11 DEF ManifestAccepted, DeltaMissing
  <2>4. ChosenRows'
    BY <1>11, <1>c, <1>t DEF ManifestAccepted, Claimed, Goto, ChosenRows, TypeOK
  <2>5. SettlingIsQueued'
    <3>1. ASSUME NEW q \in Pass, pc'[q] = "settle", NEW a \in todo'[q]
          PROVE  Hash(a) \in Registered' \cup swept' /\ job'[Hash(a)] # "none"
      <4>1. CASE q = p
        <5>1. a \in Claimed(p)
          BY <1>11, <1>t, <3>1, <4>1 DEF ManifestAccepted, TypeOK
        <5>2. Hash(a) \in Hashes(Claimed(p))
          BY <5>1 DEF Hashes
        <5>3. QED
          BY <5>2, <2>2, <2>3 DEF Registered
      <4>2. CASE q # p
        BY <1>11, <1>t, <3>1, <4>2, <2>2, HashType
        DEF ManifestAccepted, Goto, SyncInv, SettlingIsQueued, Registered, TypeOK
      <4>3. QED
        BY <4>1, <4>2
    <3>2. QED
      BY <3>1 DEF SettlingIsQueued
  <2>6. RegisteredIsStored' /\ QueuedIsRegistered'
    BY <2>2, <2>3 DEF SyncInv, RegisteredIsStored, QueuedIsRegistered, Registered
  <2>7. SyncedIsRegistered' /\ SweptWasRead' /\ SyncedWasQueued'
    BY <1>11, <2>2, HashType DEF ManifestAccepted, SyncInv, SyncedIsRegistered, SweptWasRead, SyncedWasQueued, Registered
  <2>8. QED
    BY <1>t, <2>4, <2>5, <2>6, <2>7 DEF SyncInv
<1>12. ASSUME NEW p \in Pass, ManifestFails(p) PROVE SyncInv'
  <2>1. /\ Registered' = Registered
        /\ UNCHANGED <<joined, objects, putting, swept>>
        /\ \A s \in Sha : job[s] # "none" => job'[s] # "none"
        /\ \A s \in Sha : job'[s] # "none" => job[s] # "none" \/ s \in Registered
    <3>1. CASE UNCHANGED archiveVars
      BY <3>1 DEF Registered
    <3>2. ASSUME NEW S \in SUBSET (Hashes(Claimed(p)) \cap Registered), EnqueueParse(S)
          PROVE  <2>1!:
      BY <3>2, <1>t, EnqueueParseMeaning DEF Registered, TypeOK
    <3>3. QED
      BY <1>12, <3>1, <3>2 DEF ManifestFails
  <2>2. ChosenRows'
    BY <1>12, <1>c, <1>t DEF ManifestFails, RefuseBatch, Goto, ChosenRows, TypeOK
  <2>3. SettlingIsQueued'
    BY <1>12, <1>t, <2>1, HashType DEF ManifestFails, RefuseBatch, Goto, SyncInv, SettlingIsQueued, TypeOK
  <2>4. RegisteredIsStored' /\ QueuedIsRegistered'
    BY <2>1 DEF SyncInv, RegisteredIsStored, QueuedIsRegistered
  <2>5. SyncedIsRegistered' /\ SweptWasRead' /\ SyncedWasQueued'
    BY <1>12, <2>1, HashType DEF ManifestFails, SyncInv, SyncedIsRegistered, SweptWasRead, SyncedWasQueued
  <2>6. QED
    BY <1>t, <2>2, <2>3, <2>4, <2>5 DEF SyncInv
<1>13. ASSUME NEW p \in Pass, NEW a \in Capture, Refuse(p, a) PROVE SyncInv'
  <2>1. ChosenRows'
    BY <1>13, <1>c, <1>t DEF Refuse, Goto, ChosenRows, TypeOK
  <2>2. QED
    BY <1>13, <1>t, <2>1, MoveInv DEF Refuse, Goto, TypeOK
<1>14. ASSUME NEW p \in Pass, NEW a \in Capture, Settle(p, a) PROVE SyncInv'
  <2>1. Hash(a) \in Registered \cup swept /\ job[Hash(a)] # "none"
    BY <1>14 DEF Settle, SyncInv, SettlingIsQueued
  <2>2. ChosenRows'
    BY <1>14, <1>c, <1>t DEF Settle, MarkSynced, ChosenRows, TypeOK, QueueTypeOK
  <2>3. SettlingIsQueued'
    BY <1>14, <1>t DEF Settle, SyncInv, SettlingIsQueued, Registered, TypeOK
  <2>4. RegisteredIsStored' /\ QueuedIsRegistered'
    BY <1>14 DEF Settle, SyncInv, RegisteredIsStored, QueuedIsRegistered, Registered
  <2>5. SyncedIsRegistered' /\ SweptWasRead' /\ SyncedWasQueued'
    BY <1>14, <1>t, <2>1 DEF Settle, MarkSynced, SyncInv, SyncedIsRegistered, SweptWasRead, SyncedWasQueued,
       Registered, TypeOK, QueueTypeOK
  <2>6. QED
    BY <1>t, <2>2, <2>3, <2>4, <2>5 DEF SyncInv
<1>15. ASSUME NEW p \in Pass, Finish(p) \/ Crash(p) PROVE SyncInv'
  <2>1. Forget(p) /\ UNCHANGED <<queueVars, archiveVars>>
    BY <1>15 DEF Finish, Crash
  <2>2. ChosenRows'
    BY <2>1, <1>c, <1>t DEF Forget, Goto, ChosenRows, TypeOK
  <2>3. QED
    BY <1>t, <2>1, <2>2, MoveInv DEF Forget, Goto, TypeOK
<1>16. ASSUME NEW a \in Capture, CaptureFile(a) \/ WaitOut(a) PROVE SyncInv'
  <2>1. UNCHANGED <<archiveVars, passVars>>
    BY <1>16 DEF CaptureFile, WaitOut
  <2>2. \A b \in Capture : (status[b] # "absent" => status'[b] # "absent")
                            /\ (status'[b] = "synced" => status[b] = "synced")
    <3>1. status \in [Capture -> QueueStatus \cup {"absent"}]
      BY <1>t DEF TypeOK, QueueTypeOK
    <3>2. \/ status' = [status EXCEPT ![a] = IF status[a] = "synced" THEN "synced" ELSE "pending"]
          \/ status' = status
      BY <1>16 DEF CaptureFile, WaitOut, Enqueue, EnqueueInterrupted, BackoffElapses
    <3>3. QED
      BY <3>1, <3>2
  <2>3. ChosenRows'
    <3>1. \A q \in Pass : batch[q] \subseteq Capture
      BY <1>t DEF TypeOK
    <3>2. \A q \in Pass : \A b \in batch'[q] : status'[b] # "absent"
      <4> SUFFICES ASSUME NEW q \in Pass, NEW b \in batch'[q] PROVE status'[b] # "absent"
        OBVIOUS
      <4>1. batch' = batch
        BY <2>1
      <4>2. b \in batch[q] /\ b \in Capture
        BY <3>1, <4>1
      <4>3. status[b] # "absent"
        BY <4>2, <1>c DEF ChosenRows
      <4>4. QED
        BY <2>2, <4>2, <4>3
    <3>3. QED
      BY <2>1, <3>2, <1>c DEF ChosenRows
  <2>4. SettlingIsQueued' /\ RegisteredIsStored' /\ QueuedIsRegistered'
    BY <2>1 DEF SyncInv, SettlingIsQueued, RegisteredIsStored, QueuedIsRegistered, Registered
  <2>5. SyncedIsRegistered' /\ SweptWasRead' /\ SyncedWasQueued'
    BY <2>1, <2>2 DEF SyncInv, SyncedIsRegistered, SweptWasRead, SyncedWasQueued, Registered
  <2>6. QED
    BY <1>t, <2>3, <2>4, <2>5 DEF SyncInv
<1>17. ASSUME NEW s \in Sha, DamageBlob(s) PROVE SyncInv'
  <2>1. UNCHANGED <<archiveVars, passVars, status>>
    BY <1>17 DEF DamageBlob, SpoilBlob
  <2>2. QED
    BY <1>t, <2>1 DEF SyncInv, ChosenRows, SettlingIsQueued, RegisteredIsStored, QueuedIsRegistered,
       SyncedIsRegistered, SweptWasRead, SyncedWasQueued, Registered
<1>18. ASSUME NEW s \in Sha, RetireJob(s) \/ WorkerCrash(s) PROVE SyncInv'
  BY <1>18, <1>t, ServerKeeps, KeepsInv DEF RetireJob, WorkerCrash
<1>19. ASSUME ServerStep PROVE SyncInv'
  BY <1>19, <1>t, ServerKeeps, KeepsInv DEF ServerStep
<1>20. ASSUME NEW rows \in SUBSET Sha, RetentionSweep(rows) PROVE SyncInv'
  BY <1>20, <1>t, SweepKeeps, KeepsInv DEF RetentionSweep
<1>21. CASE UNCHANGED vars
  BY <1>21, <1>t DEF SyncInv, ChosenRows, SettlingIsQueued, RegisteredIsStored, QueuedIsRegistered,
     SyncedIsRegistered, SweptWasRead, SyncedWasQueued, Registered
<1>22. QED
  BY <1>1, <1>2, <1>3, <1>4, <1>6, <1>7, <1>8, <1>9, <1>10, <1>11, <1>12, <1>13,
     <1>14, <1>15, <1>16, <1>17, <1>18, <1>19, <1>20, <1>21 DEF Next, PassStep

(* The inductive invariant of the capture path.                             *)
THEOREM SyncSafe == Spec => []SyncInv
  BY InitSyncInv, NextSyncInv, PTL DEF Spec

(* A synced row's digest has its row on the server unless retention took    *)
(* it, and then it was read first and its bytes are there still: no row is  *)
(* ever marked synced whose digest the server never had.                    *)
THEOREM AcknowledgedIsRegistered ==
    Spec => [](SyncedIsRegistered /\ SweptWasRead)
<1>1. SyncInv => SyncedIsRegistered /\ SweptWasRead
  BY DEF SyncInv
<1>2. QED
  BY <1>1, SyncSafe, PTL

(* No row is ever marked synced whose parse was never queued.               *)
THEOREM AcknowledgedWasQueued == Spec => []SyncedWasQueued
<1>1. SyncInv => SyncedWasQueued
  BY DEF SyncInv
<1>2. QED
  BY <1>1, SyncSafe, PTL

(* Where an object put cannot fail, what is synced is stored or on its way. *)
THEOREM AcknowledgedIsStored == Spec => []SyncedIsStored
<1>1. SyncInv => SyncedIsStored
  BY HashType DEF SyncInv, SyncedIsRegistered, SweptWasRead, RegisteredIsStored, SyncedIsStored
<1>2. QED
  BY <1>1, SyncSafe, PTL

-----------------------------------------------------------------------------
(* The capture path implements CapturePromise.                              *)

(* Steps of everyone but the manifest, an upload, a capture and the agent's *)
(* UPDATEs leave the promise where it was.                                  *)
LEMMA PromiseStutters ==
  ASSUME status' = status, Registered' = Registered, joined' = joined,
         \A s \in Sha : job[s] = "none" <=> job'[s] = "none"
  PROVE  UNCHANGED Promise!promiseVars
  BY DEF Promise!promiseVars

(* Queueing the parses of registered digests asks for exactly those.        *)
LEMMA PromiseAsks ==
  ASSUME ArchiveTypeOK, NEW S \in SUBSET Registered, EnqueueParse(S), status' = status
  PROVE  Promise!Next
<1>1. S \in SUBSET Sha
  BY DEF Registered
<1>2. /\ \A s \in S : job'[s] # "none"
      /\ \A s \in Sha : job[s] # "none" => job'[s] # "none"
      /\ \A s \in Sha : job'[s] # "none" => job[s] # "none" \/ s \in S
      /\ UNCHANGED <<record, joined, objects, putting, swept>>
  BY <1>1, EnqueueParseMeaning
<1>3. Promise!AskParse(S)
  BY <1>1, <1>2 DEF Promise!AskParse, Registered
<1>4. QED
  BY <1>1, <1>3 DEF Promise!Next

(* mark_retry offers a row again, or changes nothing the promise sees.      *)
LEMMA PromiseOffers ==
  ASSUME TypeOK, NEW a \in Capture, status[a] # "absent", NEW n \in Nat, MarkRetry(a, n),
         UNCHANGED archiveVars
  PROVE  Promise!Next
<1>1. Promise!OfferAgain(a)
  BY DEF Promise!OfferAgain, MarkRetry, TypeOK, QueueTypeOK, Registered
<1>2. QED
  BY <1>1 DEF Promise!Next

LEMMA NextPromise == SyncInv /\ [Next]_vars => [Promise!Next]_(Promise!promiseVars)
<1> SUFFICES ASSUME SyncInv, [Next]_vars PROVE Promise!Next \/ UNCHANGED Promise!promiseVars
  OBVIOUS
<1>t. TypeOK /\ ArchiveTypeOK
  BY DEF SyncInv, TypeOK
<1>c. ChosenRows
  BY DEF SyncInv
<1>1. CASE UNCHANGED <<status, record, joined, job>>
  BY <1>1, PromiseStutters DEF Registered
<1>2. ASSUME NEW p \in Pass, NEW a \in Capture, Upload(p, a)
      PROVE  Promise!Next \/ UNCHANGED Promise!promiseVars
  <2>1. status[a] # "absent"
    BY <1>2, <1>c DEF Upload, ChosenRows
  <2>2. Registered' = Registered \cup {Hash(a)} /\ UNCHANGED <<status, joined, job>>
    BY <1>2, <1>t, HashType DEF Upload, SaveRawArtifact, Registered, ArchiveTypeOK
  <2>3. Promise!Hold(Hash(a))
    BY <2>1, <2>2 DEF Promise!Hold, Promise!Hashes, Promise!Hash, Hash
  <2>4. QED
    BY <2>3, HashType DEF Promise!Next
<1>3. ASSUME NEW p \in Pass, Charge(p) \/ Recharge(p) PROVE Promise!Next
  <2>1. cur[p] \in Capture /\ status[cur[p]] # "absent" /\ seen[p] \in Nat
    BY <1>3, <1>c, <1>t, PassAssumption DEF Charge, Recharge, ChosenRows, TypeOK
  <2>2. MarkRetry(cur[p], seen[p]) /\ UNCHANGED archiveVars
    BY <1>3 DEF Charge, Recharge
  <2>3. QED
    BY <1>t, <2>1, <2>2, PromiseOffers
<1>4. ASSUME NEW p \in Pass, ManifestAccepted(p) PROVE Promise!Next
  <2>1. Hashes(Claimed(p)) \in SUBSET Registered
    BY <1>4 DEF ManifestAccepted, DeltaMissing
  <2>2. QED
    BY <1>4, <1>t, <2>1, PromiseAsks DEF ManifestAccepted
<1>5. ASSUME NEW p \in Pass, ManifestFails(p)
      PROVE  Promise!Next \/ UNCHANGED Promise!promiseVars
  <2>1. CASE UNCHANGED archiveVars
    BY <1>1, <1>5, <2>1 DEF ManifestFails
  <2>2. ASSUME NEW S \in SUBSET (Hashes(Claimed(p)) \cap Registered), EnqueueParse(S)
        PROVE  Promise!Next
    BY <1>5, <1>t, <2>2, PromiseAsks DEF ManifestFails
  <2>3. QED
    BY <1>5, <2>1, <2>2 DEF ManifestFails
<1>6. ASSUME NEW p \in Pass, NEW a \in Capture, Settle(p, a) PROVE Promise!Next
  <2>1. job[Hash(a)] # "none" /\ status[a] # "absent"
    BY <1>6, <1>c DEF Settle, ChosenRows, SyncInv, SettlingIsQueued
  <2>2. MarkSynced(a) /\ UNCHANGED archiveVars
    BY <1>6 DEF Settle
  <2>3. Promise!Acknowledge(a)
    BY <1>t, <2>1, <2>2, HashType DEF Promise!Acknowledge, Promise!Hash, Hash, MarkSynced, TypeOK, QueueTypeOK, Registered
  <2>4. QED
    BY <2>3 DEF Promise!Next
<1>7. ASSUME NEW a \in Capture, CaptureFile(a) \/ WaitOut(a)
      PROVE  Promise!Next \/ UNCHANGED Promise!promiseVars
  <2>1. CASE Enqueue(a) /\ UNCHANGED archiveVars
    <3>1. status' = [status EXCEPT ![a] = IF status[a] = "synced" THEN "synced" ELSE "pending"]
      BY <2>1 DEF Enqueue
    <3>2. Promise!TakeIn(a)
      BY <1>t, <2>1, <3>1 DEF Promise!TakeIn, TypeOK, QueueTypeOK, Registered
    <3>3. QED
      BY <3>2 DEF Promise!Next
  <2>2. CASE UNCHANGED <<status, archiveVars>>
    BY <1>1, <2>2
  <2>3. QED
    BY <1>7, <2>1, <2>2 DEF CaptureFile, WaitOut, EnqueueInterrupted, BackoffElapses
<1>8. ASSUME NEW s \in Sha, RetireJob(s) \/ WorkerCrash(s) PROVE UNCHANGED Promise!promiseVars
  <2>1. UNCHANGED <<status, joined>>
    BY <1>8 DEF RetireJob, WorkerCrash, RemoveJob, WorkerStalls
  <2>2. QED
    BY <1>8, <2>1, ServerKeeps, PromiseStutters DEF RetireJob, WorkerCrash, ArchiveKeeps
<1>9. ASSUME ServerStep PROVE Promise!Next \/ UNCHANGED Promise!promiseVars
  <2>1. /\ UNCHANGED status /\ Registered' = Registered
        /\ \A s \in Sha : job[s] = "none" <=> job'[s] = "none"
    BY <1>9, ServerKeeps DEF ServerStep, ArchiveKeeps
  <2>2. CASE UNCHANGED joined
    BY <2>1, <2>2, PromiseStutters
  <2>3. ASSUME NEW s \in Sha, ParseReturns(s) \/ ParseThrows(s), ~UNCHANGED joined PROVE Promise!Next
    <3>1. s \in Registered /\ joined' \in {joined \cup {s}, joined \ {s}}
      BY <2>3 DEF ParseReturns, ParseThrows, UpdateRawArtifact
    <3>2. Promise!Read(s)
      BY <2>1, <3>1 DEF Promise!Read
    <3>3. QED
      BY <3>2 DEF Promise!Next
  <2>4. \/ UNCHANGED joined
        \/ \E s \in Sha : ParseReturns(s) \/ ParseThrows(s)
    BY <1>9 DEF ServerStep, PutStep, ParseStep, PutObject, PutObjectFails, StartParse, ReportJob,
       ParseSucceeds, ParseFails, Reprocess, StrayEnds
  <2>5. QED
    BY <2>2, <2>3, <2>4
<1>10. ASSUME NEW p \in Pass, NEW a \in Capture,
              SkipHeld(p, a) \/ Unreadable(p, a) \/ UploadRefused(p, a) \/ Refuse(p, a)
       PROVE  UNCHANGED <<status, record, joined, job>>
  BY <1>10 DEF SkipHeld, Unreadable, UploadRefused, Refuse
<1>11. ASSUME NEW p \in Pass,
              \/ Begin(p) \/ Delta(p) \/ DeltaFails(p) \/ UploadAnswered(p) \/ UploadFails(p)
              \/ Finish(p) \/ Crash(p)
       PROVE  UNCHANGED <<status, record, joined, job>>
  BY <1>11 DEF Begin, Delta, DeltaFails, UploadAnswered, UploadFails, Finish, Crash
<1>12. ASSUME NEW s \in Sha, DamageBlob(s) PROVE UNCHANGED <<status, record, joined, job>>
  BY <1>12 DEF DamageBlob, SpoilBlob
<1>13. ASSUME NEW rows \in SUBSET Sha, RetentionSweep(rows) PROVE Promise!Next
  <2>1. /\ rows \subseteq joined /\ joined' = joined \ rows /\ UNCHANGED <<status, job>>
        /\ Registered' = Registered \ rows
    BY <1>13, <1>t DEF RetentionSweep, ApplyRetention, Registered, ArchiveTypeOK
  <2>2. Promise!Expire(rows)
    BY <2>1 DEF Promise!Expire
  <2>3. QED
    BY <2>2 DEF Promise!Next
<1>14. CASE UNCHANGED vars
  BY <1>1, <1>14
<1>15. QED
  BY <1>1, <1>2, <1>3, <1>4, <1>5, <1>6, <1>7, <1>8, <1>9, <1>10, <1>11, <1>12, <1>13, <1>14
  DEF Next, PassStep

(* Every behaviour of the capture path is one of CapturePromise: no row is  *)
(* acknowledged before its digest was held and its parse queued, nothing    *)
(* captured or queued is taken back, and what the server holds is taken     *)
(* back by retention alone, and only once it was read into sessions.        *)
THEOREM PromiseRefined == Spec => PromiseKept
<1>1. Init => Promise!Init
  BY DEF Init, QueueInit, ArchiveInit, Promise!Init, Registered
<1>2. QED
  BY <1>1, NextPromise, SyncSafe, PTL DEF Spec, PromiseKept, Promise!Spec

-----------------------------------------------------------------------------
(* One process alone never takes an acknowledgement back.                   *)

AloneInv == SyncInv /\ HoldsUnsynced

LEMMA NextHoldsUnsynced ==
  ASSUME \A p, q \in Pass : p = q, AloneInv, [Next]_vars
  PROVE  AloneInv' /\ (\A a \in Capture : status[a] = "synced" => status'[a] = "synced")
<1> DEFINE Keeps == \A a \in Capture : status[a] = "synced" => status'[a] = "synced"
<1> SUFFICES HoldsUnsynced' /\ Keeps
  BY NextSyncInv DEF AloneInv
<1>t. TypeOK /\ TypeOK' /\ ChosenRows /\ HoldsUnsynced
  BY NextSyncInv DEF AloneInv, SyncInv
<1> USE <1>t DEF TypeOK, QueueTypeOK
<1>1. ASSUME NEW p \in Pass, Begin(p) PROVE HoldsUnsynced' /\ Keeps
  <2>1. PICK B \in PendingBatch : batch' = [batch EXCEPT ![p] = B]
    BY <1>1 DEF Begin
  <2>2. \A a \in B : status[a] # "synced"
    BY DEF PendingBatch, Eligible
  <2>3. UNCHANGED status
    BY <1>1 DEF Begin
  <2>4. \A q \in Pass : q = p
    OBVIOUS
  <2>5. QED
    BY <2>1, <2>2, <2>3, <2>4 DEF HoldsUnsynced
<1>2. ASSUME NEW p \in Pass, UNCHANGED <<status, batch>>, pc[p] # "settle"
      PROVE  HoldsUnsynced' /\ Keeps
  BY <1>2 DEF HoldsUnsynced
<1>3. ASSUME NEW p \in Pass, Charge(p) \/ Recharge(p) PROVE HoldsUnsynced' /\ Keeps
  <2>1. cur[p] \in batch[p] /\ pc[p] # "settle" /\ UNCHANGED batch
    BY <1>3, PassAssumption DEF Charge, Recharge, ChosenRows
  <2>2. status' = [status EXCEPT ![cur[p]] = "retry"]
    BY <1>3 DEF Charge, Recharge, MarkRetry
  <2>3. status[cur[p]] # "synced"
    BY <2>1 DEF HoldsUnsynced
  <2>4. Keeps
    BY <2>2, <2>3
  <2>5. \A q \in Pass : q = p
    OBVIOUS
  <2>6. \A q \in Pass : \A a \in batch'[q] : status'[a] # "synced"
    BY <2>1, <2>2, <2>5 DEF HoldsUnsynced
  <2>7. QED
    BY <2>4, <2>6 DEF HoldsUnsynced
<1>4. ASSUME NEW p \in Pass, NEW a \in Capture, Settle(p, a) PROVE HoldsUnsynced' /\ Keeps
  <2>1. pc'[p] = "settle" /\ \A q \in Pass : q = p
    BY <1>4 DEF Settle
  <2>2. status' = [status EXCEPT ![a] = "synced"]
    BY <1>4 DEF Settle, MarkSynced
  <2>3. QED
    BY <2>1, <2>2 DEF HoldsUnsynced
<1>5. ASSUME NEW p \in Pass, Finish(p) \/ Crash(p) PROVE HoldsUnsynced' /\ Keeps
  <2>1. batch'[p] = {} /\ (\A q \in Pass : q = p) /\ UNCHANGED status
    BY <1>5 DEF Finish, Crash, Forget
  <2>2. QED
    BY <2>1 DEF HoldsUnsynced
<1>6. ASSUME NEW a \in Capture, CaptureFile(a) \/ WaitOut(a) PROVE HoldsUnsynced' /\ Keeps
  <2>1. UNCHANGED <<pc, batch>>
    BY <1>6 DEF CaptureFile, WaitOut
  <2>2. \/ status' = [status EXCEPT ![a] = IF status[a] = "synced" THEN "synced" ELSE "pending"]
        \/ status' = status
    BY <1>6 DEF CaptureFile, WaitOut, Enqueue, EnqueueInterrupted, BackoffElapses
  <2>3. \A b \in Capture : status'[b] = "synced" <=> status[b] = "synced"
    BY <2>2
  <2>4. QED
    BY <2>1, <2>3 DEF HoldsUnsynced
<1>7. ASSUME UNCHANGED <<status, pc, batch>> PROVE HoldsUnsynced' /\ Keeps
  BY <1>7 DEF HoldsUnsynced
<1>8. ASSUME NEW p \in Pass, NEW a \in Capture,
             SkipHeld(p, a) \/ Unreadable(p, a) \/ Upload(p, a) \/ UploadRefused(p, a) \/ Refuse(p, a)
      PROVE  HoldsUnsynced' /\ Keeps
  BY <1>2, <1>8 DEF SkipHeld, Unreadable, Upload, UploadRefused, Refuse, Lacks
<1>9. ASSUME NEW p \in Pass,
             \/ Delta(p) \/ DeltaFails(p) \/ UploadAnswered(p) \/ UploadFails(p)
             \/ ManifestAccepted(p) \/ ManifestFails(p)
      PROVE  HoldsUnsynced' /\ Keeps
  BY <1>2, <1>9 DEF Delta, DeltaFails, UploadAnswered, UploadFails, ManifestAccepted,
     ManifestFails, RefuseBatch, Lacks
<1>10. ASSUME \/ \E s \in Sha : DamageBlob(s) \/ RetireJob(s) \/ WorkerCrash(s)
              \/ \E rows \in SUBSET Sha : RetentionSweep(rows)
              \/ ServerStep
              \/ UNCHANGED vars
       PROVE  HoldsUnsynced' /\ Keeps
  BY <1>7, <1>10 DEF DamageBlob, SpoilBlob, RetireJob, WorkerCrash, RetentionSweep, ServerStep
<1>11. QED
  BY <1>1, <1>3, <1>4, <1>5, <1>6, <1>8, <1>9, <1>10 DEF Next, PassStep

(* Where one process syncs, a row that was acknowledged stays so.           *)
THEOREM AloneNeverReopens ==
  ASSUME \A p, q \in Pass : p = q
  PROVE  Spec => NoReopen
<1>1. Init => AloneInv
  BY InitSyncInv DEF Init, AloneInv, HoldsUnsynced
<1>2. AloneInv /\ [Next]_vars => AloneInv'
  BY NextHoldsUnsynced
<1>3. AloneInv /\ [Next]_vars =>
        [\A a \in Capture : status[a] = "synced" => status'[a] = "synced"]_vars
  BY NextHoldsUnsynced
<1>4. QED
  BY <1>1, <1>2, <1>3, PTL DEF Spec, NoReopen

-----------------------------------------------------------------------------
(* The verdict of a finished job.                                           *)

(* The two halves of the argument for one digest.                           *)
Speaks(s) ==
    /\ job[s] \in {"none", "removed"} => tries[s] = 0
    /\ job[s] \in {"done", "thrown", "completed", "failed", "removed"} \/ tries[s] > 0
          => s \in unsaid \cup swept \/ record[s] \in {"parsed", "unknown_format", "failed"}

VerdictInv == SyncInv /\ \A s \in Sha : Speaks(s)

(* A step that leaves a digest's job and record alone and forgives nothing. *)
Passes(s) ==
    /\ record'[s] = record[s] /\ job'[s] = job[s] /\ tries'[s] = tries[s]
    /\ s \in unsaid \cup swept => s \in unsaid' \cup swept'

LEMMA PassesSpeaks == ASSUME NEW s \in Sha, Speaks(s), Passes(s) PROVE Speaks(s)'
  BY DEF Speaks, Passes

(* What one digest's own step leaves of it.                                 *)
LEMMA JobSpeaks ==
  ASSUME ArchiveTypeOK, NEW s \in Sha, \A t \in Sha : Speaks(t),
         job[s] # "none" => s \in Registered \cup swept,
         StartParse(s) \/ ReportJob(s) \/ WorkerStalls(s) \/ RemoveJob(s)
  PROVE  \A t \in Sha : Speaks(t)'
<1>1. ASSUME NEW t \in Sha, t # s PROVE Speaks(t)'
  <2>1. Passes(t)
    BY <1>1 DEF Passes, StartParse, ReportJob, WorkerStalls, RemoveJob, ArchiveTypeOK
  <2>2. QED
    BY <2>1, PassesSpeaks
<1>2. CASE StartParse(s)
  <2>1. /\ job'[s] = IF s \in Registered THEN "parsing" ELSE "thrown"
        /\ job[s] = "waiting" /\ UNCHANGED <<record, tries, unsaid, swept>>
    BY <1>2 DEF StartParse, ArchiveTypeOK
  <2>2. QED
    BY <1>1, <2>1 DEF Speaks
<1>3. CASE ReportJob(s)
  <2>1. \/ job[s] = "done" /\ job'[s] = "completed" /\ tries'[s] = tries[s]
        \/ job[s] = "thrown" /\ job'[s] \in {"waiting", "failed"} /\ tries'[s] \in Nat
    BY <1>3, JobAttemptsAssumption DEF ReportJob, ArchiveTypeOK
  <2>2. UNCHANGED <<record, unsaid, swept>>
    BY <1>3 DEF ReportJob
  <2>3. QED
    BY <1>1, <2>1, <2>2 DEF Speaks
<1>4. CASE WorkerStalls(s)
  <2>1. /\ \/ job'[s] = "waiting" /\ UNCHANGED unsaid
           \/ job'[s] = "failed" /\ s \in unsaid'
        /\ UNCHANGED <<record, tries, swept>>
    BY <1>4 DEF WorkerStalls, ArchiveTypeOK
  <2>2. QED
    BY <1>1, <2>1 DEF Speaks
<1>5. CASE RemoveJob(s)
  <2>1. /\ job[s] \in {"completed", "failed"} /\ job'[s] = "removed" /\ tries'[s] = 0
        /\ UNCHANGED <<record, unsaid, swept>>
    BY <1>5 DEF RemoveJob, ArchiveTypeOK
  <2>2. QED
    BY <1>1, <2>1 DEF Speaks
<1>6. QED
  BY <1>2, <1>3, <1>4, <1>5

(* What a parse writes speaks, or its row is gone, or it says it could not. *)
LEMMA ParseSpeaks ==
  ASSUME ArchiveTypeOK, NEW s \in Sha, \A t \in Sha : Speaks(t),
         job[s] # "none" => s \in Registered \cup swept,
         ParseReturns(s) \/ ParseThrows(s), UNCHANGED <<tries, swept>>,
         \/ UNCHANGED job
         \/ job[s] = "parsing" /\ \E end \in {"done", "thrown"} : job' = [job EXCEPT ![s] = end]
  PROVE  \A t \in Sha : Speaks(t)'
<1>w. /\ \A t \in Sha \ {s} : record'[t] = record[t]
      /\ \A t \in Sha \ {s} : t \notin unsaid' => t \notin unsaid
      /\ s \in Registered /\ s \notin unsaid' => record'[s] \in {"parsed", "unknown_format", "failed"}
  BY ParseWrites
<1>1. ASSUME NEW t \in Sha, t # s PROVE Speaks(t)'
  <2>1. Passes(t)
    BY <1>1, <1>w DEF Passes, ArchiveTypeOK
  <2>2. QED
    BY <2>1, PassesSpeaks
<1>2. Speaks(s)'
  <2>1. /\ job'[s] \in {"none", "removed"} => job'[s] = job[s]
        /\ job[s] = "none" <=> job'[s] = "none"
    BY DEF ArchiveTypeOK
  <2>2. CASE job[s] = "none"
    <3>1. tries'[s] = 0 /\ job'[s] = "none"
      BY <2>1, <2>2 DEF Speaks
    <3>2. QED
      BY <3>1 DEF Speaks
  <2>3. CASE s \in swept
    BY <2>1, <2>3 DEF Speaks
  <2>4. CASE s \in Registered
    BY <1>w, <2>1, <2>4 DEF Speaks
  <2>5. QED
    BY <2>2, <2>3, <2>4
<1>3. QED
  BY <1>1, <1>2

LEMMA NextVerdict == VerdictInv /\ [Next]_vars => VerdictInv'
<1> SUFFICES ASSUME VerdictInv, [Next]_vars PROVE \A s \in Sha : Speaks(s)'
  BY NextSyncInv DEF VerdictInv
<1>t. /\ ArchiveTypeOK /\ \A s \in Sha : Speaks(s)
      /\ \A s \in Sha : job[s] # "none" => s \in Registered \cup swept
  BY DEF VerdictInv, SyncInv, TypeOK, QueuedIsRegistered
<1>1. ASSUME \A s \in Sha : Passes(s) PROVE \A s \in Sha : Speaks(s)'
  BY <1>1, <1>t, PassesSpeaks
<1>2. ASSUME NEW p \in Pass, NEW a \in Capture, Upload(p, a) PROVE \A s \in Sha : Speaks(s)'
  <2>1. Hash(a) \in Sha /\ SaveRawArtifact(Hash(a))
    BY <1>2, HashType DEF Upload
  <2>2. UNCHANGED <<unsaid, job, tries, swept>>
    BY <2>1 DEF SaveRawArtifact
  <2>3. ASSUME NEW s \in Sha PROVE Speaks(s)'
    <3>1. CASE record'[s] = record[s]
      BY <1>t, <2>2, <3>1, PassesSpeaks DEF Passes
    <3>2. CASE record'[s] # record[s]
      <4>1. s \notin Registered
        BY <1>t, <2>1, <3>2 DEF SaveRawArtifact, ArchiveTypeOK
      <4>2. s \in swept \/ job[s] = "none"
        BY <1>t, <4>1
      <4>3. QED
        BY <1>t, <2>2, <4>2 DEF Speaks
    <3>3. QED
      BY <3>1, <3>2
  <2>4. QED
    BY <2>3
<1>3. ASSUME NEW S \in SUBSET Sha, EnqueueParse(S) PROVE \A s \in Sha : Speaks(s)'
  <2>1. \A s \in Sha : job'[s] = job[s] \/ (job[s] \in {"none", "removed"} /\ job'[s] = "waiting")
    BY <1>3, <1>t DEF EnqueueParse, ArchiveTypeOK
  <2>2. UNCHANGED <<record, tries, unsaid, swept>>
    BY <1>3 DEF EnqueueParse
  <2>3. QED
    BY <1>t, <2>1, <2>2 DEF Speaks
<1>4. ASSUME NEW p \in Pass, ManifestAccepted(p) \/ ManifestFails(p) PROVE \A s \in Sha : Speaks(s)'
  <2>1. Hashes(Claimed(p)) \in SUBSET Sha
    BY HashesType DEF Claimed, VerdictInv, SyncInv, TypeOK
  <2>2. CASE UNCHANGED archiveVars
    BY <1>1, <2>2 DEF Passes
  <2>3. CASE \E S \in SUBSET Hashes(Claimed(p)) : EnqueueParse(S)
    BY <1>3, <2>1, <2>3
  <2>4. QED
    BY <1>4, <2>2, <2>3 DEF ManifestAccepted, ManifestFails
<1>5. ASSUME NEW s \in Sha, RetireJob(s) \/ WorkerCrash(s) PROVE \A t \in Sha : Speaks(t)'
  BY <1>5, <1>t, JobSpeaks DEF RetireJob, WorkerCrash
<1>6. ASSUME ServerStep PROVE \A s \in Sha : Speaks(s)'
  <2>1. ASSUME NEW s \in Sha, StartParse(s) \/ ReportJob(s) PROVE \A t \in Sha : Speaks(t)'
    BY <2>1, <1>t, JobSpeaks
  <2>2. ASSUME NEW s \in Sha, ParseSucceeds(s) \/ ParseFails(s) PROVE \A t \in Sha : Speaks(t)'
    <3>1. /\ ParseReturns(s) \/ ParseThrows(s)
          /\ job[s] = "parsing" /\ \E end \in {"done", "thrown"} : job' = [job EXCEPT ![s] = end]
          /\ UNCHANGED <<tries, swept>>
      BY <2>2 DEF ParseSucceeds, ParseFails
    <3>2. QED
      BY <3>1, <1>t, ParseSpeaks
  <2>3. ASSUME NEW s \in Sha, StrayEnds(s), ParseReturns(s) \/ ParseThrows(s)
        PROVE  \A t \in Sha : Speaks(t)'
    BY <2>3, <1>t, ParseSpeaks DEF StrayEnds
  <2>4. CASE UNCHANGED <<verdictVars, jobVars, swept>>
    BY <1>1, <2>4 DEF Passes
  <2>5. QED
    BY <1>6, <2>1, <2>2, <2>3, <2>4 DEF ServerStep, PutStep, PutObject, PutObjectFails, ParseStep,
       Reprocess, StrayEnds
<1>7. ASSUME NEW rows \in SUBSET Sha, RetentionSweep(rows) PROVE \A s \in Sha : Speaks(s)'
  <2>1. /\ UNCHANGED <<job, tries, unsaid>> /\ swept' = swept \cup rows
        /\ \A s \in Sha \ rows : record'[s] = record[s]
    BY <1>7 DEF RetentionSweep, ApplyRetention
  <2>2. QED
    BY <1>t, <2>1 DEF Speaks
<1>8. ASSUME NEW p \in Pass, NEW a \in Capture,
             \/ SkipHeld(p, a) \/ Unreadable(p, a) \/ UploadRefused(p, a)
             \/ Refuse(p, a) \/ Settle(p, a)
      PROVE  UNCHANGED archiveVars
  BY <1>8 DEF SkipHeld, Unreadable, UploadRefused, Refuse, Settle
<1>9. ASSUME NEW p \in Pass,
             \/ Begin(p) \/ Delta(p) \/ DeltaFails(p) \/ UploadAnswered(p) \/ UploadFails(p)
             \/ Charge(p) \/ Recharge(p) \/ Finish(p) \/ Crash(p)
      PROVE  UNCHANGED archiveVars
  BY <1>9 DEF Begin, Delta, DeltaFails, UploadAnswered, UploadFails, Charge, Recharge,
     Finish, Crash
<1>10. ASSUME \/ \E a \in Capture : CaptureFile(a) \/ WaitOut(a)
              \/ \E s \in Sha : DamageBlob(s)
              \/ UNCHANGED vars
       PROVE  UNCHANGED archiveVars
  BY <1>10 DEF CaptureFile, WaitOut, DamageBlob
<1>11. ASSUME UNCHANGED archiveVars PROVE \A s \in Sha : Speaks(s)'
  BY <1>1, <1>11 DEF Passes
<1>12. QED
  BY <1>2, <1>4, <1>5, <1>6, <1>7, <1>8, <1>9, <1>10, <1>11 DEF Next, PassStep

(* What the queue has finished with, its row speaks of: whichever uploads,  *)
(* manifests, retries, stalls and parses outside the queue's hold came      *)
(* meanwhile, unless recordFailure could not write, the queue gave the job  *)
(* up without a try, or retention took the row (pipeline.ts:91-121).        *)
THEOREM FinishedJobsSpeak == Spec => []JobLeavesVerdict
<1>1. Init => VerdictInv
  BY InitSyncInv DEF VerdictInv, Speaks, Init, ArchiveInit
<1>2. VerdictInv => JobLeavesVerdict
  BY DEF VerdictInv, Speaks, JobLeavesVerdict
<1>3. QED
  BY <1>1, <1>2, NextVerdict, PTL DEF Spec

-----------------------------------------------------------------------------
(* Giving up is near.  For one row a and one pass p there are four kinds of *)
(* step of p, and every step of p is one of them for every row.             *)

Charges == <<attempts, pc, batch, todo, cur, seen>>

(* p owes no more than before, and is not newly charging.                   *)
Moves(p, a) ==
    /\ attempts'[a] = attempts[a]
    /\ Owed(p, a)' <= Owed(p, a)
    /\ Charging(p, a)' => Charging(p, a) /\ seen'[p] = seen[p]

(* p chose the row, and may charge it twice.                                *)
Chooses(p, a) ==
    /\ attempts[a] < MaxAttempts
    /\ attempts'[a] = attempts[a]
    /\ Owed(p, a)' = 2
    /\ ~Charging(p, a)'

(* mark_retry's SELECT of the row.                                          *)
Selects(p, a) ==
    /\ attempts'[a] = attempts[a]
    /\ Owed(p, a)' <= Owed(p, a)
    /\ seen'[p] = attempts[a]

(* mark_retry's UPDATE of the row.                                          *)
Updates(p, a) ==
    /\ Charging(p, a)
    /\ attempts'[a] = seen[p] + 1
    /\ Owed(p, a)' + 1 <= Owed(p, a)
    /\ ~Charging(p, a)'

ChargeStep(p, a) == Moves(p, a) \/ Chooses(p, a) \/ Selects(p, a) \/ Updates(p, a)

(* q neither moved nor saw anything.                                        *)
Rests(q, a) ==
    /\ Owed(q, a)' = Owed(q, a)
    /\ Charging(q, a)' <=> Charging(q, a)
    /\ seen'[q] = seen[q]

LEMMA OwedType == \A p \in Pass, a \in Capture : Owed(p, a) \in 0..2
  BY DEF Owed

LEMMA OwedTypeNext == \A p \in Pass, a \in Capture : Owed(p, a)' \in 0..2
  BY DEF Owed

(* A step of p as p sees it.                                                *)
LEMMA PassCharges ==
  ASSUME TypeOK, ChosenRows, VisitedOnce, NEW p \in Pass, PassStep(p) \/ Crash(p), NEW a \in Capture
  PROVE  ChargeStep(p, a)
<1> USE DEF TypeOK, QueueTypeOK, PassPC, ChargeStep, Goto, Owed, Charging
<1>c. todo[p] \subseteq batch[p]
  BY DEF ChosenRows
<1>1. CASE Begin(p)
  <2>1. PICK B \in PendingBatch : /\ batch' = [batch EXCEPT ![p] = B]
                                  /\ todo' = [todo EXCEPT ![p] = B]
    BY <1>1 DEF Begin
  <2>2. pc'[p] = "delta" /\ UNCHANGED <<attempts, cur, seen>>
    BY <1>1 DEF Begin
  <2>3. CASE a \in B
    <3>1. attempts[a] < MaxAttempts
      BY <2>3 DEF PendingBatch, Eligible
    <3>2. Chooses(p, a)
      BY <2>1, <2>2, <2>3, <3>1 DEF Chooses
    <3>3. QED
      BY <3>2
  <2>4. CASE a \notin B
    <3>1. Moves(p, a)
      BY <1>1, <2>1, <2>2, <2>4 DEF Moves, Begin
    <3>2. QED
      BY <3>1
  <2>5. QED
    BY <2>3, <2>4
<1>2. CASE Delta(p) \/ UploadAnswered(p) \/ ManifestAccepted(p)
  BY <1>2, <1>c DEF Moves, Delta, UploadAnswered, ManifestAccepted, Claimed
<1>3. ASSUME pc[p] \in {"delta", "offer"}, RefuseBatch(p), UNCHANGED queueVars PROVE Moves(p, a)
  BY <1>3, <1>c DEF Moves, RefuseBatch
<1>4. CASE DeltaFails(p) \/ ManifestFails(p)
  BY <1>3, <1>4 DEF DeltaFails, ManifestFails
<1>5. ASSUME NEW b \in Capture, SkipHeld(p, b) \/ Upload(p, b) \/ Settle(p, b) PROVE Moves(p, a)
  BY <1>5, <1>c DEF Moves, SkipHeld, Upload, Settle, MarkSynced
<1>6. ASSUME NEW b \in Capture, Lacks(p, b), UNCHANGED queueVars,
             \/ pc[p] = "offer" /\ b \in todo[p]
             \/ pc[p] = "uploading" /\ b = cur[p]
      PROVE  Moves(p, a) \/ Selects(p, a)
  <2>1. CASE a = b
    BY <1>6, <1>c, <2>1 DEF Selects, Lacks
  <2>2. CASE a # b
    BY <1>6, <1>c, <2>2 DEF Moves, Lacks
  <2>3. QED
    BY <2>1, <2>2
<1>7. CASE UploadFails(p)
  BY <1>6, <1>7 DEF UploadFails
<1>8. ASSUME NEW b \in Capture, Unreadable(p, b) \/ UploadRefused(p, b) PROVE Moves(p, a) \/ Selects(p, a)
  BY <1>6, <1>8 DEF Unreadable, UploadRefused
<1>9. CASE Charge(p) \/ Recharge(p)
  <2>1. /\ cur[p] \in Capture /\ cur[p] # NoArtifact
        /\ attempts' = [attempts EXCEPT ![cur[p]] = seen[p] + 1]
        /\ UNCHANGED <<todo, batch>>
        /\ cur'[p] = NoArtifact
    BY <1>9, PassAssumption DEF Charge, Recharge, MarkRetry
  <2>2. CASE a = cur[p]
    <3>1. a \notin todo[p]
      BY <1>9, <2>2 DEF VisitedOnce, Charge, Recharge
    <3>2. QED
      BY <1>9, <1>c, <2>1, <2>2, <3>1 DEF Updates, Charge, Recharge
  <2>3. CASE a # cur[p]
    BY <1>9, <1>c, <2>1, <2>3, PassAssumption DEF Moves, Charge, Recharge
  <2>4. QED
    BY <2>2, <2>3
<1>10. ASSUME NEW b \in Capture, Refuse(p, b) PROVE Moves(p, a) \/ Selects(p, a)
  BY <1>10, <1>c DEF Moves, Selects, Refuse
<1>11. CASE Finish(p) \/ Crash(p)
  BY <1>11, PassAssumption DEF Moves, Finish, Crash, Forget
<1>12. QED
  BY <1>1, <1>2, <1>4, <1>5, <1>7, <1>8, <1>9, <1>10, <1>11 DEF PassStep

(* The same step as another pass sees it.                                   *)
LEMMA OthersRest ==
  ASSUME TypeOK, NEW p \in Pass, PassStep(p) \/ Crash(p), NEW q \in Pass, q # p, NEW a \in Capture
  PROVE  Rests(q, a)
<1>1. UNCHANGED <<pc[q], batch[q], todo[q], cur[q], seen[q]>>
  <2> USE DEF TypeOK, Goto, RefuseBatch, Lacks, Forget
  <2>1. CASE Begin(p) \/ Delta(p) \/ DeltaFails(p) \/ UploadAnswered(p) \/ UploadFails(p)
    BY <2>1 DEF Begin, Delta, DeltaFails, UploadAnswered, UploadFails
  <2>2. CASE Charge(p) \/ Recharge(p) \/ ManifestAccepted(p) \/ ManifestFails(p) \/ Finish(p) \/ Crash(p)
    BY <2>2 DEF Charge, Recharge, ManifestAccepted, ManifestFails, Finish, Crash
  <2>3. ASSUME NEW b \in Capture,
               \/ SkipHeld(p, b) \/ Unreadable(p, b) \/ Upload(p, b) \/ UploadRefused(p, b)
               \/ Refuse(p, b) \/ Settle(p, b)
        PROVE  UNCHANGED <<pc[q], batch[q], todo[q], cur[q], seen[q]>>
    BY <2>3 DEF SkipHeld, Unreadable, Upload, UploadRefused, Refuse, Settle
  <2>4. QED
    BY <2>1, <2>2, <2>3 DEF PassStep
<1>2. QED
  BY <1>1 DEF Rests, Owed, Charging

(* Every other step leaves the charges as they are.                         *)
LEMMA RestStep ==
  ASSUME [Next]_vars, \A p \in Pass : ~(PassStep(p) \/ Crash(p))
  PROVE  UNCHANGED Charges
<1>1. CASE \E a \in Capture : CaptureFile(a) \/ WaitOut(a)
  BY <1>1 DEF Charges, CaptureFile, WaitOut, Enqueue, EnqueueInterrupted, BackoffElapses
<1>2. CASE \E s \in Sha : DamageBlob(s) \/ RetireJob(s) \/ WorkerCrash(s)
  BY <1>2 DEF Charges, DamageBlob, SpoilBlob, RetireJob, WorkerCrash
<1>3. CASE ServerStep \/ UNCHANGED vars \/ \E rows \in SUBSET Sha : RetentionSweep(rows)
  BY <1>3 DEF Charges, ServerStep, RetentionSweep
<1>4. QED
  BY <1>1, <1>2, <1>3 DEF Next

LEMMA AloneStep ==
  ASSUME SyncInv, VisitedOnce, ChargesAlone, [Next]_vars, \A p, q \in Pass : p = q
  PROVE  ChargesAlone'
<1>t. TypeOK /\ ChosenRows
  BY DEF SyncInv
<1>1. ASSUME NEW p \in Pass, PassStep(p) \/ Crash(p) PROVE ChargesAlone'
  <2> SUFFICES ASSUME NEW a \in Capture
               PROVE  /\ attempts'[a] + Owed(p, a)' <= MaxAttempts + 1
                      /\ Charging(p, a)' => seen'[p] = attempts'[a]
    BY DEF ChargesAlone
  <2>1. /\ attempts[a] \in Nat /\ seen[p] \in Nat /\ MaxAttempts \in Nat
        /\ Owed(p, a) \in 0..2 /\ Owed(p, a)' \in 0..2
    BY <1>t, OwedType, OwedTypeNext, LimitAssumption DEF TypeOK, QueueTypeOK
  <2>2. /\ attempts[a] + Owed(p, a) <= MaxAttempts + 1
        /\ Charging(p, a) => seen[p] = attempts[a]
    BY DEF ChargesAlone
  <2>3. ChargeStep(p, a)
    BY <1>1, <1>t, PassCharges
  <2>4. QED
    BY <2>1, <2>2, <2>3 DEF ChargeStep, Moves, Chooses, Selects, Updates
<1>2. ASSUME UNCHANGED Charges PROVE ChargesAlone'
  BY <1>2 DEF ChargesAlone, Charges, Owed, Charging
<1>3. QED
  BY <1>1, <1>2, RestStep

(* One half of ChargesOfTwo, for one row and one ordered pair of passes.    *)
PairCharges(a, p, o) ==
    /\ attempts[a] + Owed(p, a) + Owed(o, a) <= MaxAttempts + 3
    /\ Charging(p, a) =>
          /\ seen[p] + Owed(p, a) + Owed(o, a) <= MaxAttempts + 3
          /\ attempts[a] < MaxAttempts => seen[p] + Owed(p, a) <= MaxAttempts + 1
    /\ Charging(o, a) /\ seen[o] + 2 <= MaxAttempts =>
          /\ attempts[a] + Owed(p, a) <= MaxAttempts + 1
          /\ Charging(p, a) => seen[p] + Owed(p, a) <= MaxAttempts + 1

(* A step of p keeps both halves of its pair with o.                        *)
LEMMA PairStep ==
  ASSUME TypeOK, TypeOK', NEW a \in Capture, NEW p \in Pass, NEW o \in Pass,
         PairCharges(a, p, o), PairCharges(a, o, p), ChargeStep(p, a), Rests(o, a)
  PROVE  PairCharges(a, p, o)' /\ PairCharges(a, o, p)'
<1>1. /\ attempts[a] \in Nat /\ seen[p] \in Nat /\ seen[o] \in Nat /\ MaxAttempts \in Nat
      /\ attempts'[a] \in Nat /\ seen'[p] \in Nat /\ seen'[o] \in Nat
      /\ Owed(p, a) \in 0..2 /\ Owed(p, a)' \in 0..2
      /\ Owed(o, a) \in 0..2 /\ Owed(o, a)' \in 0..2
  BY OwedType, OwedTypeNext, LimitAssumption DEF TypeOK, QueueTypeOK
<1>2. CASE Moves(p, a)
  BY <1>1, <1>2 DEF PairCharges, Moves, Rests
<1>3. CASE Chooses(p, a)
  BY <1>1, <1>3 DEF PairCharges, Chooses, Rests
<1>4. CASE Selects(p, a)
  BY <1>1, <1>4 DEF PairCharges, Selects, Rests
<1>5. CASE Updates(p, a)
  BY <1>1, <1>5 DEF PairCharges, Updates, Rests
<1>6. QED
  BY <1>2, <1>3, <1>4, <1>5 DEF ChargeStep

LEMMA TwoStep ==
  ASSUME SyncInv, VisitedOnce, ChargesOfTwo, [Next]_vars,
         \A p, q, r \in Pass : p = q \/ q = r \/ p = r
  PROVE  ChargesOfTwo'
<1>t. TypeOK /\ TypeOK' /\ ChosenRows
  BY NextType DEF SyncInv
<1>1. ASSUME NEW p \in Pass, PassStep(p) \/ Crash(p) PROVE ChargesOfTwo'
  <2>1. ASSUME NEW a \in Capture, NEW o \in Pass, o # p
        PROVE  PairCharges(a, p, o)' /\ PairCharges(a, o, p)'
    <3>1. PairCharges(a, p, o) /\ PairCharges(a, o, p)
      BY <2>1 DEF ChargesOfTwo, PairCharges
    <3>2. ChargeStep(p, a) /\ Rests(o, a)
      BY <1>1, <1>t, <2>1, PassCharges, OthersRest
    <3>3. QED
      BY <1>t, <3>1, <3>2, PairStep
  <2>2. ASSUME NEW a \in Capture, NEW q \in Pass, NEW o \in Pass, q # o
        PROVE  PairCharges(a, q, o)'
    <3>1. q = p \/ o = p
      BY <2>2
    <3>2. QED
      BY <2>1, <2>2, <3>1
  <2>3. QED
    BY <2>2 DEF ChargesOfTwo, PairCharges
<1>2. ASSUME UNCHANGED Charges PROVE ChargesOfTwo'
  BY <1>2 DEF ChargesOfTwo, Charges, Owed, Charging
<1>3. QED
  BY <1>1, <1>2, RestStep

(* At most two means that of any three some two are the same.               *)
LEMMA AtMostTwo ==
  ASSUME IsFiniteSet(Pass), Cardinality(Pass) <= 2, NEW p \in Pass, NEW q \in Pass, NEW r \in Pass
  PROVE  p = q \/ q = r \/ p = r
<1> SUFFICES ASSUME p # q, q # r, p # r PROVE FALSE
  OBVIOUS
<1>1. IsFiniteSet({p}) /\ Cardinality({p}) = 1
  BY FS_Singleton
<1>2. IsFiniteSet({p} \cup {q}) /\ Cardinality({p} \cup {q}) = 2
  <2>1. q \notin {p}
    OBVIOUS
  <2>2. /\ IsFiniteSet({p} \cup {q})
        /\ Cardinality({p} \cup {q}) = IF q \in {p} THEN Cardinality({p}) ELSE Cardinality({p}) + 1
    BY ONLY <1>1, FS_AddElement
  <2>3. QED
    BY ONLY <1>1, <2>1, <2>2
<1>3. IsFiniteSet({p} \cup {q} \cup {r}) /\ Cardinality({p} \cup {q} \cup {r}) = 3
  <2> DEFINE pair == {p} \cup {q}
  <2>1. r \notin pair
    OBVIOUS
  <2>2. /\ IsFiniteSet(pair \cup {r})
        /\ Cardinality(pair \cup {r}) = IF r \in pair THEN Cardinality(pair) ELSE Cardinality(pair) + 1
    <3> HIDE DEF pair
    <3>1. IsFiniteSet(pair)
      BY ONLY <1>2 DEF pair
    <3>2. QED
      BY ONLY <3>1, FS_AddElement
  <2>3. QED
    BY ONLY <1>2, <2>1, <2>2
<1>4. Cardinality({p} \cup {q} \cup {r}) <= Cardinality(Pass)
  BY FS_Subset
<1>5. Cardinality(Pass) \in Nat
  BY FS_CardinalityType
<1>6. QED
  BY <1>3, <1>4, <1>5

LEMMA NextVisited == SyncInv /\ VisitedOnce /\ [Next]_vars => VisitedOnce'
<1> SUFFICES ASSUME SyncInv, VisitedOnce, [Next]_vars PROVE VisitedOnce'
  OBVIOUS
<1>1. ASSUME NEW p \in Pass, PassStep(p) \/ Crash(p) PROVE VisitedOnce'
  <2> USE DEF VisitedOnce, SyncInv, TypeOK, Goto
  <2>1. CASE Begin(p) \/ Delta(p) \/ UploadAnswered(p) \/ Charge(p) \/ Recharge(p) \/ ManifestAccepted(p)
    BY <2>1 DEF Begin, Delta, UploadAnswered, Charge, Recharge, ManifestAccepted
  <2>2. CASE DeltaFails(p) \/ UploadFails(p) \/ ManifestFails(p) \/ Finish(p) \/ Crash(p)
    BY <2>2 DEF DeltaFails, UploadFails, ManifestFails, Finish, Crash, RefuseBatch, Lacks, Forget
  <2>3. ASSUME NEW b \in Capture, Unreadable(p, b) \/ UploadRefused(p, b) \/ Refuse(p, b)
        PROVE  VisitedOnce'
    BY <2>3 DEF Unreadable, UploadRefused, Refuse, Lacks
  <2>4. ASSUME NEW b \in Capture, SkipHeld(p, b) \/ Upload(p, b) \/ Settle(p, b) PROVE VisitedOnce'
    BY <2>4 DEF SkipHeld, Upload, Settle
  <2>5. QED
    BY <1>1, <2>1, <2>2, <2>3, <2>4 DEF PassStep
<1>2. ASSUME UNCHANGED Charges PROVE VisitedOnce'
  BY <1>2 DEF VisitedOnce, Charges
<1>3. QED
  BY <1>1, <1>2, RestStep

(* The invariant of the charges.  With no pass at all nothing is charged.   *)
BoundInv ==
    /\ SyncInv /\ VisitedOnce
    /\ Pass = {} => \A a \in Capture : attempts[a] = 0
    /\ (\A p, q \in Pass : p = q) => ChargesAlone
    /\ (\A p, q, r \in Pass : p = q \/ q = r \/ p = r) => ChargesOfTwo

LEMMA NextBound == BoundInv /\ [Next]_vars => BoundInv'
<1> SUFFICES ASSUME BoundInv, [Next]_vars PROVE BoundInv'
  OBVIOUS
<1>1. SyncInv' /\ VisitedOnce'
  BY NextSyncInv, NextVisited DEF BoundInv
<1>2. (Pass = {} => \A a \in Capture : attempts[a] = 0)'
  BY RestStep DEF BoundInv, Charges
<1>3. (\A p, q \in Pass : p = q) => ChargesAlone'
  BY AloneStep DEF BoundInv
<1>4. (\A p, q, r \in Pass : p = q \/ q = r \/ p = r) => ChargesOfTwo'
  BY TwoStep DEF BoundInv
<1>5. QED
  BY <1>1, <1>2, <1>3, <1>4 DEF BoundInv

LEMMA InitBound == Init => BoundInv
<1> SUFFICES ASSUME Init PROVE BoundInv
  OBVIOUS
<1>1. /\ \A a \in Capture : attempts[a] = 0
      /\ \A p \in Pass : pc[p] = "idle"
      /\ MaxAttempts \in Nat
  BY LimitAssumption DEF Init, QueueInit
<1>2. \A a \in Capture, p \in Pass : Owed(p, a) = 0 /\ ~Charging(p, a)
  BY <1>1 DEF Owed, Charging
<1>3. ChargesAlone /\ ChargesOfTwo
  BY <1>1, <1>2 DEF ChargesAlone, ChargesOfTwo
<1>4. QED
  BY <1>1, <1>3, InitSyncInv DEF BoundInv, VisitedOnce

LEMMA TwoOfThem ==
  ASSUME NEW p, NEW o, o # p
  PROVE  Cardinality({p} \cup {o}) = 2
<1>1. IsFiniteSet({p}) /\ Cardinality({p}) = 1
  BY FS_Singleton
<1>2. o \notin {p}
  OBVIOUS
<1>3. QED
  BY <1>1, <1>2, FS_AddElement

LEMMA BoundMeans ==
  ASSUME IsFiniteSet(Pass), BoundInv
  PROVE  AttemptsBounded
<1> SUFFICES ASSUME Cardinality(Pass) <= 2, NEW a \in Capture
             PROVE  attempts[a] < MaxAttempts + 2 * Cardinality(Pass)
  BY DEF AttemptsBounded
<1>t. attempts[a] \in Nat /\ MaxAttempts \in Nat \ {0} /\ \A p \in Pass : Owed(p, a) \in 0..2
  BY LimitAssumption, OwedType DEF BoundInv, SyncInv, TypeOK, QueueTypeOK
<1>1. CASE Pass = {}
  <2>1. Cardinality(Pass) = 0
    BY <1>1, FS_EmptySet
  <2>2. attempts[a] = 0
    BY <1>1 DEF BoundInv
  <2>3. QED
    BY <1>t, <2>1, <2>2
<1>2. ASSUME NEW p \in Pass, \A q \in Pass : q = p
      PROVE  attempts[a] < MaxAttempts + 2 * Cardinality(Pass)
  <2>1. Pass = {p}
    BY <1>2
  <2>2. Cardinality(Pass) = 1
    BY <2>1, FS_Singleton
  <2>3. attempts[a] + Owed(p, a) <= MaxAttempts + 1
    BY <1>2 DEF BoundInv, ChargesAlone
  <2>4. QED
    BY <1>t, <2>2, <2>3
<1>3. ASSUME NEW p \in Pass, NEW o \in Pass, o # p
      PROVE  attempts[a] < MaxAttempts + 2 * Cardinality(Pass)
  <2>1. \A x, y, z \in Pass : x = y \/ y = z \/ x = z
    BY AtMostTwo
  <2>2. Pass = {p} \cup {o}
    BY <1>3, <2>1
  <2>4. Cardinality({p} \cup {o}) = 2
    BY <1>3, TwoOfThem
  <2>5. attempts[a] + Owed(p, a) + Owed(o, a) <= MaxAttempts + 3
    BY <1>3, <2>1 DEF BoundInv, ChargesOfTwo
  <2>6. QED
    BY <1>t, <2>2, <2>4, <2>5
<1>4. QED
  BY <1>1, <1>2, <1>3

(* However the SELECTs and UPDATEs of one or two processes interleave, a    *)
(* row is given up on after MAX_ATTEMPTS and at most twice the processes    *)
(* more (attempts.rs:54-74).                                                *)
THEOREM GivingUpIsNear ==
  ASSUME IsFiniteSet(Pass)
  PROVE  Spec => []AttemptsBounded
<1>1. BoundInv => AttemptsBounded
  BY BoundMeans
<1>2. QED
  BY <1>1, InitBound, NextBound, PTL DEF Spec
=============================================================================
