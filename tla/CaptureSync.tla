----------------------------- MODULE CaptureSync -----------------------------
(***************************************************************************)
(* SyncEngine::sync (agent/crates/memoar-daemon/src/sync.rs) run by one or *)
(* more processes over one offline queue, against the archive: the capture *)
(* path from a file on a laptop to a parsed row on the server.             *)
(*                                                                         *)
(* A pass keeps its position in local variables that die with the process. *)
(* Every answer of the server can be lost, and a request whose answer is   *)
(* lost may have done its work.                                            *)
(***************************************************************************)
EXTENDS OfflineQueue, RawArchive

CONSTANTS
    Pass,             \* processes that run passes: sync --watch, the desktop app, ...
    NoArtifact,       \* "no row": the value of cur between rows
    Refused,          \* digests the ingress never accepts (wrong shape, too large)
    TransportFaults,  \* may a request or its answer be lost?
    DiskFaults,       \* may a blob be damaged on disk?
    MaxCrashes        \* bound on the process deaths of a behaviour

ASSUME PassAssumption ==
    /\ Refused \subseteq Sha
    /\ NoArtifact \notin Capture
    /\ TransportFaults \in BOOLEAN /\ DiskFaults \in BOOLEAN
    /\ MaxCrashes \in Nat

VARIABLES
    pc,       \* where a pass is
    batch,    \* artifacts: what pending() returned
    missing,  \* what the server said it lacks
    todo,     \* rows the current loop has still to visit
    absent,   \* digests this pass could not give the server
    cur,      \* the row in hand
    created,  \* did the upload in flight create the server's row?
    seen,     \* attempts of cur, read by mark_retry's SELECT
    crashes   \* process deaths so far

passVars == <<pc, batch, missing, todo, absent, cur, created, seen>>
vars == <<queueVars, archiveVars, passVars, crashes>>

PassPC == {"idle", "delta", "offer", "uploading", "charge",
           "refuse", "recharge", "settle"}

TypeOK ==
    /\ QueueTypeOK
    /\ ArchiveTypeOK
    /\ pc \in [Pass -> PassPC]
    /\ batch \in [Pass -> SUBSET Capture]
    /\ missing \in [Pass -> SUBSET Sha]
    /\ todo \in [Pass -> SUBSET Capture]
    /\ absent \in [Pass -> SUBSET Sha]
    /\ cur \in [Pass -> Capture \cup {NoArtifact}]
    /\ created \in [Pass -> BOOLEAN]
    /\ seen \in [Pass -> Nat]
    /\ crashes \in Nat
    /\ \A p \in Pass : pc[p] \in {"uploading", "charge", "recharge"} => cur[p] \in Capture

Init ==
    /\ QueueInit
    /\ ArchiveInit
    /\ pc = [p \in Pass |-> "idle"]
    /\ batch = [p \in Pass |-> {}]
    /\ missing = [p \in Pass |-> {}]
    /\ todo = [p \in Pass |-> {}]
    /\ absent = [p \in Pass |-> {}]
    /\ cur = [p \in Pass |-> NoArtifact]
    /\ created = [p \in Pass |-> FALSE]
    /\ seen = [p \in Pass |-> 0]
    /\ crashes = 0

-----------------------------------------------------------------------------
(* Local moves of a pass.                                                   *)

Goto(p, label) == pc' = [pc EXCEPT ![p] = label]

(* The pass returns, or its process dies: its variables are gone.           *)
Forget(p) ==
    /\ Goto(p, "idle")
    /\ batch' = [batch EXCEPT ![p] = {}]
    /\ missing' = [missing EXCEPT ![p] = {}]
    /\ todo' = [todo EXCEPT ![p] = {}]
    /\ absent' = [absent EXCEPT ![p] = {}]
    /\ cur' = [cur EXCEPT ![p] = NoArtifact]
    /\ created' = [created EXCEPT ![p] = FALSE]
    /\ seen' = [seen EXCEPT ![p] = 0]

(* Mutant: a refused request is taken for an accepted one.                  *)
RefuseBatchAsDone(p) ==
    /\ Goto(p, "settle")
    /\ todo' = [todo EXCEPT ![p] = batch[p]]
    /\ UNCHANGED <<batch, missing, absent, cur, created, seen>>

(* mark_retry_all over the whole batch begins.  (The model drops what the   *)
(* pass reads no more.)                                                     *)
RefuseBatch(p) ==
    /\ Goto(p, "refuse")
    /\ todo' = [todo EXCEPT ![p] = batch[p]]
    /\ missing' = [missing EXCEPT ![p] = {}]
    /\ absent' = [absent EXCEPT ![p] = {}]
    /\ UNCHANGED <<batch, cur, created, seen>>

(* One row could not be given to the server: absent, and mark_retry's       *)
(* SELECT.  Its UPDATE is Charge.                                           *)
Lacks(p, a) ==
    /\ Goto(p, "charge")
    /\ absent' = [absent EXCEPT ![p] = @ \cup {Hash(a)}]
    /\ todo' = [todo EXCEPT ![p] = @ \ {a}]
    /\ cur' = [cur EXCEPT ![p] = a]
    /\ seen' = [seen EXCEPT ![p] = attempts[a]]
    /\ created' = [created EXCEPT ![p] = FALSE]
    /\ UNCHANGED <<batch, missing>>

(* The rows the manifest names.                                             *)
Claimed(p) == {a \in batch[p] : Hash(a) \notin absent[p]}

-----------------------------------------------------------------------------
(* The steps of sync, in the order of the source.                           *)

(* queue.pending(batch_limit); an empty answer ends the pass at once.       *)
Begin(p) ==
    /\ pc[p] = "idle"
    /\ \E B \in PendingBatch \ {{}} :
           /\ batch' = [batch EXCEPT ![p] = B]
           /\ todo' = [todo EXCEPT ![p] = B]
    /\ Goto(p, "delta")
    /\ UNCHANGED <<queueVars, archiveVars, missing, absent, cur, created, seen, crashes>>

(* transport.missing answers.                                               *)
Delta(p) ==
    /\ pc[p] = "delta"
    /\ missing' = [missing EXCEPT ![p] = DeltaMissing(Hashes(batch[p]))]
    /\ Goto(p, "offer")
    /\ UNCHANGED <<queueVars, archiveVars, batch, todo, absent, cur, created, seen, crashes>>

(* transport.missing fails: the whole batch is charged.                     *)
DeltaFails(p) ==
    /\ TransportFaults
    /\ pc[p] = "delta"
    /\ RefuseBatch(p)
    /\ UNCHANGED <<queueVars, archiveVars, crashes>>

(* A row the server holds already is a duplicate.                           *)
SkipHeld(p, a) ==
    /\ pc[p] = "offer"
    /\ a \in todo[p]
    /\ Hash(a) \notin missing[p]
    /\ todo' = [todo EXCEPT ![p] = @ \ {a}]
    /\ UNCHANGED <<queueVars, archiveVars, pc, batch, missing, absent, cur, created, seen, crashes>>

(* The blob cannot be read, or no longer has its digest.                    *)
Unreadable(p, a) ==
    /\ pc[p] = "offer"
    /\ a \in todo[p]
    /\ Hash(a) \in missing[p]
    /\ blobs[Hash(a)] # "intact"
    /\ Lacks(p, a)
    /\ UNCHANGED <<queueVars, archiveVars, crashes>>

(* transport.upload reaches putRaw, which commits the row.                  *)
Upload(p, a) ==
    /\ pc[p] = "offer"
    /\ a \in todo[p]
    /\ Hash(a) \in missing[p]
    /\ blobs[Hash(a)] = "intact"
    /\ Hash(a) \notin Refused
    /\ SaveRawArtifact(Hash(a))
    /\ Goto(p, "uploading")
    /\ cur' = [cur EXCEPT ![p] = a]
    /\ created' = [created EXCEPT ![p] = Hash(a) \notin Registered]
    /\ UNCHANGED <<queueVars, batch, missing, todo, absent, seen, crashes>>

(* transport.upload never reaches putRaw: refused, or lost on the way.      *)
UploadRefused(p, a) ==
    /\ pc[p] = "offer"
    /\ a \in todo[p]
    /\ Hash(a) \in missing[p]
    /\ blobs[Hash(a)] = "intact"
    /\ Hash(a) \in Refused \/ TransportFaults
    /\ Lacks(p, a)
    /\ UNCHANGED <<queueVars, archiveVars, crashes>>

(* Mutant: the upload is answered before the bytes are put.                 *)
UploadAnsweredEarly(p) ==
    /\ pc[p] = "uploading"
    /\ Goto(p, "offer")
    /\ todo' = [todo EXCEPT ![p] = @ \ {cur[p]}]
    /\ cur' = [cur EXCEPT ![p] = NoArtifact]
    /\ created' = [created EXCEPT ![p] = FALSE]
    /\ UNCHANGED <<queueVars, archiveVars, batch, missing, absent, seen, crashes>>

(* The upload answers 201 after its own put, or 208 at once.                *)
UploadAnswered(p) ==
    /\ pc[p] = "uploading"
    /\ created[p] => Hash(cur[p]) \in objects \ putting
    /\ Goto(p, "offer")
    /\ todo' = [todo EXCEPT ![p] = @ \ {cur[p]}]
    /\ cur' = [cur EXCEPT ![p] = NoArtifact]
    /\ created' = [created EXCEPT ![p] = FALSE]
    /\ UNCHANGED <<queueVars, archiveVars, batch, missing, absent, seen, crashes>>

(* The answer is an error: it was lost or timed out, wherever the request   *)
(* is, or the put failed.                                                   *)
UploadFails(p) ==
    /\ pc[p] = "uploading"
    /\ \/ TransportFaults
       \/ created[p] /\ Hash(cur[p]) \notin objects \cup putting
    /\ Lacks(p, cur[p])
    /\ UNCHANGED <<queueVars, archiveVars, crashes>>

(* mark_retry's UPDATE for the row of Lacks; the loop carries on.           *)
Charge(p) ==
    /\ pc[p] = "charge"
    /\ MarkRetry(cur[p], seen[p])
    /\ Goto(p, "offer")
    /\ cur' = [cur EXCEPT ![p] = NoArtifact]
    /\ seen' = [seen EXCEPT ![p] = 0]
    /\ UNCHANGED <<archiveVars, batch, missing, todo, absent, created, crashes>>

(* Mutant: the receipt is sent and nothing is queued.                       *)
ManifestUnqueued(p) ==
    /\ pc[p] = "offer"
    /\ todo[p] = {}
    /\ DeltaMissing(Hashes(Claimed(p))) = {}
    /\ Goto(p, "settle")
    /\ todo' = [todo EXCEPT ![p] = Claimed(p)]
    /\ UNCHANGED <<queueVars, archiveVars, batch, missing, absent, cur, created, seen, crashes>>

(* submit_manifest: the server finds a row for every digest, queues a parse *)
(* for each and answers; the claimed rows are what the pass will settle.    *)
ManifestAccepted(p) ==
    /\ pc[p] = "offer"
    /\ todo[p] = {}
    /\ DeltaMissing(Hashes(Claimed(p))) = {}
    /\ EnqueueParse(Hashes(Claimed(p)))
    /\ Goto(p, "settle")
    /\ todo' = [todo EXCEPT ![p] = Claimed(p)]
    /\ missing' = [missing EXCEPT ![p] = {}]
    /\ absent' = [absent EXCEPT ![p] = {}]
    /\ UNCHANGED <<queueVars, batch, cur, created, seen, crashes>>

(* submit_manifest fails: 422 for a digest without a row, which retention   *)
(* took since it was offered, an error after some of the jobs were queued,  *)
(* or a lost answer after all of them.                                      *)
ManifestFails(p) ==
    /\ pc[p] = "offer"
    /\ todo[p] = {}
    /\ \/ /\ DeltaMissing(Hashes(Claimed(p))) # {}
          /\ UNCHANGED archiveVars
       \/ /\ TransportFaults
          /\ \E queued \in SUBSET (Hashes(Claimed(p)) \cap Registered) : EnqueueParse(queued)
    /\ RefuseBatch(p)
    /\ UNCHANGED <<queueVars, crashes>>

(* mark_retry_all: the SELECT for the next row of the batch ...             *)
Refuse(p, a) ==
    /\ pc[p] = "refuse"
    /\ a \in todo[p]
    /\ Goto(p, "recharge")
    /\ todo' = [todo EXCEPT ![p] = @ \ {a}]
    /\ cur' = [cur EXCEPT ![p] = a]
    /\ seen' = [seen EXCEPT ![p] = attempts[a]]
    /\ UNCHANGED <<queueVars, archiveVars, batch, missing, absent, created, crashes>>

(* ... and its UPDATE.                                                      *)
Recharge(p) ==
    /\ pc[p] = "recharge"
    /\ MarkRetry(cur[p], seen[p])
    /\ Goto(p, "refuse")
    /\ cur' = [cur EXCEPT ![p] = NoArtifact]
    /\ seen' = [seen EXCEPT ![p] = 0]
    /\ UNCHANGED <<archiveVars, batch, missing, todo, absent, created, crashes>>

(* mark_synced for one claimed row.                                         *)
Settle(p, a) ==
    /\ pc[p] = "settle"
    /\ a \in todo[p]
    /\ MarkSynced(a)
    /\ todo' = [todo EXCEPT ![p] = @ \ {a}]
    /\ UNCHANGED <<archiveVars, pc, batch, missing, absent, cur, created, seen, crashes>>

(* The pass returns its report or its error.                                *)
Finish(p) ==
    /\ pc[p] \in {"refuse", "settle"}
    /\ todo[p] = {}
    /\ Forget(p)
    /\ UNCHANGED <<queueVars, archiveVars, crashes>>

(* The process dies in the middle of a pass.                                *)
Crash(p) ==
    /\ crashes < MaxCrashes
    /\ pc[p] # "idle"
    /\ Forget(p)
    /\ crashes' = crashes + 1
    /\ UNCHANGED <<queueVars, archiveVars>>

PassStep(p) ==
    \/ Begin(p) \/ Delta(p) \/ DeltaFails(p)
    \/ \E a \in Capture : \/ SkipHeld(p, a) \/ Unreadable(p, a)
                          \/ Upload(p, a) \/ UploadRefused(p, a)
    \/ UploadAnswered(p) \/ UploadFails(p) \/ Charge(p)
    \/ ManifestAccepted(p) \/ ManifestFails(p)
    \/ \E a \in Capture : Refuse(p, a) \/ Settle(p, a)
    \/ Recharge(p) \/ Finish(p)

-----------------------------------------------------------------------------
(* The capture loop and the disk.                                           *)
CaptureFile(a) ==
    /\ Enqueue(a) \/ EnqueueInterrupted(a)
    /\ UNCHANGED <<archiveVars, passVars, crashes>>

DamageBlob(s) ==
    /\ DiskFaults
    /\ SpoilBlob(s)
    /\ UNCHANGED <<archiveVars, passVars, crashes>>

WaitOut(a) ==
    /\ BackoffElapses(a)
    /\ UNCHANGED <<archiveVars, passVars, crashes>>

(* The server's own steps.                                                  *)
ServerStep ==
    /\ PutStep \/ ParseStep
    /\ UNCHANGED <<queueVars, passVars, crashes>>

RetireJob(s) ==
    /\ RemoveJob(s)
    /\ UNCHANGED <<queueVars, passVars, crashes>>

WorkerCrash(s) ==
    /\ crashes < MaxCrashes
    /\ WorkerStalls(s)
    /\ crashes' = crashes + 1
    /\ UNCHANGED <<queueVars, passVars>>

(* The hourly sweep of the worker process (worker.ts).                      *)
RetentionSweep(rows) ==
    /\ ApplyRetention(rows)
    /\ UNCHANGED <<queueVars, passVars, crashes>>

Next ==
    \/ \E p \in Pass : PassStep(p) \/ Crash(p)
    \/ \E a \in Capture : CaptureFile(a) \/ WaitOut(a)
    \/ \E s \in Sha : DamageBlob(s) \/ RetireJob(s) \/ WorkerCrash(s)
    \/ \E rows \in SUBSET Sha : RetentionSweep(rows)
    \/ ServerStep

Spec == Init /\ [][Next]_vars

(* The watch loop runs pass after pass, a backoff ends, the object store    *)
(* answers and the workers drain the queue.  Nobody promises a capture, a   *)
(* crash, a fault, a sweep, a reprocess or the removal of a job.            *)
Fairness ==
    /\ \A p \in Pass : WF_vars(PassStep(p))
    /\ \A a \in Capture : WF_vars(WaitOut(a))
    /\ \A s \in Sha : WF_vars(PutObject(s) /\ ServerStep)
    /\ \A s \in Sha : WF_vars(/\ StartParse(s) \/ ParseSucceeds(s) \/ ParseFails(s) \/ ReportJob(s)
                             /\ ServerStep)

FairSpec == Spec /\ Fairness
-----------------------------------------------------------------------------
(* What the capture path promises, and what its comments promise.          *)

(* A row the agent counts as synced has a row on the server, or retention   *)
(* took that row: sync marks only what the manifest claimed, and manifest   *)
(* refuses a digest it has no row for (sync.rs:154-162,                     *)
(* ingest.service.ts:88-98, settings.ts:113-157).                           *)
SyncedIsRegistered ==
    \A a \in Capture : status[a] = "synced" => Hash(a) \in Registered \cup swept

(* What retention took, or may take next, was read into sessions and keeps  *)
(* its bytes: an artifact nobody could read is never its to take            *)
(* (settings.ts:125-146).                                                   *)
SweptWasRead == swept \cup joined \subseteq objects

(* A synced row's bytes are in the object store, or the request that        *)
(* created its server row is still about to put them there                  *)
(* (ingest.service.ts:47-48).  Stated for a server whose puts never fail.   *)
SyncedIsStored ==
    ~StorageFaults => \A a \in Capture : status[a] = "synced" => Hash(a) \in objects \cup putting

(* A synced row was queued for parsing: nothing is acknowledged that no     *)
(* worker was ever going to look at (ingest.service.ts:106-109).            *)
SyncedWasQueued == \A a \in Capture : status[a] = "synced" => job[Hash(a)] # "none"

(* With one process or two, a row is charged at most twice a pass after it  *)
(* was chosen, however their SELECTs and UPDATEs interleave, so giving up   *)
(* is certain and near (attempts.rs:18, 54-74).  With three it is not: an   *)
(* UPDATE that writes back a SELECT made long before can lower the count,   *)
(* and the row is chosen again while another process still holds the high   *)
(* one.                                                                     *)
AttemptsBounded ==
    Cardinality(Pass) <= 2 =>
        \A a \in Capture : attempts[a] < MaxAttempts + 2 * Cardinality(Pass)

(* One process: a row it was told is synced is never offered again.         *)
NoReopen ==
    [][\A a \in Capture : status[a] = "synced" => status'[a] = "synced"]_vars

(* The whole path keeps the promise of CapturePromise: capture, then a row   *)
(* on the server, then a queued parse, then the acknowledgement, and        *)
(* nothing of it undone but by retention, which takes only rows that were   *)
(* read into sessions (enqueue.rs:58-71, sync.rs:154-162,                   *)
(* ingest.service.ts:39-48, 87-116, settings.ts:136-146).                   *)
Promise == INSTANCE CapturePromise WITH
    captured <- {a \in Capture : status[a] # "absent"},
    held <- Registered,
    sessions <- joined,
    queued <- {s \in Sha : job[s] # "none"},
    acked <- {a \in Capture : status[a] = "synced"}

PromiseKept == Promise!Spec

(* Why the three hold together.  A pass only ever visits rows of its own    *)
(* batch and a batch only holds captured rows ...                           *)
ChosenRows ==
    /\ \A p \in Pass : todo[p] \subseteq batch[p]
    /\ \A p \in Pass : \A a \in batch[p] : status[a] # "absent"
    /\ \A p \in Pass : cur[p] # NoArtifact => cur[p] \in batch[p]
    /\ \A p \in Pass : pc[p] = "idle" => batch[p] = {}

(* ... and what a pass is settling was registered and queued by the         *)
(* manifest that brought it there (sync.rs:117-162).                        *)
SettlingIsQueued ==
    \A p \in Pass : pc[p] = "settle" =>
        \A a \in todo[p] : Hash(a) \in Registered \cup swept /\ job[Hash(a)] # "none"

(* A digest with a row has its bytes, or a request still carrying them.     *)
RegisteredIsStored == ~StorageFaults => Registered \subseteq objects \cup putting

(* Only a digest that had a row is ever queued, and only one that has a row *)
(* has sessions.                                                            *)
QueuedIsRegistered ==
    /\ \A s \in Sha : job[s] # "none" => s \in Registered \cup swept
    /\ joined \subseteq Registered

(* With one process, a pass that is not settling holds no synced row: only  *)
(* its own mark_synced makes one, and by then nothing is charged any more.  *)
HoldsUnsynced == \A p \in Pass : pc[p] # "settle" => \A a \in batch[p] : status[a] # "synced"

SyncInv ==
    /\ TypeOK
    /\ ChosenRows
    /\ SettlingIsQueued
    /\ RegisteredIsStored
    /\ QueuedIsRegistered
    /\ SyncedIsRegistered
    /\ SweptWasRead
    /\ SyncedWasQueued

(* What the queue has finished with, and may have forgotten, its row speaks *)
(* of: parsed, of no known format or failed, never the "stored" that means  *)
(* nobody has looked (pipeline.ts:91-121, queues.ts:60-61).  Three things   *)
(* silence a row: recordFailure could not write it, its job stalled too     *)
(* often and the queue gave it up without process hearing of it, or         *)
(* retention took the row and it was offered again while the finished job's *)
(* key was still in Redis.                                                  *)
JobLeavesVerdict ==
    \A s \in Sha : job[s] \in {"completed", "failed", "removed"} /\ s \notin unsaid \cup swept
                      => record[s] \in {"parsed", "unknown_format", "failed"}

(* Why AttemptsBounded holds.  What a pass may still charge a row: once for *)
(* the row, once for its batch ...                                          *)
Owed(p, a) ==
    CASE pc[p] \in {"delta", "offer", "uploading", "charge"} ->
             IF a \in todo[p] \/ (pc[p] \in {"uploading", "charge"} /\ cur[p] = a) THEN 2
             ELSE IF a \in batch[p] THEN 1 ELSE 0
      [] pc[p] \in {"refuse", "recharge"} ->
             IF a \in todo[p] \/ (pc[p] = "recharge" /\ cur[p] = a) THEN 1 ELSE 0
      [] OTHER -> 0

(* ... and it is between mark_retry's SELECT and UPDATE of the row.         *)
Charging(p, a) == pc[p] \in {"charge", "recharge"} /\ cur[p] = a

(* A row in mark_retry's hand is not waiting to be visited again.           *)
VisitedOnce == \A p \in Pass : pc[p] \in {"charge", "recharge"} => cur[p] \notin todo[p]

(* One process writes back what it read.                                    *)
ChargesAlone ==
    \A a \in Capture, p \in Pass :
        /\ attempts[a] + Owed(p, a) <= MaxAttempts + 1
        /\ Charging(p, a) => seen[p] = attempts[a]

(* Two may write back less than the row says.  Then the row may be chosen   *)
(* again, so whatever the other one is still holding has to be low too.     *)
ChargesOfTwo ==
    \A a \in Capture : \A p, o \in Pass : p # o =>
        /\ attempts[a] + Owed(p, a) + Owed(o, a) <= MaxAttempts + 3
        /\ Charging(p, a) =>
              /\ seen[p] + Owed(p, a) + Owed(o, a) <= MaxAttempts + 3
              /\ attempts[a] < MaxAttempts => seen[p] + Owed(p, a) <= MaxAttempts + 1
        /\ Charging(o, a) /\ seen[o] + 2 <= MaxAttempts =>
              /\ attempts[a] + Owed(p, a) <= MaxAttempts + 1
              /\ Charging(p, a) => seen[p] + Owed(p, a) <= MaxAttempts + 1

(* A captured row is in the end synced or given up on, whatever fails       *)
(* (attempts.rs:42-53).                                                     *)
CapturedIsSettled ==
    \A a \in Capture : status[a] \in {"pending", "retry"}
                         ~> status[a] = "synced" \/ Abandoned(a)

(* Rows the server will never take do not keep the others from being        *)
(* synced, however small the batch (attempts.rs:42-53, sync.rs:76-81).      *)
GoodRowsSync ==
    \A a \in Capture : status[a] \in {"pending", "retry"} /\ Hash(a) \notin Refused
                         ~> status[a] = "synced"

(* What the agent was told is archived gets a verdict: parsed, of no known  *)
(* format, or failed with its reason (pipeline.ts:91-111); unless its       *)
(* failure could not be said, or retention has taken the row and the key of *)
(* the job that read it then keeps the row made anew from being read again. *)
SyncedGetsVerdict ==
    \A a \in Capture : status[a] = "synced"
                         ~> \/ record[Hash(a)] \in {"parsed", "unknown_format", "failed"}
                            \/ Hash(a) \in unsaid \cup swept

(* With nothing lost and nothing refused, what is synced is also parsed:    *)
(* the upload is answered only after its own put, so no worker is given a   *)
(* digest whose bytes are still on their way (ingest.service.ts:47-48).     *)
SyncedIsParsed ==
    \A a \in Capture : status[a] = "synced"
                         ~> record[Hash(a)] \in {"parsed", "unknown_format"}

(* So a row the server takes is synced and parsed, whatever is refused      *)
(* beside it.                                                               *)
GoodRowsArrive == GoodRowsSync /\ SyncedIsParsed

-----------------------------------------------------------------------------
(* A claim of a comment that the code does not keep.                        *)

(* sync.rs:67-69, of the manifest: "it is a claim that these bytes are in   *)
(* the archive, and the server checks".                                     *)
SyncedBytesHeld == \A a \in Capture : status[a] = "synced" => Hash(a) \in objects \cup putting
=============================================================================
