---------------------------- MODULE OfflineQueue ----------------------------
(***************************************************************************)
(* The agent's offline queue (agent/crates/memoar-daemon: queue.rs,        *)
(* attempts.rs, enqueue.rs): one SQLite row per (sha256, source_path), and *)
(* an immutable blob per digest beside it.  Each SQL statement commits on  *)
(* its own, so every action below is one statement; a caller that runs two *)
(* statements (mark_retry) takes two steps and may be interleaved.         *)
(*                                                                         *)
(* Abstracted: the clock.  next_attempt_at is the Boolean "due", set FALSE *)
(* by mark_retry and TRUE when the wait has passed; the length of the wait *)
(* (retry_delay) does not matter here.  queued_at only orders rows of      *)
(* equal attempts, and any order is allowed.                               *)
(***************************************************************************)
EXTENDS Artifacts

CONSTANTS
    MaxAttempts,  \* MAX_ATTEMPTS
    BatchLimit    \* SyncEngine.batch_limit

ASSUME LimitAssumption == MaxAttempts \in Nat \ {0} /\ BatchLimit \in Nat \ {0}

VARIABLES
    status,    \* artifacts.status of the row, "absent" when there is no row
    attempts,  \* artifacts.attempts
    due,       \* next_attempt_at IS NULL OR next_attempt_at <= now
    blobs      \* blob_dir: no file, a file with the bytes, or a spoiled file

queueVars == <<status, attempts, due, blobs>>

QueueStatus == {"pending", "retry", "synced"}

QueueTypeOK ==
    /\ status \in [Capture -> QueueStatus \cup {"absent"}]
    /\ attempts \in [Capture -> Nat]
    /\ due \in [Capture -> BOOLEAN]
    /\ blobs \in [Sha -> {"none", "intact", "spoiled"}]

QueueInit ==
    /\ status = [a \in Capture |-> "absent"]
    /\ attempts = [a \in Capture |-> 0]
    /\ due = [a \in Capture |-> TRUE]
    /\ blobs = [s \in Sha |-> "none"]

-----------------------------------------------------------------------------
(* pending_at: what one pass may try.  The batch is full, or holds every    *)
(* eligible row, and nothing left out has failed less than what is in it.   *)

(* Mutant: the attempts are counted and never read.                         *)
EligibleForever == {a \in Capture : status[a] \in {"pending", "retry"} /\ due[a]}

Eligible ==
    {a \in Capture : /\ status[a] \in {"pending", "retry"}
                     /\ attempts[a] < MaxAttempts
                     /\ due[a]}

PendingBatch ==
    {B \in SUBSET Eligible :
        /\ Cardinality(B) <= BatchLimit
        /\ B = Eligible \/ Cardinality(B) = BatchLimit
        /\ \A a \in B, e \in Eligible \ B : attempts[a] <= attempts[e]}

(* abandoned: rows that have used up every attempt.                         *)
Abandoned(a) == status[a] \in {"pending", "retry"} /\ attempts[a] >= MaxAttempts

-----------------------------------------------------------------------------
(* write_blob_once: a temporary file, fsync and a rename, so the blob is    *)
(* whole or absent.  A blob whose bytes differ is a collision error.        *)
WriteBlobOnce(s) ==
    /\ blobs[s] # "spoiled"
    /\ blobs' = [blobs EXCEPT ![s] = "intact"]

(* Mutant: the upsert puts every row it meets back to pending.              *)
EnqueueReopening(a) ==
    /\ WriteBlobOnce(Hash(a))
    /\ status' = [status EXCEPT ![a] = "pending"]
    /\ UNCHANGED <<attempts, due>>

(* enqueue_with_redaction: the blob first, then the upsert.  A synced row   *)
(* stays synced; attempts and next_attempt_at are not in the upsert.        *)
Enqueue(a) ==
    /\ WriteBlobOnce(Hash(a))
    /\ status' = [status EXCEPT ![a] = IF @ = "synced" THEN "synced" ELSE "pending"]
    /\ UNCHANGED <<attempts, due>>

(* The process dies, or the insert fails, after the blob was renamed.       *)
EnqueueInterrupted(a) ==
    /\ blobs[Hash(a)] = "none"
    /\ WriteBlobOnce(Hash(a))
    /\ UNCHANGED <<status, attempts, due>>

(* Something outside the agent damages a blob (fs::read error or a digest   *)
(* that no longer matches).                                                 *)
SpoilBlob(s) ==
    /\ blobs[s] = "intact"
    /\ blobs' = [blobs EXCEPT ![s] = "spoiled"]
    /\ UNCHANGED <<status, attempts, due>>

(* The retry_delay of a refused row has passed.                             *)
BackoffElapses(a) ==
    /\ ~due[a]
    /\ due' = [due EXCEPT ![a] = TRUE]
    /\ UNCHANGED <<status, attempts, blobs>>

(* mark_synced: by the whole primary key, whatever the row says now.        *)
MarkSynced(a) ==
    /\ status' = [status EXCEPT ![a] = "synced"]
    /\ UNCHANGED <<attempts, due, blobs>>

(* Mutant: a refusal is recorded and not counted.                           *)
MarkRetryUncounted(a, seen) ==
    /\ status' = [status EXCEPT ![a] = "retry"]
    /\ attempts' = [attempts EXCEPT ![a] = seen]
    /\ due' = [due EXCEPT ![a] = FALSE]
    /\ UNCHANGED blobs

(* mark_retry, its UPDATE: the SELECT before it read seen.                  *)
MarkRetry(a, seen) ==
    /\ status' = [status EXCEPT ![a] = "retry"]
    /\ attempts' = [attempts EXCEPT ![a] = seen + 1]
    /\ due' = [due EXCEPT ![a] = FALSE]
    /\ UNCHANGED blobs
=============================================================================
