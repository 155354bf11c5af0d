----------------------------- MODULE RawArchive -----------------------------
(***************************************************************************)
(* The server's half of ingest for one tenant: raw_artifacts rows, the     *)
(* object store, the parse queue and its workers, reprocess and the        *)
(* retention sweep (server/src/ingest: ingest.service.ts, pipeline.ts,     *)
(* queues.ts; store/postgres: artifacts.ts, settings.ts; reprocess.ts).    *)
(*                                                                         *)
(* The row is committed before the bytes are put, and only the request     *)
(* that created the row puts them.  A parse reads the row, works, and      *)
(* writes its verdict by digest; only then does the queue hear how it      *)
(* ended.  BullMQ and S3 are modelled from how the code uses them: an add  *)
(* whose job id exists is ignored, a failed try goes back to waiting until *)
(* the attempts are spent, a job that stalls more than MaxStalls times is  *)
(* given up without a try, and a finished job's key is removed later.      *)
(*                                                                         *)
(* A row's id is left out: a parse that read a row, lost it to a sweep and *)
(* writes to the row made anew joins its sessions to the old id, and the   *)
(* model takes them for the new row's, which a sweep may then take too.    *)
(***************************************************************************)
EXTENDS Artifacts

CONSTANTS
    JobAttempts,     \* attempts: 5
    MaxStalls,       \* maxStalledCount, BullMQ's default of 1
    StorageFaults,   \* may a request die between the row and objects.put?
    ParseFaults,     \* may a parse throw although the bytes are there?
    RecordFaults,    \* may recordFailure itself fail to write the row?
    Retention,       \* is the retention policy "days"?
    Reprocessing     \* may somebody run reprocess?

ASSUME JobAttemptsAssumption == JobAttempts \in Nat \ {0} /\ MaxStalls \in Nat
ASSUME ArchiveFaultAssumption ==
    {StorageFaults, ParseFaults, RecordFaults, Retention, Reprocessing} \subseteq BOOLEAN

VARIABLES
    record,   \* raw_artifacts.status, "none" when there is no row
    joined,   \* digests whose row has artifact_sessions
    objects,  \* digests whose bytes the object store holds
    putting,  \* digests whose creating request has not reached objects.put yet
    job,      \* the parse job keyed by sha256(tenant:parse:sha); a job that
              \* is active is parsing, or done or thrown and not yet reported
    tries,    \* tries of that job that failed
    stalls,   \* times that job was taken from a worker that fell silent
    stray,    \* digests parsed outside the queue's hold: by reprocess, or by
              \* a worker whose job was taken from it while it was still alive
    swept,    \* history: digests whose row retention has deleted
    unsaid    \* history: digests whose last failure never reached the row

verdictVars == <<record, joined, unsaid>>
bytesVars == <<objects, putting>>
jobVars == <<job, tries, stalls>>
archiveVars == <<verdictVars, bytesVars, jobVars, stray, swept>>

RecordStatus == {"none", "stored", "parsed", "unknown_format", "failed"}
JobState == {"none", "waiting", "parsing", "done", "thrown", "completed", "failed", "removed"}

ArchiveTypeOK ==
    /\ record \in [Sha -> RecordStatus]
    /\ job \in [Sha -> JobState]
    /\ tries \in [Sha -> Nat] /\ stalls \in [Sha -> Nat]
    /\ joined \subseteq Sha /\ objects \subseteq Sha /\ putting \subseteq Sha
    /\ stray \subseteq Sha /\ swept \subseteq Sha /\ unsaid \subseteq Sha

ArchiveInit ==
    /\ record = [s \in Sha |-> "none"]
    /\ job = [s \in Sha |-> "none"]
    /\ tries = [s \in Sha |-> 0] /\ stalls = [s \in Sha |-> 0]
    /\ joined = {} /\ objects = {} /\ putting = {}
    /\ stray = {} /\ swept = {} /\ unsaid = {}

Registered == {s \in Sha : record[s] # "none"}

-----------------------------------------------------------------------------
(* Mutant: the request that created the row forgets the bytes.              *)
SaveRawArtifactOnly(s) ==
    /\ record' = [record EXCEPT ![s] = IF s \in Registered THEN @ ELSE "stored"]
    /\ UNCHANGED <<joined, unsaid, bytesVars, jobVars, stray, swept>>

(* putRaw, up to saveRawArtifact: a digest that has a row stores nothing.   *)
SaveRawArtifact(s) ==
    /\ IF s \in Registered
         THEN UNCHANGED <<record, putting>>
         ELSE /\ record' = [record EXCEPT ![s] = "stored"]
              /\ putting' = putting \cup {s}
    /\ UNCHANGED <<joined, unsaid, objects, jobVars, stray, swept>>

(* putRaw: objects.put by the request that created the row.                 *)
PutObject(s) ==
    /\ s \in putting
    /\ objects' = objects \cup {s}
    /\ putting' = putting \ {s}
    /\ UNCHANGED <<verdictVars, jobVars, stray, swept>>

(* The put is refused, or the API process dies before it: the row stays.    *)
(* (A refused put over bytes that are there already, of a row made again    *)
(* after a sweep, differs from a lost answer in nothing.)                   *)
PutObjectFails(s) ==
    /\ StorageFaults
    /\ s \in putting \ objects
    /\ putting' = putting \ {s}
    /\ UNCHANGED <<verdictVars, objects, jobVars, stray, swept>>

(* delta: the digests without a row, whatever the object store holds.       *)
DeltaMissing(hashes) == hashes \ Registered

(* The enqueue loop of manifest, for the digests it got through: a job id   *)
(* that still has a key is not added again.                                 *)
EnqueueParse(hashes) ==
    LET fresh == {s \in hashes : job[s] \in {"none", "removed"}}
    IN  /\ job' = [s \in Sha |-> IF s \in fresh THEN "waiting" ELSE job[s]]
        /\ UNCHANGED <<verdictVars, bytesVars, tries, stalls, stray, swept>>

-----------------------------------------------------------------------------
(* A worker takes the job and process reads the row; without one it throws  *)
(* before the try block, and nothing is recorded anywhere.                  *)
StartParse(s) ==
    /\ job[s] = "waiting"
    /\ job' = [job EXCEPT ![s] = IF s \in Registered THEN "parsing" ELSE "thrown"]
    /\ UNCHANGED <<verdictVars, bytesVars, tries, stalls, stray, swept>>

(* updateRawArtifact: an UPDATE by digest, which writes nothing where the   *)
(* row is gone, and the row's sessions joined anew.                         *)
UpdateRawArtifact(s, verdict, withSessions) ==
    IF s \in Registered
      THEN /\ record' = [record EXCEPT ![s] = verdict]
           /\ joined' = IF withSessions THEN joined \cup {s} ELSE joined \ {s}
      ELSE UNCHANGED <<record, joined>>

(* parse: the bytes were there and a parser, or none, claimed them.  A row  *)
(* of no known format keeps the sessions it had.                            *)
ParseReturns(s) ==
    /\ s \in objects
    /\ \/ UpdateRawArtifact(s, "parsed", TRUE)
       \/ UpdateRawArtifact(s, "unknown_format", s \in joined)
    /\ unsaid' = unsaid \ {s}

(* Mutant: the failure goes to the queue and not to the row.                *)
ParseThrowsUnrecorded(s) ==
    /\ s \notin objects \/ ParseFaults
    /\ UNCHANGED verdictVars

(* process: whatever parse threw, recordFailure writes the row with the     *)
(* sessions saved by then, or fails and says nothing.                       *)
ParseThrows(s) ==
    /\ s \notin objects \/ ParseFaults
    /\ \/ /\ \E saved \in BOOLEAN : /\ saved => s \in objects
                                    /\ UpdateRawArtifact(s, "failed", saved)
          /\ unsaid' = unsaid \ {s}
       \/ /\ RecordFaults
          /\ unsaid' = unsaid \cup {s}
          /\ UNCHANGED <<record, joined>>

ParseSucceeds(s) ==
    /\ job[s] = "parsing"
    /\ ParseReturns(s)
    /\ job' = [job EXCEPT ![s] = "done"]
    /\ UNCHANGED <<bytesVars, tries, stalls, stray, swept>>

ParseFails(s) ==
    /\ job[s] = "parsing"
    /\ ParseThrows(s)
    /\ job' = [job EXCEPT ![s] = "thrown"]
    /\ UNCHANGED <<bytesVars, tries, stalls, stray, swept>>

(* The worker reports: a job that returned is completed, and one that threw *)
(* spends another attempt or is given up.                                   *)
ReportJob(s) ==
    /\ \/ /\ job[s] = "done"
          /\ job' = [job EXCEPT ![s] = "completed"]
          /\ UNCHANGED tries
       \/ /\ job[s] = "thrown"
          /\ tries' = [tries EXCEPT ![s] = @ + 1]
          /\ job' = [job EXCEPT ![s] = IF tries'[s] < JobAttempts THEN "waiting" ELSE "failed"]
    /\ UNCHANGED <<verdictVars, bytesVars, stalls, stray, swept>>

(* The worker dies holding the job, or falls silent past its lock and works *)
(* on without it.  The queue hands the job out again, and gives up a job    *)
(* that stalled too often without anybody writing its row.                  *)
WorkerStalls(s) ==
    /\ job[s] \in {"parsing", "done", "thrown"}
    /\ stalls' = [stalls EXCEPT ![s] = @ + 1]
    /\ IF stalls'[s] > MaxStalls
         THEN job' = [job EXCEPT ![s] = "failed"] /\ unsaid' = unsaid \cup {s}
         ELSE job' = [job EXCEPT ![s] = "waiting"] /\ UNCHANGED unsaid
    /\ \/ UNCHANGED stray
       \/ job[s] = "parsing" /\ stray' = stray \cup {s}
    /\ UNCHANGED <<record, joined, bytesVars, tries, swept>>

(* reprocess runs process on a row it listed, whatever the queue is doing.  *)
Reprocess(s) ==
    /\ Reprocessing
    /\ s \in Registered \ stray
    /\ stray' = stray \cup {s}
    /\ UNCHANGED <<verdictVars, bytesVars, jobVars, swept>>

(* A parse outside the queue's hold ends, or its process dies; the queue    *)
(* hears nothing of it.                                                     *)
StrayEnds(s) ==
    /\ s \in stray
    /\ ParseReturns(s) \/ ParseThrows(s) \/ UNCHANGED verdictVars
    /\ stray' = stray \ {s}
    /\ UNCHANGED <<bytesVars, jobVars, swept>>

(* removeOnComplete and removeOnFail: the key of a finished job goes.       *)
RemoveJob(s) ==
    /\ job[s] \in {"completed", "failed"}
    /\ job' = [job EXCEPT ![s] = "removed"]
    /\ tries' = [tries EXCEPT ![s] = 0]
    /\ stalls' = [stalls EXCEPT ![s] = 0]
    /\ UNCHANGED <<verdictVars, bytesVars, stray, swept>>

(* applyRetention, as ingest sees it: one transaction deletes the rows all  *)
(* of whose joined sessions it took.  The bytes and the job's key stay.     *)
ApplyRetention(rows) ==
    /\ Retention
    /\ rows \in SUBSET joined \ {{}}
    /\ record' = [s \in Sha |-> IF s \in rows THEN "none" ELSE record[s]]
    /\ joined' = joined \ rows
    /\ swept' = swept \cup rows
    /\ UNCHANGED <<unsaid, bytesVars, jobVars, stray>>

PutStep == \E s \in Sha : PutObject(s) \/ PutObjectFails(s)
ParseStep == \E s \in Sha : \/ StartParse(s) \/ ParseSucceeds(s) \/ ParseFails(s) \/ ReportJob(s)
                            \/ Reprocess(s) \/ StrayEnds(s)
=============================================================================
