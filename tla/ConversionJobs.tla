--------------------------- MODULE ConversionJobs ---------------------------
(* One conversion (server/src/convert/conversion.service.ts, worker.ts, store/ *)
(* postgres/jobs.ts, cli/src/convert.rs): the request saves a job and queues   *)
(* it, a worker converts the session and stores the bundle, the command line   *)
(* polls the job and downloads.  The queue tries a job three times and hands   *)
(* one whose worker fell silent to another.                                    *)
EXTENDS Naturals

CONSTANTS
    Worker,
    Attempts,       \* attempts: 3 (conversion.service.ts)
    MaxStalls,      \* times the queue takes a job from a worker (BullMQ: 1)
    MaxFailures,    \* bound on puts and saves that fail
    MaxDeaths       \* bound on workers that die

ASSUME ConversionAssumption ==
    /\ Attempts \in Nat \ {0}
    /\ MaxStalls \in Nat /\ MaxFailures \in Nat /\ MaxDeaths \in Nat

VARIABLES
    conversion,     \* jobs row: [status, error, result]
    convertible,    \* the session exists
    unsupported,    \* the target has no writer and the fallback is "fail"
    request,        \* the API call: "none", "saved", "answered", "died"
    queued,         \* the queue's job: [state, tries, stalls, owner]
    convertWorker,  \* [pc, read]: where a worker is, and the row it read
    bundleStored,   \* the object is in storage
    cli,            \* convert --here: "none", "polling", "downloaded", "refused", "timedOut"
    failures, deaths,
    takenAway     \* history: the queue took the job from a worker that was still at it

conversionVars == <<conversion, convertible, unsupported, request, queued, convertWorker, bundleStored, cli, failures, deaths, takenAway>>
work == <<queued, convertWorker>>
callers == <<convertible, unsupported, request, cli>>
trouble == <<deaths, takenAway>>

NoJob == [status |-> "none", error |-> FALSE, result |-> FALSE]
Off == [pc |-> "off", read |-> NoJob]

ConversionInit ==
    /\ conversion = NoJob /\ convertible = TRUE /\ unsupported = FALSE /\ request = "none"
    /\ queued = [state |-> "none", tries |-> 0, stalls |-> 0, owner |-> {}]
    /\ convertWorker = [w \in Worker |-> Off] /\ bundleStored = FALSE /\ cli = "none"
    /\ failures = 0 /\ deaths = 0 /\ takenAway = FALSE

Fails == failures < MaxFailures /\ failures' = failures + 1

(* request: the session exists; the job is saved, then queued. *)
RequestConversion ==
    /\ request = "none" /\ convertible
    /\ unsupported' \in BOOLEAN /\ request' = "saved" /\ conversion' = [NoJob EXCEPT !.status = "queued"]
    /\ UNCHANGED <<work, convertible, bundleStored, cli, failures, trouble>>
EnqueueConversion ==
    /\ request = "saved"
    /\ \/ /\ request' = "answered" /\ cli' \in {"none", "polling"}
          /\ queued' = [queued EXCEPT !.state = "waiting"] /\ UNCHANGED failures
       \/ request' = "died" /\ Fails /\ UNCHANGED <<queued, cli>>
    /\ UNCHANGED <<conversion, convertible, unsupported, convertWorker, bundleStored, trouble>>

DeleteConvertible ==
    /\ convertible /\ convertible' = FALSE
    /\ UNCHANGED <<conversion, work, unsupported, request, bundleStored, cli, failures, trouble>>

TakeConversion(w) ==
    /\ queued.state = "waiting" /\ convertWorker[w].pc = "off"
    /\ queued' = [queued EXCEPT !.state = "active", !.tries = @ + 1, !.owner = {w}]
    /\ convertWorker' = [convertWorker EXCEPT ![w].pc = "read"]
    /\ UNCHANGED <<conversion, callers, bundleStored, failures, trouble>>

(* How the queue takes the end of a run; a run it had given to another worker  *)
(* changes nothing.                                                            *)
Throws(w) ==
    /\ convertWorker' = [convertWorker EXCEPT ![w] = Off]
    /\ queued' = IF queued.owner # {w} THEN queued
                 ELSE [queued EXCEPT !.owner = {}, !.state = IF queued.tries < Attempts THEN "waiting" ELSE "failed"]

(* run reads the job and the session; a session that is gone throws before     *)
(* anything is written.                                                        *)
RunRead(w) ==
    /\ convertWorker[w].pc = "read"
    /\ IF convertible
       THEN /\ convertWorker' = [convertWorker EXCEPT ![w] = [pc |-> "mark", read |-> conversion]]
            /\ UNCHANGED queued
       ELSE Throws(w)
    /\ UNCHANGED <<conversion, callers, bundleStored, failures, trouble>>

(* saveJob writes the whole row over, from the row that was read. *)
MarkRunning(w) ==
    /\ convertWorker[w].pc = "mark"
    /\ conversion' = [convertWorker[w].read EXCEPT !.status = "running"]
    /\ convertWorker' = [convertWorker EXCEPT ![w].pc = "convert"]
    /\ UNCHANGED <<queued, callers, bundleStored, failures, trouble>>

(* Mutant: the job is ready before its bundle is stored. *)
ReadyFirst(w) ==
    /\ convertWorker[w].pc = "convert"
    /\ conversion' = [convertWorker[w].read EXCEPT !.status = "ready", !.result = TRUE]
    /\ convertWorker' = [convertWorker EXCEPT ![w].pc = "ready"]
    /\ UNCHANGED <<queued, callers, bundleStored, failures, trouble>>

(* The engine, and the put of the bundle; either may throw. *)
ConvertAndPut(w) ==
    /\ convertWorker[w].pc = "convert"
    /\ \/ /\ ~unsupported /\ bundleStored' = TRUE /\ UNCHANGED failures
          /\ convertWorker' = [convertWorker EXCEPT ![w].pc = "ready"]
       \/ /\ convertWorker' = [convertWorker EXCEPT ![w].pc = "fail"] /\ UNCHANGED bundleStored
          /\ IF unsupported THEN UNCHANGED failures ELSE Fails
    /\ UNCHANGED <<conversion, queued, callers, trouble>>

SaveReady(w) ==
    /\ convertWorker[w].pc = "ready"
    /\ \/ /\ conversion' = [convertWorker[w].read EXCEPT !.status = "ready", !.result = TRUE]
          /\ convertWorker' = [convertWorker EXCEPT ![w].pc = "done"] /\ UNCHANGED failures
       \/ Fails /\ convertWorker' = [convertWorker EXCEPT ![w].pc = "fail"] /\ UNCHANGED conversion
    /\ UNCHANGED <<queued, callers, bundleStored, trouble>>

(* The failure is recorded and let out, so that the queue runs the job again. *)
SaveFailed(w) ==
    /\ convertWorker[w].pc = "fail"
    /\ conversion' = [convertWorker[w].read EXCEPT !.status = "failed", !.error = TRUE]
    /\ Throws(w)
    /\ UNCHANGED <<callers, bundleStored, failures, trouble>>

RunReturns(w) ==
    /\ convertWorker[w].pc = "done" /\ convertWorker' = [convertWorker EXCEPT ![w] = Off]
    /\ queued' = IF queued.owner = {w} THEN [queued EXCEPT !.owner = {}, !.state = "completed"] ELSE queued
    /\ UNCHANGED <<conversion, callers, bundleStored, failures, trouble>>

WorkerDies(w) ==
    /\ convertWorker[w].pc # "off" /\ deaths < MaxDeaths /\ deaths' = deaths + 1
    /\ convertWorker' = [convertWorker EXCEPT ![w] = Off]
    /\ UNCHANGED <<conversion, queued, callers, bundleStored, failures, takenAway>>

(* A worker that died, or was too busy to renew its lock: the queue hands the  *)
(* job on once, and fails it the next time.                                    *)
Silent == queued.state = "active" /\ \A w \in queued.owner: convertWorker[w].pc = "off"
HandOn ==
    /\ queued.state = "active" /\ (Silent \/ queued.stalls < MaxStalls)
    /\ queued' = [queued EXCEPT !.owner = {},
            !.state = IF queued.stalls < MaxStalls THEN "waiting" ELSE "failed",
            !.stalls = IF queued.stalls < MaxStalls THEN @ + 1 ELSE @]
    /\ takenAway' = (takenAway \/ ~Silent)
    /\ UNCHANGED <<conversion, callers, convertWorker, bundleStored, failures, deaths>>

(* convert --here polls until the job is ready, failed, or the wait is over;   *)
(* the download is refused unless the job is ready.                            *)
PollConversion ==
    /\ cli = "polling"
    /\ cli' = CASE conversion.status = "ready" -> "downloaded"
                [] conversion.status = "failed" -> "refused"
                [] OTHER -> "timedOut"
    /\ UNCHANGED <<conversion, work, convertible, unsupported, request, bundleStored, failures, trouble>>

ConvertStep(w) ==
    RunRead(w) \/ MarkRunning(w) \/ ConvertAndPut(w) \/ SaveReady(w) \/ SaveFailed(w) \/ RunReturns(w)

ConversionNext ==
    \/ RequestConversion \/ EnqueueConversion \/ DeleteConvertible \/ PollConversion \/ HandOn
    \/ \E w \in Worker: TakeConversion(w) \/ ConvertStep(w) \/ WorkerDies(w)

(* The request ends, workers take jobs and go on, and the queue notices a job  *)
(* whose worker is gone.                                                       *)
ConversionFairness ==
    /\ WF_conversionVars(EnqueueConversion) /\ WF_conversionVars(\E w \in Worker: TakeConversion(w))
    /\ \A w \in Worker: WF_conversionVars(ConvertStep(w))
    /\ WF_conversionVars(Silent /\ HandOn)

-----------------------------------------------------------------------------
(* A job that is ready has its bundle in storage, and what the command line    *)
(* downloaded was there; a session that was deleted meanwhile changes neither. *)
ReadyIsStored == conversion.status = "ready" => conversion.result /\ bundleStored

DownloadedWasStored == cli = "downloaded" => bundleStored

(* Ready is the last word, unless the queue ran the job again: its worker died  *)
(* before it said so, or was still at it when the queue took the job away.     *)
ReadyStays ==
    [][conversion.status = "ready" /\ conversion'.status # "ready" => takenAway \/ deaths > 0]_conversionVars

(* A conversion that was queued ends ready, through puts that fail and a       *)
(* worker that dies, or has used up its attempts and says failed (the catch    *)
(* block of run), as long as its session exists and no worker at it loses it.  *)
ConversionSettles ==
    request = "answered" ~>
       \/ conversion.status = "ready" \/ ~convertible \/ takenAway \/ deaths > MaxStalls
       \/ conversion.status = "failed" /\ (unsupported \/ failures + deaths >= Attempts)

(* What one conversion job never gets wrong (conversion.service.ts).           *)
ConversionIsTrue == [](ReadyIsStored /\ DownloadedWasStored) /\ ReadyStays

-----------------------------------------------------------------------------
(* What is inductive about it.                                                 *)
ConversionSpec == ConversionInit /\ [][ConversionNext]_conversionVars

JobRow == [status: {"none", "queued", "running", "ready", "failed"}, error: BOOLEAN, result: BOOLEAN]
AtWork == [pc: {"off", "read", "mark", "convert", "ready", "fail", "done"}, read: JobRow]
Queued == [state: {"none", "waiting", "active", "completed", "failed"}, tries: Nat, stalls: Nat, owner: SUBSET Worker]

ConversionTypeOK ==
    /\ conversion \in JobRow /\ convertWorker \in [Worker -> AtWork] /\ queued \in Queued
    /\ deaths \in Nat /\ takenAway \in BOOLEAN

(* A worker that is about to say ready has put the bundle. *)
ReadyWasPut == \A w \in Worker: convertWorker[w].pc \in {"ready", "done"} => bundleStored

(* While no worker died and none was robbed of the job, who is at it owns it,  *)
(* and whoever owns it is at it.                                               *)
OwnerIsAtIt ==
    ~takenAway /\ deaths = 0 =>
        /\ \A w \in Worker: convertWorker[w].pc # "off" => queued.state = "active" /\ queued.owner = {w}
        /\ queued.state = "active" => \E w \in Worker: queued.owner = {w} /\ convertWorker[w].pc # "off"

(* Then only the worker that has just said so can be at a job that is ready,   *)
(* and the queue will not give it to another.                                  *)
ReadyIsOver ==
    conversion.status = "ready" /\ ~takenAway /\ deaths = 0 =>
        /\ \A w \in Worker: convertWorker[w].pc \in {"off", "done"}
        /\ queued.state \in {"active", "completed"}

(* Nothing is queued, and nobody is at work, before the request has done it.   *)
NotBeforeTheRequest ==
    /\ request = "none" => conversion.status = "none"
    /\ request \in {"none", "saved"} =>
         queued.state = "none" /\ conversion.status # "ready" /\ \A w \in Worker: convertWorker[w].pc = "off"

ConversionInv ==
    /\ ConversionTypeOK /\ ReadyIsStored /\ DownloadedWasStored
    /\ ReadyWasPut /\ OwnerIsAtIt /\ ReadyIsOver /\ NotBeforeTheRequest
=============================================================================
