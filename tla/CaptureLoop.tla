---------------------------- MODULE CaptureLoop -----------------------------
(* How files reach the offline queue: the agent's watch (memoar-cli/watch.rs   *)
(* over daemon/watcher.rs) and the desktop window's timer (memoar-desktop),    *)
(* beside the tools that write, rewrite and remove the files meanwhile.  What  *)
(* a sync does with the queue is CaptureSync; here it sends all of it or fails *)
EXTENDS Naturals

CONSTANTS Log,          \* files under the sources' paths
          Debounce,     \* sleeps after which a file has certainly sat out the debounce
          MaxWrites, MaxSetbacks

ASSUME LoopAssumption == Debounce \in Nat \ {0} /\ MaxWrites \in Nat /\ MaxSetbacks \in Nat

Program == {"watch", "window"}

VARIABLES
    log,       \* file -> its version (0: not there), what a stat shows of it, whether it is too large
    seen,      \* the watch's observation of a file: print (0: none), the sleeps it sat still, emitted
    at,        \* program -> where it stands, and whether it is the watch's scan or a whole pass
    todo,      \* program -> the files of its listing still to come, and the one it is enqueueing
    snapshots, \* snapshots in the offline queue
    sent,      \* snapshots a sync has sent
    missed,    \* prints the watch marked as emitted and then failed to queue
    writes, mishaps

loopVars == <<log, seen, at, todo, snapshots, sent, missed, writes, mishaps>>

Unseen == [f \in Log |-> [print |-> 0, waited |-> 0, emitted |-> FALSE]]

LoopInit ==
    /\ log = [f \in Log |-> [version |-> 0, print |-> 0, large |-> FALSE]]
    /\ seen = Unseen
    /\ at = [p \in Program |-> [place |-> "off", scan |-> FALSE]]
    /\ todo = [p \in Program |-> [files |-> {}, now |-> {}]]
    /\ snapshots = {} /\ sent = {} /\ missed = {} /\ writes = 0 /\ mishaps = 0

There(f) == log[f].version > 0

Snapshot(f) == <<f, log[f].version>>

StandsAt(p, place, scan) == at[p] = [place |-> place, scan |-> scan]

GoesTo(p, place, scan) == at' = [at EXCEPT ![p] = [place |-> place, scan |-> scan]]

(* A tool writes: a write that keeps the length within the grain of the clock  *)
(* leaves what a stat shows as it was.                                         *)
Write(f) ==
    /\ writes < MaxWrites /\ writes' = writes + 1
    /\ \E kind \in {"plain", "large"} \cup (IF There(f) THEN {"unseen"} ELSE {}) :
           log' = [log EXCEPT ![f] = [version |-> writes + 1, large |-> kind = "large",
                                      print |-> IF kind = "unseen" THEN @.print ELSE writes + 1]]
    /\ UNCHANGED <<seen, at, todo, snapshots, sent, missed, mishaps>>

Vanish(f) ==
    /\ There(f) /\ writes < MaxWrites /\ writes' = writes + 1
    /\ log' = [log EXCEPT ![f] = [version |-> 0, print |-> 0, large |-> FALSE]]
    /\ UNCHANGED <<seen, at, todo, snapshots, sent, missed, mishaps>>

(* `memoar sync --watch` takes every file once before it watches, and the      *)
(* window's thread does so at every turn.                                      *)
Launch(p) ==
    /\ at[p].place = "off"
    /\ GoesTo(p, "list", FALSE)
    /\ seen' = IF p = "watch" THEN Unseen ELSE seen
    /\ missed' = IF p = "watch" THEN {} ELSE missed
    /\ UNCHANGED <<log, todo, snapshots, sent, writes, mishaps>>

Mishap == mishaps < MaxSetbacks /\ mishaps' = mishaps + 1

Killed(p) ==
    /\ at[p].place # "off" /\ Mishap
    /\ GoesTo(p, "off", FALSE)
    /\ todo' = [todo EXCEPT ![p] = [files |-> {}, now |-> {}]]
    /\ UNCHANGED <<log, seen, snapshots, sent, missed, writes>>

List(p) ==
    /\ at[p].place = "list"
    /\ todo' = [todo EXCEPT ![p].files = {f \in Log : There(f)}]
    /\ at' = [at EXCEPT ![p].place = "take"]
    /\ UNCHANGED <<log, seen, snapshots, sent, missed, writes, mishaps>>

(* A failed pass: the window records it, a watch ends unless it is scanning    *)
(* and the failure is one that repeating can cure.                             *)
Broken(p, retryable) ==
    IF p = "window" \/ (at[p].scan /\ retryable)
    THEN at' = [at EXCEPT ![p].place = IF p = "watch" THEN "retreat" ELSE "rest"]
    ELSE at' = [at EXCEPT ![p].place = "ended"]

(* A walk that loses an entry between finding and inspecting it is an error. *)
ListFails(p) ==
    /\ at[p].place = "list" /\ Mishap
    /\ Broken(p, FALSE)
    /\ UNCHANGED <<log, seen, todo, snapshots, sent, missed, writes>>

Drop(p) == todo' = [todo EXCEPT ![p] = [files |-> {}, now |-> {}]]

TakeUp(p, f) == todo' = [todo EXCEPT ![p] = [files |-> @.files \ {f}, now |-> {f}]]

PassOver(p, f) == todo' = [todo EXCEPT ![p].files = @ \ {f}]

(* A whole pass enqueues each file it listed. *)
TakeNext(p, f) ==
    /\ StandsAt(p, "take", FALSE) /\ f \in todo[p].files /\ todo[p].now = {}
    /\ TakeUp(p, f)
    /\ UNCHANGED <<log, seen, at, snapshots, sent, missed, writes, mishaps>>

Still(f) == seen[f].print \in {0, log[f].print}

(* A changed fingerprint that leaves the path marked as emitted. *)
ObservedStill(f) ==
    IF ~Still(f) THEN [seen[f] EXCEPT !.print = log[f].print, !.waited = 0]
    ELSE [seen[f] EXCEPT !.print = log[f].print,
                         !.emitted = @ \/ seen[f].waited = Debounce]

(* DebouncedChanges.observe: the observation after a stat. *)
Observed(f) ==
    IF ~Still(f) THEN [print |-> log[f].print, waited |-> 0, emitted |-> FALSE]
    ELSE [seen[f] EXCEPT !.print = log[f].print,
                         !.emitted = @ \/ seen[f].waited = Debounce]

Scan(f) ==
    /\ StandsAt("watch", "take", TRUE) /\ f \in todo["watch"].files /\ todo["watch"].now = {}
    /\ There(f)
    /\ seen' = [seen EXCEPT ![f] = Observed(f)]
    /\ IF seen'[f].emitted /\ ~seen[f].emitted THEN TakeUp("watch", f) ELSE PassOver("watch", f)
    /\ UNCHANGED <<log, at, snapshots, sent, missed, writes, mishaps>>

(* The stat of a file that went after it was listed ends the pass. *)
ScanMisses(f) ==
    /\ StandsAt("watch", "take", TRUE) /\ f \in todo["watch"].files /\ todo["watch"].now = {}
    /\ ~There(f)
    /\ Broken("watch", FALSE) /\ Drop("watch")
    /\ UNCHANGED <<log, seen, snapshots, sent, missed, writes, mishaps>>

Missed(p, f) == IF at[p].scan THEN missed \cup {<<f, seen[f].print>>} ELSE missed

(* enqueue_with_redaction: what is too large is skipped, a file that went is   *)
(* an error, and so is a database another process holds.                       *)
Enqueue(p, f) ==
    /\ at[p].place = "take" /\ todo[p].now = {f}
    /\ There(f)
    /\ snapshots' = IF log[f].large THEN snapshots ELSE snapshots \cup {Snapshot(f)}
    /\ todo' = [todo EXCEPT ![p].now = {}]
    /\ UNCHANGED <<log, seen, at, sent, missed, writes, mishaps>>

EnqueueFails(p, f) ==
    /\ at[p].place = "take" /\ todo[p].now = {f}
    /\ \/ ~There(f) /\ Broken(p, FALSE) /\ UNCHANGED mishaps
       \/ Mishap /\ \E busy \in BOOLEAN : Broken(p, busy)
    /\ missed' = Missed(p, f)
    /\ Drop(p)
    /\ UNCHANGED <<log, seen, snapshots, sent, writes>>

PassDone(p) ==
    /\ at[p].place = "take" /\ todo[p].files = {} /\ todo[p].now = {}
    /\ at' = [at EXCEPT ![p].place = "sync"]
    /\ UNCHANGED <<log, seen, todo, snapshots, sent, missed, writes, mishaps>>

Sync(p) ==
    /\ at[p].place = "sync"
    /\ sent' = snapshots
    /\ at' = [at EXCEPT ![p].place = "rest"]
    /\ UNCHANGED <<log, seen, todo, snapshots, missed, writes, mishaps>>

(* An archive out of reach is asked again, a refused credential ends a watch. *)
SyncFails(p) ==
    /\ at[p].place = "sync" /\ Mishap
    /\ \E reachable \in BOOLEAN :
           at' = [at EXCEPT ![p].place = IF p = "watch" /\ reachable THEN "ended" ELSE "rest"]
    /\ UNCHANGED <<log, seen, todo, snapshots, sent, missed, writes>>

(* What was observed has sat still that much longer; a file that was not yet   *)
(* seen has no time to count from (observe, stable_since).                     *)
Aged(f, d) ==
    IF seen[f].print = 0 THEN seen[f]
    ELSE [seen[f] EXCEPT !.waited = IF @ + d > Debounce THEN Debounce ELSE @ + d]

Sleeps == \E d \in 1..Debounce : seen' = [f \in Log |-> Aged(f, d)]

Rest(p) ==
    /\ at[p].place = "rest"
    /\ GoesTo(p, "list", p = "watch")
    /\ IF p = "watch" THEN Sleeps ELSE UNCHANGED seen
    /\ UNCHANGED <<log, todo, snapshots, sent, missed, writes, mishaps>>

(* A watch whose scan broke off syncs once more before it scans again. *)
Retreat ==
    /\ at["watch"].place = "retreat"
    /\ GoesTo("watch", "sync", TRUE)
    /\ Sleeps
    /\ UNCHANGED <<log, todo, snapshots, sent, missed, writes, mishaps>>

LoopStep(p) ==
    \/ List(p) \/ ListFails(p) \/ PassDone(p) \/ Sync(p) \/ SyncFails(p) \/ Rest(p)
    \/ \E f \in Log : TakeNext(p, f) \/ Enqueue(p, f) \/ EnqueueFails(p, f)
    \/ p = "watch" /\ (Retreat \/ \E f \in Log : Scan(f) \/ ScanMisses(f))

LoopNext ==
    \/ \E f \in Log : Write(f) \/ Vanish(f)
    \/ \E p \in Program : Launch(p) \/ Killed(p) \/ LoopStep(p)

LoopFairness == \A p \in Program : WF_loopVars(LoopStep(p))

-----------------------------------------------------------------------------
IsUp(p) == at[p].place \notin {"off", "ended"}

(* A write that a stat does not show, and a version no pass will take. *)
Hidden(f) == log[f].print # log[f].version

Excused(f) == Hidden(f) \/ log[f].large \/ <<f, log[f].print>> \in missed

(* A path the watch counts as dealt with is: as long as its stat is still what *)
(* the watch last saw, the version it shows is in the queue, unless it was one *)
(* the queue refused (watcher.rs observe marks before enqueue is tried).       *)
EmittedWasTaken(f) ==
    (IsUp("watch") /\ There(f) /\ seen[f].emitted /\ Still(f) /\ todo["watch"].now # {f})
        => Excused(f) \/ Snapshot(f) \in snapshots

(* A file's last version reaches the archive: through the window's timer       *)
(* whatever went wrong on the way, through a watch alone only if a stat shows  *)
(* it, no enqueue of it failed, and the watch has not ended.                   *)
Done(f) ==
    \/ ~There(f) \/ log[f].large \/ Snapshot(f) \in sent
    \/ ~IsUp("window") /\ (IsUp("watch") => Excused(f))

LastVersionIsSent == \A f \in Log : <>[]Done(f)

(* Of every file. *)
EmittedIsTaken == \A f \in Log : EmittedWasTaken(f)

-----------------------------------------------------------------------------
(* What the proofs carry. *)
LoopSpec == LoopInit /\ [][LoopNext]_loopVars

Stat == [version: Nat, print: Nat, large: BOOLEAN]
Observation == [print: Nat, waited: Nat, emitted: BOOLEAN]
Posture == [place: {"off", "list", "take", "sync", "rest", "retreat", "ended"}, scan: BOOLEAN]
Listing == [files: SUBSET Log, now: SUBSET Log]

LoopTypeOK ==
    /\ log \in [Log -> Stat] /\ seen \in [Log -> Observation]
    /\ at \in [Program -> Posture] /\ todo \in [Program -> Listing]
    /\ snapshots \subseteq Log \X Nat /\ sent \subseteq Log \X Nat /\ missed \subseteq Log \X Nat
    /\ writes \in Nat /\ mishaps \in Nat

(* A version is the write that made it, and a print the last write that a stat *)
(* of the file showed: neither is ahead of the writes, and what is there and   *)
(* what was emitted have a print.                                              *)
PrintsAreOfWrites(f) ==
    /\ log[f].version <= writes /\ log[f].print <= writes /\ seen[f].print <= writes
    /\ There(f) => log[f].print # 0
    /\ seen[f].emitted => seen[f].print # 0

LoopInv == LoopTypeOK /\ \A f \in Log : PrintsAreOfWrites(f) /\ EmittedWasTaken(f)
=============================================================================
