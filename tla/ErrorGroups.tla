----------------------------- MODULE ErrorGroups -----------------------------
(* The failures one process of the server has counted (errors/), and the file  *)
(* it writes them to so that a restart does not begin from nothing: the API,   *)
(* which reads the file before it listens, or the worker, which takes jobs     *)
(* while it has not read it yet.  A write is one call to the end, but a death  *)
(* may fall into it; what fails after the last write is not in the file.       *)
EXTENDS Naturals, FiniteSets

CONSTANTS Kind,        \* fingerprints of failures
          MaxGroups,   \* how many are tracked
          MaxErrors,   \* how many failures a behaviour has
          MaxStops,    \* how often the process stops or dies
          MaxUnlucky   \* writes that fail and times the file is damaged

ASSUME ErrorGroupsAssumption == IsFiniteSet(Kind) /\ MaxGroups \in Nat

VARIABLES
    errorPlace,  \* [runs: "api" or "worker", at: how far it is]
    groups,      \* per kind, how often it was counted; 0 is no group
    overflow,    \* failures dropped because the cap was reached
    errorFile,   \* [groups, dropped, readable]: the file, an empty one at first
    temporary,   \* what was last written beside it
    happened,    \* history: per kind, how often it was counted since the beginning
    turnedAway,     \* history: how many were dropped since then
    slip,        \* history: [fresh, late, damaged, lost, cut], see below
    chance       \* [failures, stops, unlucky] so far

errorVars == <<errorPlace, groups, overflow, errorFile, temporary, happened, turnedAway, slip, chance>>

NoErrors == [k \in Kind |-> 0]
EmptyFile == [groups |-> NoErrors, dropped |-> 0, readable |-> TRUE]

ErrorPlaceIs(p) == errorPlace.at = p
ErrorMoves(p) == errorPlace' = [errorPlace EXCEPT !.at = p]

ErrorInit ==
    /\ errorPlace \in [runs: {"api", "worker"}, at: {"down"}]
    /\ groups = NoErrors /\ overflow = 0
    /\ errorFile = EmptyFile /\ temporary = EmptyFile
    /\ happened = NoErrors /\ turnedAway = 0
    /\ slip = [fresh |-> FALSE, late |-> FALSE, damaged |-> FALSE, lost |-> FALSE, cut |-> FALSE]
    /\ chance = [failures |-> 0, stops |-> 0, unlucky |-> 0]

Tracked(counts) == {k \in Kind : counts[k] # 0}

(* A new process has counted nothing. *)
StartProcess ==
    /\ ErrorPlaceIs("down")
    /\ ErrorMoves("starting")
    /\ groups' = NoErrors /\ overflow' = 0
    /\ slip' = [slip EXCEPT !.fresh = FALSE, !.late = FALSE]
    /\ UNCHANGED <<errorFile, temporary, happened, turnedAway, chance>>

(* What the process does while it fails: requests once it listens, jobs from   *)
(* the moment the queue is joined, both until it is gone.                      *)
MayFail == ErrorPlaceIs("up") \/ ErrorPlaceIs("closing")
             \/ (errorPlace.runs = "worker" /\ ErrorPlaceIs("starting"))

RecordError(k) ==
    /\ MayFail /\ chance.failures < MaxErrors
    /\ IF groups[k] = 0 /\ Cardinality(Tracked(groups)) >= MaxGroups
       THEN /\ overflow' = overflow + 1 /\ turnedAway' = turnedAway + 1
            /\ UNCHANGED <<groups, happened>>
       ELSE /\ groups' = [groups EXCEPT ![k] = @ + 1]
            /\ happened' = [happened EXCEPT ![k] = @ + 1]
            /\ UNCHANGED <<overflow, turnedAway>>
    /\ slip' = [slip EXCEPT !.fresh = TRUE, !.late = ErrorPlaceIs("closing")]
    /\ chance' = [chance EXCEPT !.failures = @ + 1]
    /\ UNCHANGED <<errorPlace, errorFile, temporary>>

(* The groups the file has, at most as many as are tracked, which is more than *)
(* a file has that was written by a process that never held more.              *)
TakenBack(K) ==
    /\ K \subseteq Tracked(errorFile.groups)
    /\ IF Cardinality(Tracked(errorFile.groups)) <= MaxGroups
       THEN K = Tracked(errorFile.groups) ELSE Cardinality(K) = MaxGroups

(* The counts of the file are added to what was counted since the start.       *)
Merged(K) == [k \in Kind |-> IF k \in K THEN groups[k] + errorFile.groups[k] ELSE groups[k]]

RestoreErrors ==
    /\ ErrorPlaceIs("starting")
    /\ ErrorMoves("up")
    /\ IF errorFile.readable
       THEN \E K \in SUBSET Kind :
              /\ TakenBack(K)
              /\ groups' = Merged(K)
              /\ slip' = [slip EXCEPT !.cut = @ \/ K # Tracked(errorFile.groups)]
              /\ overflow' = overflow + errorFile.dropped
       ELSE /\ slip' = [slip EXCEPT !.lost = @ \/ slip.damaged]
            /\ UNCHANGED <<groups, overflow>>
    /\ UNCHANGED <<errorFile, temporary, happened, turnedAway, chance>>

Persistable == [groups |-> groups, dropped |-> overflow, readable |-> TRUE]

(* Mutant: the file is written in its place. *)
BeginWriteInPlace ==
    /\ temporary' = Persistable
    /\ errorFile' = [Persistable EXCEPT !.readable = FALSE]

(* The first half of writeErrorState: what is to be written, beside the file.  *)
BeginWrite ==
    /\ temporary' = Persistable
    /\ UNCHANGED errorFile

(* The timer fires, or a signal asks the process to stop: one last write.      *)
FlushErrors ==
    /\ ErrorPlaceIs("up")
    /\ ErrorMoves("saving") \/ (chance.stops < MaxStops /\ ErrorMoves("stopping"))
    /\ BeginWrite
    /\ UNCHANGED <<groups, overflow, happened, turnedAway, slip, chance>>

AfterWrite == IF ErrorPlaceIs("saving") THEN "up" ELSE "closing"

(* The second half: the rename.                                                *)
RenameErrors ==
    /\ ErrorPlaceIs("saving") \/ ErrorPlaceIs("stopping")
    /\ ErrorMoves(AfterWrite)
    /\ errorFile' = temporary
    /\ slip' = [slip EXCEPT !.fresh = FALSE, !.damaged = FALSE]
    /\ UNCHANGED <<groups, overflow, temporary, happened, turnedAway, chance>>

(* A write that fails is logged, and the process goes on.                      *)
FlushFails ==
    /\ ErrorPlaceIs("saving") \/ ErrorPlaceIs("stopping")
    /\ chance.unlucky < MaxUnlucky
    /\ ErrorMoves(AfterWrite)
    /\ chance' = [chance EXCEPT !.unlucky = @ + 1]
    /\ slip' = [slip EXCEPT !.late = ErrorPlaceIs("stopping") /\ slip.fresh]
    /\ UNCHANGED <<groups, overflow, errorFile, temporary, happened, turnedAway>>

(* The process ends as it was asked to, or dies wherever it is.                *)
ExitProcess ==
    /\ ErrorPlaceIs("closing")
    /\ ErrorMoves("down")
    /\ chance' = [chance EXCEPT !.stops = @ + 1]
    /\ slip' = [slip EXCEPT !.lost = @ \/ slip.late]
    /\ UNCHANGED <<groups, overflow, errorFile, temporary, happened, turnedAway>>

ProcessDies ==
    /\ ~ErrorPlaceIs("down") /\ chance.stops < MaxStops
    /\ ErrorMoves("down")
    /\ chance' = [chance EXCEPT !.stops = @ + 1]
    /\ slip' = [slip EXCEPT !.lost = @ \/ slip.fresh]
    /\ UNCHANGED <<groups, overflow, errorFile, temporary, happened, turnedAway>>

(* The disk, or a version that shapes the file differently.                    *)
FileIsDamaged ==
    /\ errorFile.readable /\ chance.unlucky < MaxUnlucky
    /\ errorFile' = [errorFile EXCEPT !.readable = FALSE]
    /\ chance' = [chance EXCEPT !.unlucky = @ + 1]
    /\ slip' = [slip EXCEPT !.damaged = TRUE]
    /\ UNCHANGED <<errorPlace, groups, overflow, temporary, happened, turnedAway>>

ErrorNext ==
    \/ StartProcess \/ RestoreErrors \/ FlushErrors \/ RenameErrors \/ FlushFails
    \/ ExitProcess \/ ProcessDies \/ FileIsDamaged
    \/ \E k \in Kind : RecordError(k)

-----------------------------------------------------------------------------
(* Across restarts a failure is never counted twice, although the worker       *)
(* counts some before it has read the file and adds the file's to them         *)
(* (error-aggregator.ts restore).                                              *)
InTheFile(k) == IF errorFile.readable THEN errorFile.groups[k] ELSE 0
DroppedInTheFile == IF errorFile.readable THEN errorFile.dropped ELSE 0

Working == errorPlace.at \notin {"down", "starting"}

NeverCountedTwice ==
    /\ Working => overflow <= turnedAway /\ \A k \in Kind : groups[k] <= happened[k]
    /\ ErrorPlaceIs("starting") =>
         /\ overflow + DroppedInTheFile <= turnedAway
         /\ \A k \in Kind : groups[k] + InTheFile(k) <= happened[k]

(* "So the total stays honest" (error-aggregator.ts:48): what a running        *)
(* process reports is everything since the first start, unless a process died  *)
(* or failed to write with something to write, something failed after its last *)
(* write, the file was damaged from outside, or a start left groups out.       *)
CountsSurvive ==
    Working /\ ~slip.lost /\ ~slip.cut => groups = happened /\ overflow = turnedAway

(* Only the worker can leave groups out, because only it may come to hold more *)
(* than the cap: what it read and what it had counted by then.                 *)
CapIsKept ==
    /\ errorPlace.runs = "api" => ~slip.cut
    /\ Cardinality(Tracked(groups)) <= (IF errorPlace.runs = "api" THEN 1 ELSE 2) * MaxGroups

(* What the list of failures says across restarts (errors.controller.ts).      *)
ErrorsHold == NeverCountedTwice /\ CountsSurvive /\ CapIsKept

-----------------------------------------------------------------------------
(* What is inductive about it.                                                 *)
ErrorSpec == ErrorInit /\ [][ErrorNext]_errorVars

ErrorTypeOK ==
    /\ errorPlace \in [runs: {"api", "worker"},
                       at: {"down", "starting", "up", "saving", "stopping", "closing"}]
    /\ groups \in [Kind -> Nat] /\ overflow \in Nat
    /\ errorFile \in [groups: [Kind -> Nat], dropped: Nat, readable: BOOLEAN]
    /\ happened \in [Kind -> Nat] /\ turnedAway \in Nat
    /\ slip \in [fresh: BOOLEAN, late: BOOLEAN, damaged: BOOLEAN, lost: BOOLEAN, cut: BOOLEAN]

(* The rename puts in place what the process holds, since nothing else runs    *)
(* during the call; only what comes from outside makes the file unreadable.    *)
WriteIsWhole ==
    /\ ErrorPlaceIs("saving") \/ ErrorPlaceIs("stopping") => temporary = Persistable
    /\ slip.damaged = ~errorFile.readable

FileIsNotAhead ==
    /\ DroppedInTheFile <= turnedAway
    /\ \A k \in Kind : InTheFile(k) <= happened[k]

(* The file has everything wherever a process may end without losing anything: *)
(* while it is down, with nothing new since the last write, or with nothing    *)
(* that came after the last write of all; a process that has not read it yet   *)
(* has the rest.                                                               *)
FileIsCurrent ==
    slip.lost \/ slip.cut \/ slip.damaged \/
      /\ \/ ErrorPlaceIs("down") \/ (Working /\ ~slip.fresh) \/ (ErrorPlaceIs("closing") /\ ~slip.late)
         => errorFile.groups = happened /\ errorFile.dropped = turnedAway
      /\ ErrorPlaceIs("starting") =>
           /\ overflow + errorFile.dropped = turnedAway
           /\ \A k \in Kind : groups[k] + errorFile.groups[k] = happened[k]

(* Before it has read the file, a process holds what failed since its start.   *)
StartsEmpty ==
    ErrorPlaceIs("starting") =>
      /\ ~slip.fresh \/ errorPlace.runs = "api" => groups = NoErrors /\ overflow = 0
      /\ Cardinality(Tracked(groups)) <= MaxGroups

FileIsCapped == errorPlace.runs = "api" => Cardinality(Tracked(errorFile.groups)) <= MaxGroups

ErrorInv ==
    /\ ErrorTypeOK /\ ErrorsHold
    /\ WriteIsWhole /\ FileIsNotAhead /\ FileIsCurrent /\ StartsEmpty /\ FileIsCapped
=============================================================================
