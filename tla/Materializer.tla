---------------------------- MODULE Materializer ----------------------------
(* Writing a conversion bundle below the home directory (agent crate           *)
(* memoar-materializer): the bundle is verified, every target is checked, the  *)
(* files are staged beside their targets and linked in one by one, or what was *)
(* linked is taken out again.  Runs on one machine overlap (listen, convert    *)
(* --here), a run may die anywhere, and the tool that owns the directory       *)
(* writes there too.                                                           *)
EXTENDS Naturals, FiniteSets

CONSTANTS
    Run,            \* materializations of one session for one target
    Files,          \* files of the target: 1 for claude-code and codex, 3 for antigravity-cli
    Bundle,         \* Bundle[r]: what the run would write (one value for all files)
    Defects,        \* ways in which a bundle can be unfit: its version, digest, paths, sizes ...
    MaxCrashes, MaxToolWrites,
    MaxStuck        \* runs of which a file or a temporary could not be removed

ASSUME MaterializerAssumption ==
    /\ Files \in Nat \ {0} /\ MaxCrashes \in Nat /\ MaxToolWrites \in Nat /\ MaxStuck \in Nat
    /\ \A r \in Run: Bundle[r] \notin {"nobody", "tool"}

File == 1..Files
Absent == [of |-> "nobody", continued |-> FALSE]
Tool == [of |-> "tool", continued |-> FALSE]
Written(b) == [of |-> b, continued |-> FALSE]

VARIABLES
    file,       \* target -> whose bytes, and whether the tool continued them
    staged,     \* temporaries on disk: <<run, file>>
    run,        \* [pc, at, unchanged, linked, outcome]
    crashes, toolWrites,
    undone,     \* history: files a rollback took out
    stuck,      \* history: runs that could not remove all they meant to
    lapped      \* history: runs that were under way with another

materializerVars == <<file, staged, run, crashes, toolWrites, undone, stuck, lapped>>

NoRun == [pc |-> "idle", at |-> 1, unchanged |-> {}, linked |-> {}, outcome |-> "none"]

MaterializerInit ==
    /\ file = [f \in File |-> Absent] /\ staged = {} /\ run = [r \in Run |-> NoRun]
    /\ crashes = 0 /\ toolWrites = 0 /\ undone = {} /\ stuck = {} /\ lapped = {}

At(r, pc) == run[r].pc = pc
Holds(f, b) == file[f] = Written(b)
UnderWay(r) == run[r].pc \notin {"idle", "ended"}
Ends(r, outcome) == run' = [run EXCEPT ![r].pc = "ended", ![r].outcome = outcome]
Temporaries(r) == {<<r, f>>: f \in File}

(* materialize_bundle: nothing is touched before every check has passed. *)
MaterializeBundle(r) ==
    /\ At(r, "idle")
    /\ \E defects \in {{}} \cup {{d}: d \in Defects}:
          IF defects # {} THEN Ends(r, "refused") /\ UNCHANGED lapped
          ELSE /\ run' = [run EXCEPT ![r].pc = "check"]
               /\ lapped' = IF \E o \in Run: UnderWay(o)
                                THEN lapped \cup {r} \cup {o \in Run: UnderWay(o)} ELSE lapped
    /\ UNCHANGED <<file, staged, crashes, toolWrites, undone, stuck>>

(* A target that holds other bytes is a collision; one that holds these bytes  *)
(* is unchanged; one that is absent is to be written.  An ancestor that is not *)
(* a directory of its own, and a target that cannot be read, end the run.      *)
CheckTarget(r) ==
    /\ At(r, "check")
    /\ LET f == run[r].at
           kept == IF Holds(f, Bundle[r]) THEN {f} ELSE {}
       IN \/ Ends(r, "unsafe")
          \/ IF file[f] # Absent /\ ~Holds(f, Bundle[r]) THEN Ends(r, "collision")
             ELSE run' = [run EXCEPT ![r].unchanged = @ \cup kept,
                           ![r].at = IF f = Files THEN 1 ELSE f + 1,
                           ![r].pc = IF f = Files THEN "stage" ELSE "check"]
    /\ UNCHANGED <<file, staged, crashes, toolWrites, undone, stuck, lapped>>

Advance(r, pc, after) ==
    run' = [run EXCEPT ![r].at = IF @ = Files THEN 1 ELSE @ + 1,
                       ![r].pc = IF run[r].at = Files THEN after ELSE pc]

(* remove_file, for every temporary of the run, its failures ignored. *)
RemoveTemporaries(r) ==
    \E kept \in SUBSET (staged \cap Temporaries(r)) :
       /\ kept # {} => Cardinality(stuck \cup {r}) <= MaxStuck
       /\ staged' = (staged \ Temporaries(r)) \cup kept
       /\ stuck' = IF kept = {} THEN stuck ELSE stuck \cup {r}

(* A temporary is created anew, written and synced; a failure removes what     *)
(* was staged.  Where the parent directory cannot be made, create_safe_parent  *)
(* returns at once, and what was staged so far stays on the disk.              *)
Stage(r) ==
    /\ At(r, "stage")
    /\ IF run[r].at \in run[r].unchanged
       THEN Advance(r, "stage", "link") /\ UNCHANGED <<staged, stuck>>
       ELSE \/ /\ Advance(r, "stage", "link")
               /\ staged' = staged \cup {<<r, run[r].at>>} /\ UNCHANGED stuck
            \/ Ends(r, "io") /\ RemoveTemporaries(r)
            \/ Ends(r, "unsafe") /\ UNCHANGED <<staged, stuck>>
    /\ UNCHANGED <<file, crashes, toolWrites, undone, lapped>>

(* Mutant: the temporary is renamed over the target. *)
RenameIn(r) ==
    /\ At(r, "link") /\ Advance(r, "link", "clean")
    /\ file' = IF run[r].at \in run[r].unchanged THEN file
               ELSE [file EXCEPT ![run[r].at] = Written(Bundle[r])]
    /\ UNCHANGED <<staged, crashes, toolWrites, undone, stuck, lapped>>

(* hard_link never replaces: a target that appeared meanwhile is a collision,  *)
(* and the whole bundle is rolled back.                                        *)
Link(r) ==
    /\ At(r, "link")
    /\ LET f == run[r].at
       IN IF f \in run[r].unchanged
          THEN Advance(r, "link", "clean") /\ UNCHANGED file
          ELSE \/ /\ file[f] = Absent
                  /\ file' = [file EXCEPT ![f] = Written(Bundle[r])]
                  /\ run' = [run EXCEPT ![r].linked = @ \cup {f},
                              ![r].at = IF f = Files THEN 1 ELSE f + 1,
                              ![r].pc = IF f = Files THEN "clean" ELSE "link"]
               \/ /\ run' = [run EXCEPT ![r].pc = "undo",
                              ![r].outcome = IF file[f] # Absent THEN "collision" ELSE "io"]
                  /\ UNCHANGED file
    /\ UNCHANGED <<staged, crashes, toolWrites, undone, stuck, lapped>>

(* The rollback takes out what the run linked, the last first, whatever the    *)
(* file holds by now; one that cannot be removed stays.                        *)
Undo(r) ==
    /\ At(r, "undo")
    /\ LET f == run[r].at - 1
       IN IF f = 0
          THEN /\ run' = [run EXCEPT ![r].pc = "ended"]
               /\ RemoveTemporaries(r) /\ UNCHANGED <<file, undone>>
          ELSE \/ /\ run' = [run EXCEPT ![r].at = f, ![r].linked = @ \ {f}]
                  /\ IF f \in run[r].linked
                     THEN file' = [file EXCEPT ![f] = Absent] /\ undone' = undone \cup {f}
                     ELSE UNCHANGED <<file, undone>>
                  /\ UNCHANGED <<staged, stuck>>
               \/ /\ f \in run[r].linked /\ Cardinality(stuck \cup {r}) <= MaxStuck
                  /\ run' = [run EXCEPT ![r].at = f] /\ stuck' = stuck \cup {r}
                  /\ UNCHANGED <<file, undone, staged>>
    /\ UNCHANGED <<crashes, toolWrites, lapped>>

Clean(r) ==
    /\ At(r, "clean") /\ Ends(r, "ok") /\ RemoveTemporaries(r)
    /\ UNCHANGED <<file, crashes, toolWrites, undone, lapped>>

(* A run that dies leaves what it linked and what it staged. *)
RunDies(r) ==
    /\ crashes < MaxCrashes /\ UnderWay(r) /\ crashes' = crashes + 1
    /\ Ends(r, "died") /\ UNCHANGED <<file, staged, toolWrites, undone, stuck, lapped>>

(* The tool writes a file of its own, or continues a session of ours. *)
ToolWrites(f) ==
    /\ toolWrites < MaxToolWrites /\ toolWrites' = toolWrites + 1
    /\ file' = [file EXCEPT ![f] = IF @ \in {Absent, Tool} THEN Tool ELSE [@ EXCEPT !.continued = TRUE]]
    /\ UNCHANGED <<staged, run, crashes, undone, stuck, lapped>>

MaterializerNext ==
    \/ \E r \in Run: \/ MaterializeBundle(r) \/ CheckTarget(r) \/ Stage(r) \/ Link(r)
                     \/ Undo(r) \/ Clean(r) \/ RunDies(r)
    \/ \E f \in File: ToolWrites(f)

MaterializerSpec == MaterializerInit /\ [][MaterializerNext]_materializerVars

-----------------------------------------------------------------------------
Failed(r) == At(r, "ended") /\ run[r].outcome \in {"refused", "unsafe", "io", "collision"}

(* No run writes over a file: what a target holds changes by the tool's own    *)
(* writes, or goes with the rollback of the run that had linked it, and a file *)
(* the tool made is never touched (commit.rs, hard_link).                      *)
NeverClobbers ==
    [][\A f \in File: file[f] # Absent /\ file'[f] # file[f] =>
          \/ toolWrites' # toolWrites
          \/ file[f] # Tool /\ \E r \in Run: run[r].pc = "undo" /\ f \in run[r].linked]_materializerVars

(* All or nothing (commit.rs, "rolling all of it back"): a run that reports    *)
(* success has every file of the bundle in place, but for a file another run   *)
(* linked, that this run found unchanged, and that the other run's rollback    *)
(* took out.  A run that failed has left no file of the bundle that it linked  *)
(* and no temporary, unless one could not be removed; and one that could not   *)
(* make a directory has left the temporaries it had staged by then.            *)
AllOrNothing ==
    \A r \in Run:
       /\ run[r].outcome = "ok" => \A f \in File \ undone: file[f].of = Bundle[r]
       /\ Failed(r) => run[r].linked = {} \/ r \in stuck
       /\ Failed(r) /\ run[r].outcome # "unsafe" =>
             staged \cap Temporaries(r) = {} \/ r \in stuck

(* A run that died is made good by the next one of the same bundle: without    *)
(* the tool and without another run beside it, a replay never collides.        *)
ReplayApplies ==
    \A r \in Run \ lapped: run[r].outcome = "collision" =>
       toolWrites > 0 \/ \E o \in Run: Bundle[o] # Bundle[r] /\ run[o].pc # "idle"

(* What a bundle's run does to the directory it writes into (commit.rs 19-112). *)
MaterializerHolds == [](AllOrNothing /\ ReplayApplies) /\ NeverClobbers

-----------------------------------------------------------------------------
(* The inductive invariant.                                                    *)
RunState ==
    [pc : {"idle", "check", "stage", "link", "undo", "clean", "ended"}, at : File,
     unchanged : SUBSET File, linked : SUBSET File,
     outcome : {"none", "ok", "refused", "unsafe", "collision", "io", "died"}]

Content == [of : {"nobody", "tool"} \cup {Bundle[r]: r \in Run}, continued : BOOLEAN]

MaterializerTypeOK ==
    /\ file \in [File -> Content] /\ staged \subseteq Run \X File /\ run \in [Run -> RunState]
    /\ crashes \in Nat /\ toolWrites \in Nat /\ undone \subseteq File
    /\ stuck \subseteq Run /\ lapped \subseteq Run

(* A file has one run that linked it, and is of what it wrote; one that a run  *)
(* found unchanged is too, until another's rollback takes it.                  *)
PlacesOf(r) ==
    /\ \A f \in run[r].linked: file[f].of = Bundle[r] /\ \A o \in Run \ {r}: f \notin run[o].linked
    /\ \A f \in run[r].unchanged: file[f].of = Bundle[r] \/ f \in undone

(* How far a run has come is what it has staged and linked.                    *)
ProgressOf(r) ==
    /\ At(r, "idle") => run[r].at = 1
    /\ run[r].pc \in {"idle", "check"} => staged \cap Temporaries(r) = {}
    /\ run[r].pc \in {"idle", "check", "stage"} => run[r].linked = {}
    /\ At(r, "link") => \A f \in File: f < run[r].at => f \in run[r].linked \cup run[r].unchanged
    /\ At(r, "link") => \A f \in run[r].linked: f < run[r].at
    /\ At(r, "clean") \/ run[r].outcome = "ok" => File \subseteq run[r].linked \cup run[r].unchanged
    /\ run[r].outcome # "none" => run[r].pc \in {"undo", "ended"}
    /\ At(r, "undo") => run[r].outcome \in {"collision", "io"}
    /\ At(r, "undo") => (\A f \in run[r].linked: f < run[r].at) \/ r \in stuck
    /\ Failed(r) => run[r].linked = {} \/ r \in stuck
    /\ Failed(r) /\ run[r].outcome # "unsafe" => staged \cap Temporaries(r) = {} \/ r \in stuck

(* Another bundle was, or is being, written.                                   *)
Strange(r) == \E o \in Run: Bundle[o] # Bundle[r] /\ run[o].pc # "idle"

Checked(r, f) == (At(r, "check") /\ f < run[r].at) \/ run[r].pc \in {"stage", "link"}

(* What a run alone found absent stays absent until it links it, so that it    *)
(* never collides.                                                             *)
AloneOf(r) ==
    r \notin lapped =>
       /\ UnderWay(r) => \A o \in Run \ {r}: ~UnderWay(o)
       /\ toolWrites = 0 /\ ~Strange(r) =>
             \A f \in File \ (run[r].unchanged \cup run[r].linked): Checked(r, f) => file[f] = Absent
       /\ run[r].outcome = "collision" => toolWrites > 0 \/ Strange(r)

FilesAreOurs ==
    toolWrites = 0 =>
       \A f \in File: file[f] = Absent \/ \E o \in Run: file[f] = Written(Bundle[o]) /\ run[o].pc # "idle"

MaterializerInv ==
    /\ MaterializerTypeOK /\ FilesAreOurs
    /\ \A r \in Run: PlacesOf(r) /\ ProgressOf(r) /\ AloneOf(r)
=============================================================================
