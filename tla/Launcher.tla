------------------------------ MODULE Launcher ------------------------------
(* The npm launcher (packages/npx): several of them look for the agent's       *)
(* binary in one cached, and whoever finds none downloads it under a lock file. *)
(* Every call on the disk is a step, since each launcher is a process.         *)
EXTENDS Naturals

CONSTANTS
    Launcher,
    HasLocal,    \* those with a binary of their own: vendor, target or PATH
    MaxMishaps

Build == {"first", "second"}

ASSUME LauncherAssumption == "nobody" \notin Launcher /\ MaxMishaps \in Nat

NoLock == [by |-> "nobody", old |-> FALSE]

VARIABLES
    cached,    \* the binary and its .sha256 sidecar, each "none", "spoilt" or of a build
    lockFile,
    release,    \* what the channel serves: a binary and its checksum
    launcher,    \* launcher -> where it stands, whether in the lock, its digest and its download
    launchMishaps,    \* deaths and failed fetches or writes so far
    misfit,    \* the cache was found at odds with itself
    stolen,    \* the lock of a launcher that lives was taken for a stale one
    retracted    \* an install broke off after its binary was in place

launcherVars == <<cached, lockFile, release, launcher, launchMishaps, misfit, stolen, retracted>>

Starting == [place |-> "look", locked |-> FALSE, digest |-> "none", got |-> "none"]

(* Nothing; a file the disk spoilt; one that was removed without its sidecar;  *)
(* one whose launcher died before it wrote a sidecar.                          *)
LauncherInit ==
    /\ cached \in {[binary |-> b, sidecar |-> s] : b \in {"none", "spoilt"}, s \in {"none", "first"}}
    /\ lockFile = NoLock /\ release = [binary |-> "first", checksum |-> "first"]
    /\ launcher = [l \in Launcher |-> Starting]
    /\ launchMishaps = 0
    /\ misfit = FALSE /\ stolen = FALSE /\ retracted = FALSE

AtPlace(l, place) == launcher[l].place = place

Went(l, place) == launcher' = [launcher EXCEPT ![l].place = place]

OnDisk == <<cached, lockFile, release>>
Told == <<launchMishaps, misfit, stolen, retracted>>

(* A release is put out again under the same version, its binary first. *)
Publish ==
    /\ release' = IF release.binary = "first" THEN [release EXCEPT !.binary = "second"]
                                              ELSE [release EXCEPT !.checksum = "second"]
    /\ release' # release
    /\ UNCHANGED <<cached, lockFile, launcher, Told>>

(* localCandidate: vendored, built here or on the PATH. *)
LocalCandidate(l) == l \in HasLocal

(* Without a binary in the cache: a download, unless MEMOAR_NO_DOWNLOAD, or    *)
(* what there is locally, if MEMOAR_PREFER_LOCAL.  Under the lock the download *)
(* goes on.                                                                    *)
AfterLook(l) ==
    IF launcher[l].locked THEN {"checksum"}
    ELSE {"lock", "fallback"} \cup (IF LocalCandidate(l) THEN {"local"} ELSE {})

(* cachedCandidate: both files are there, the sidecar is read, the binary is   *)
(* verified, or both are removed.                                              *)
BinaryThere == cached.binary # "none"    \* the sidecar is only missed when it is read

SeesBoth == BinaryThere /\ cached.sidecar # "none"

Look(l) ==
    /\ AtPlace(l, "look")
    /\ \E next \in IF SeesBoth THEN {"sidecar"} ELSE AfterLook(l) : Went(l, next)
    /\ UNCHANGED <<OnDisk, Told>>

ReadSidecar(l) ==
    /\ AtPlace(l, "sidecar")
    /\ launcher' = [launcher EXCEPT ![l].place = IF cached.sidecar = "none" THEN "clear" ELSE "verify",
                                    ![l].digest = cached.sidecar]
    /\ UNCHANGED <<OnDisk, Told>>

Verify(l) ==
    /\ AtPlace(l, "verify")
    /\ Went(l, IF cached.binary # launcher[l].digest THEN "clear"
               ELSE IF launcher[l].locked THEN "release" ELSE "found")
    /\ misfit' = (misfit \/ cached.binary # launcher[l].digest)
    /\ UNCHANGED <<OnDisk, launchMishaps, stolen, retracted>>

Clear(l) ==
    /\ AtPlace(l, "clear") /\ cached' = [cached EXCEPT !.binary = "none"] /\ Went(l, "clear sidecar")
    /\ UNCHANGED <<lockFile, release, Told>>

ClearSidecar(l) ==
    /\ AtPlace(l, "clear sidecar") /\ cached' = [cached EXCEPT !.sidecar = "none"]
    /\ \E next \in AfterLook(l) : Went(l, next)
    /\ UNCHANGED <<lockFile, release, Told>>

-----------------------------------------------------------------------------
(* acquireLock: the file is created or somebody has it; one that is five       *)
(* minutes old is removed, and a launcher that has waited long enough gives up.*)
Acquire(l) ==
    /\ AtPlace(l, "lock") /\ lockFile = NoLock
    /\ lockFile' = [by |-> l, old |-> FALSE]
    /\ launcher' = [launcher EXCEPT ![l].place = "look", ![l].locked = TRUE]
    /\ UNCHANGED <<cached, release, Told>>

SeesStale(l) ==
    /\ AtPlace(l, "lock") /\ lockFile.old /\ Went(l, "steal")
    /\ UNCHANGED <<OnDisk, Told>>

Steal(l) ==
    /\ AtPlace(l, "steal") /\ lockFile' = NoLock /\ Went(l, "lock")
    /\ stolen' = (stolen \/ \E m \in Launcher : lockFile.by = m /\ ~AtPlace(m, "dead"))
    /\ UNCHANGED <<cached, release, launchMishaps, misfit, retracted>>

GivesUp(l) ==
    /\ AtPlace(l, "lock") /\ lockFile # NoLock /\ Went(l, "fallback")
    /\ UNCHANGED <<OnDisk, Told>>

LockAges ==
    /\ lockFile # NoLock /\ lockFile' = [lockFile EXCEPT !.old = TRUE]
    /\ UNCHANGED <<cached, release, launcher, Told>>

(* Whatever lock is there by then goes. *)
Release(l) ==
    /\ AtPlace(l, "release") \/ AtPlace(l, "throw")
    /\ lockFile' = NoLock
    /\ launcher' = [launcher EXCEPT ![l].place = IF AtPlace(l, "throw") THEN "fallback" ELSE "found",
                                    ![l].locked = FALSE]
    /\ UNCHANGED <<cached, release, Told>>

-----------------------------------------------------------------------------
(* downloadBinary, between the lock and its release. *)
FetchChecksum(l) ==
    /\ AtPlace(l, "checksum")
    /\ launcher' = [launcher EXCEPT ![l].place = "fetch", ![l].digest = release.checksum]
    /\ UNCHANGED <<OnDisk, Told>>

FetchToFile(l) ==
    /\ AtPlace(l, "fetch")
    /\ launcher' = [launcher EXCEPT ![l].place = IF release.binary = launcher[l].digest THEN "rename" ELSE "retract",
                                    ![l].got = release.binary]
    /\ UNCHANGED <<OnDisk, Told>>

Rename(l) ==
    /\ AtPlace(l, "rename") /\ cached' = [cached EXCEPT !.binary = launcher[l].got] /\ Went(l, "write sidecar")
    /\ UNCHANGED <<lockFile, release, Told>>

WriteSidecar(l) ==
    /\ AtPlace(l, "write sidecar") /\ cached' = [cached EXCEPT !.sidecar = launcher[l].digest] /\ Went(l, "release")
    /\ UNCHANGED <<lockFile, release, Told>>

(* The checksum cannot be had: nothing to undo yet.  A fetch or a write of the *)
(* rest fails.                                                                 *)
InstallFails(l) ==
    /\ launchMishaps < MaxMishaps
    /\ \/ AtPlace(l, "checksum") /\ Went(l, "throw") /\ retracted' = retracted
       \/ AtPlace(l, "fetch") /\ Went(l, "retract") /\ retracted' = retracted
       \/ AtPlace(l, "write sidecar") /\ Went(l, "retract") /\ retracted' = TRUE
    /\ launchMishaps' = launchMishaps + 1
    /\ UNCHANGED <<OnDisk, misfit, stolen>>

Retract(l) ==
    /\ AtPlace(l, "retract") /\ cached' = [cached EXCEPT !.binary = "none"] /\ Went(l, "retract sidecar")
    /\ UNCHANGED <<lockFile, release, Told>>

RetractSidecar(l) ==
    /\ AtPlace(l, "retract sidecar") /\ cached' = [cached EXCEPT !.sidecar = "none"] /\ Went(l, "throw")
    /\ UNCHANGED <<lockFile, release, Told>>

-----------------------------------------------------------------------------
(* ensureBinary's last resort, and bin/memoar.js: the binary is started by its *)
(* path.                                                                       *)
LaunchEnds == {"local", "none", "started", "missing", "dead"}

FallBack(l) ==
    /\ AtPlace(l, "fallback") /\ Went(l, IF LocalCandidate(l) THEN "local" ELSE "none")
    /\ UNCHANGED <<OnDisk, Told>>

Start(l) ==
    /\ AtPlace(l, "found")
    /\ launcher' = [launcher EXCEPT ![l].place = IF cached.binary = "none" THEN "missing" ELSE "started",
                                    ![l].got = cached.binary]
    /\ UNCHANGED <<OnDisk, Told>>

(* Killed, or cut off in the middle of the body, which ends neither the pipe   *)
(* nor the promise: its lock stays behind.                                     *)
Dies(l) ==
    /\ launchMishaps < MaxMishaps /\ launcher[l].place \notin LaunchEnds
    /\ Went(l, "dead") /\ launchMishaps' = launchMishaps + 1
    /\ UNCHANGED <<OnDisk, misfit, stolen, retracted>>

LauncherNext ==
    \/ Publish \/ LockAges
    \/ \E l \in Launcher :
         \/ Look(l) \/ ReadSidecar(l) \/ Verify(l) \/ Clear(l) \/ ClearSidecar(l)
         \/ Acquire(l) \/ SeesStale(l) \/ Steal(l) \/ GivesUp(l) \/ Release(l)
         \/ FetchChecksum(l) \/ FetchToFile(l) \/ Rename(l) \/ WriteSidecar(l)
         \/ InstallFails(l) \/ Retract(l) \/ RetractSidecar(l)
         \/ FallBack(l) \/ Start(l) \/ Dies(l)

LauncherSpec == LauncherInit /\ [][LauncherNext]_launcherVars

-----------------------------------------------------------------------------
(* What is started is a whole build with the checksum that was published for   *)
(* it, whoever else installs or removes meanwhile (downloadBinary).            *)
StartedIsABuild == \A l \in Launcher : AtPlace(l, "started") => launcher[l].got \in Build

(* A launcher that was given the cached's path finds a binary there, unless the *)
(* cache was at odds with itself before, a live launcher lost its lock, or an  *)
(* install broke off: a look between the two renames of another's install      *)
(* removes nothing (cachedCandidate).                                          *)
FoundIsThere == \A l \in Launcher : AtPlace(l, "missing") => misfit \/ stolen \/ retracted

(* "concurrent callers share one locked download" (wrapper.test.js): nobody    *)
(* fetches what the cache has, unless a live launcher lost its lock.           *)
OneDownload ==
    \A l \in Launcher : AtPlace(l, "fetch") =>
        stolen \/ cached.binary = "none" \/ cached.binary # cached.sidecar

(* What a launcher starts, through all the ways two of them can meet over the  *)
(* cache and its lock (packages/npx/lib/platform.js).                          *)
LauncherHolds == StartedIsABuild /\ FoundIsThere /\ OneDownload

-----------------------------------------------------------------------------
(* The inductive invariant.                                                    *)
Digest == Build \cup {"none"}

InstallPlace == {"checksum", "fetch", "rename", "write sidecar", "retract", "retract sidecar"}

Standing == InstallPlace \cup LaunchEnds \cup
    {"look", "sidecar", "verify", "clear", "clear sidecar", "lock", "steal", "release", "throw",
     "found", "fallback"}

Process == [place : Standing, locked : BOOLEAN, digest : Digest, got : Build \cup {"none", "spoilt"}]

LauncherTypeOK ==
    /\ cached \in [binary : Build \cup {"none", "spoilt"}, sidecar : Digest]
    /\ lockFile \in [by : Launcher \cup {"nobody"}, old : BOOLEAN]
    /\ release \in [binary : Build, checksum : Build]
    /\ launcher \in [Launcher -> Process]
    /\ launchMishaps \in Nat
    /\ misfit \in BOOLEAN /\ stolen \in BOOLEAN /\ retracted \in BOOLEAN

(* Who installs has the lock, and the lock is theirs unless it was stolen.     *)
LockOf(l) ==
    /\ launcher[l].place \in InstallPlace \cup {"throw", "release"} => launcher[l].locked
    /\ stolen \/ (launcher[l].locked /\ ~AtPlace(l, "dead") => lockFile.by = l)

(* What a launcher is about to put in place, or has found good, is a build.    *)
BuildOf(l) ==
    /\ launcher[l].place \in {"verify", "fetch", "rename", "write sidecar"} => launcher[l].digest \in Build
    /\ AtPlace(l, "rename") => launcher[l].got = launcher[l].digest
    /\ launcher[l].place \in {"write sidecar", "release", "found"} => cached.binary # "spoilt"

(* Whoever fetches found no good pair under the lock, and nobody makes one.    *)
FetchOf(l) ==
    launcher[l].place \in {"checksum", "fetch"} =>
        stolen \/ cached.binary = "none" \/ cached.binary # cached.sidecar

(* Until something goes wrong, a pair that is there stays: who installs saw    *)
(* none, and who found one found it whole.                                     *)
PairOf(l) ==
    misfit \/ stolen \/ retracted \/
        (/\ launcher[l].place \notin {"clear", "clear sidecar"}
         /\ launcher[l].place \in {"sidecar", "verify", "release", "found"} => SeesBoth
         /\ launcher[l].place \in InstallPlace \ {"write sidecar"} => ~SeesBoth
         /\ AtPlace(l, "write sidecar") => BinaryThere)

LauncherInv ==
    /\ LauncherTypeOK /\ LauncherHolds
    /\ \A l \in Launcher : LockOf(l) /\ BuildOf(l) /\ FetchOf(l) /\ PairOf(l)
=============================================================================
