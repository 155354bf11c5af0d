---------------------------- MODULE SessionStore ----------------------------
(* What a parse saves (server/src/ingest/pipeline.ts, store/postgres/         *)
(* sessions.ts and annotations.ts): the identity of a conversation, the save  *)
(* of its turns under an advisory lock per session, the scanner's masks and   *)
(* the embedding, each a transaction of its own.  The store the unit tests    *)
(* run on (store/memory) runs beside it, on the commits and the deletions.    *)
EXTENDS Naturals, Sequences, FiniteSets

CONSTANTS
    Native,          \* native conversations
    Version,         \* format versions; each proposes a session id of its own
    Tid,             \* turn ids as the transcripts write them, shared or not
    Transcript,      \* Transcript[n]: the turn ids of n, in order
    Blockless,       \* turn ids whose record has no content block
    Parse,           \* parse jobs
    Captured,        \* Captured[j] = [native, len, version]
    ParseAttempts,   \* times the queue runs a job
    MaxDeletes       \* bound on deletions of a session

ASSUME StoreAssumption ==
    /\ Transcript \in [Native -> Seq(Tid)]
    /\ Captured \in [Parse -> [native: Native, len: Nat \ {0}, version: Version]]
    /\ \A j \in Parse: Captured[j].len <= Len(Transcript[Captured[j].native])
    /\ ParseAttempts \in Nat \ {0} /\ MaxDeletes \in Nat /\ Blockless \subseteq Tid

Session == Native \X Version
NoSession == <<>>
NoTurns == [saved |-> FALSE, len |-> 0, ids |-> {}]
Idle == [pc |-> "queued", sid |-> NoSession, taken |-> {}, ids |-> {}, held |-> {}, runs |-> 0]

VARIABLES
    identity,   \* session_identities: native conversation -> session
    stored,     \* sessions and turns: session -> [saved, len, ids]
    devStore,        \* the same in the test store
    masks,      \* scanner rows of a session, by the capture that found them
    hand,       \* sessions with a mask placed by hand
    embedded,   \* the capture a session's embedding was computed from, 0 none
    job,        \* parse -> [pc, sid, taken, ids, held, runs]
    deletes,
    overlapped, \* history: sessions whose parses overlapped
    released,   \* history: turn ids some session stopped holding
    raced       \* history: a save was open while another began or a session went

marks == <<masks, hand, embedded>>
rows == <<identity, stored, devStore, marks>>
past == <<deletes, overlapped, released, raced>>
storeVars == <<rows, job, past>>

(* turns.id: the transcript's own, or one derived from the session. *)
Own(t) == [tid |-> t, scope |-> NoSession]
Scoped(t, s) == [tid |-> t, scope |-> s]
TurnId == [tid: Tid, scope: Session \cup {NoSession}]

Turns(j) == {Transcript[Captured[j].native][i]: i \in 1..Captured[j].len}

(* Only an id that another session holds is rescoped. *)
ScopeCollidingTurns(tids, s, taken) == {IF t \in taken THEN Scoped(t, s) ELSE Own(t): t \in tids}

TakenElsewhere(store, s, tids) == {t \in tids: \E o \in Session \ {s}: Own(t) \in store[o].ids}

Saving == {"lookup", "write"}
Running == Saving \cup {"lock", "masks", "insert", "embed"}
Open(s) == \E k \in Parse: job[k].sid = s /\ job[k].pc \in Saving

StoreInit ==
    /\ identity = [n \in Native |-> NoSession]
    /\ stored = [s \in Session |-> NoTurns] /\ devStore = stored
    /\ masks = [s \in Session |-> {}] /\ hand = {} /\ embedded = [s \in Session |-> 0]
    /\ job = [j \in Parse |-> Idle]
    /\ deletes = 0 /\ overlapped = {} /\ released = {} /\ raced = FALSE

Become(j, pc) == job' = [job EXCEPT ![j].pc = pc]
(* A throw: the save is rolled back and the queue runs the job again. *)
Throw(j) == job' = [job EXCEPT ![j] =
    [Idle EXCEPT !.runs = job[j].runs, !.pc = IF job[j].runs < ParseAttempts THEN "queued" ELSE "failed"]]

(* resolveSessionIdentity: find, INSERT .. ON CONFLICT DO NOTHING, find again, *)
(* so the loser of two inserts reads the winner's row.                         *)
Resolved(n, version) == IF identity[n] # NoSession THEN identity[n] ELSE <<n, version>>

Identify(j) ==
    /\ job[j].pc = "queued"
    /\ LET n == Captured[j].native
           sid == Resolved(n, Captured[j].version)
       IN /\ identity' = [identity EXCEPT ![n] = sid]
          /\ job' = [job EXCEPT ![j].pc = "lock", ![j].sid = sid, ![j].runs = @ + 1]
          /\ overlapped' = overlapped \cup
                {s \in {sid}: \E k \in Parse \ {j}: job[k].sid = s /\ job[k].pc \in Running}
    /\ UNCHANGED <<stored, devStore, marks, deletes, released, raced>>

(* pg_advisory_xact_lock on the session. *)
Lock(j) ==
    /\ job[j].pc = "lock" /\ ~Open(job[j].sid)
    /\ Become(j, "lookup")
    /\ raced' = (raced \/ \E s \in Session: Open(s))
    /\ UNCHANGED <<rows, deletes, overlapped, released>>

(* The lookup of the ids in use, and the deletes of the session's own rows. *)
Lookup(j) ==
    /\ job[j].pc = "lookup"
    /\ LET s == job[j].sid
       IN job' = [job EXCEPT ![j].pc = "write", ![j].taken = TakenElsewhere(stored, s, Turns(j)),
                             ![j].held = stored[s].ids]
    /\ UNCHANGED <<rows, past>>

(* Turns are saved one by one, in the transcript's order.  An open save holds *)
(* the ids of the rows it deleted and of those it inserted.                   *)
Unsaved(j) == IF job[j].pc = "write"
              THEN ScopeCollidingTurns(Turns(j), job[j].sid, job[j].taken) \ job[j].ids ELSE {}
Place(j, id) == CHOOSE i \in 1..Captured[j].len: Transcript[Captured[j].native][i] = id.tid
NextTurn(j) == CHOOSE id \in Unsaved(j): \A other \in Unsaved(j): Place(j, id) <= Place(j, other)
WaitsFor(j, k) ==
    /\ k # j /\ Unsaved(j) # {} /\ job[k].pc = "write"
    /\ NextTurn(j) \in job[k].ids \cup job[k].held

(* Mutant: the blocks of a turn that came in meanwhile move with it. *)
SaveTurnAnyway(j) ==
    /\ Unsaved(j) # {} /\ \A k \in Parse: ~WaitsFor(j, k)
    /\ job' = [job EXCEPT ![j].ids = @ \cup {NextTurn(j)}]
    /\ UNCHANGED <<rows, past>>

(* save() updates a row that came in since the lookup, its session id with it; *)
(* the blocks it brings then collide with the row's own on (turn, ordinal).    *)
SaveTurn(j) ==
    /\ Unsaved(j) # {} /\ \A k \in Parse: ~WaitsFor(j, k)
    /\ LET id == NextTurn(j)
       IN IF id.tid \notin Blockless /\ \E o \in Session \ {job[j].sid}: id \in stored[o].ids
          THEN Throw(j)
          ELSE job' = [job EXCEPT ![j].ids = @ \cup {id}]
    /\ UNCHANGED <<rows, past>>

(* Postgres breaks a cycle of waits by failing one of its transactions. *)
Deadlock(j) ==
    /\ \E k \in Parse: WaitsFor(j, k) /\ WaitsFor(k, j)
    /\ Throw(j)
    /\ UNCHANGED <<rows, past>>

(* The test store looks up and saves in one synchronous call. *)
DevSaved(j) == LET s == job[j].sid
               IN [saved |-> TRUE, len |-> Captured[j].len,
                   ids |-> ScopeCollidingTurns(Turns(j), s, TakenElsewhere(devStore, s, Turns(j)))]

Commit(j) ==
    /\ job[j].pc = "write" /\ Unsaved(j) = {}
    /\ LET s == job[j].sid
       IN /\ stored' = [o \in Session |->
                IF o = s THEN [saved |-> TRUE, len |-> Captured[j].len, ids |-> job[j].ids]
                ELSE [stored[o] EXCEPT !.ids = @ \ job[j].ids]]
          /\ devStore' = [devStore EXCEPT ![s] = DevSaved(j)]
          /\ embedded' = [embedded EXCEPT ![s] = 0]
          /\ released' = released \cup {id.tid: id \in stored[s].ids \ job[j].ids}
          /\ job' = [job EXCEPT ![j] = [Idle EXCEPT !.pc = "masks", !.sid = s, !.runs = job[j].runs]]
    /\ UNCHANGED <<identity, masks, hand, deletes, overlapped, raced>>

(* Mutant: the delete is not confined to the scanner's rows. *)
DeleteEveryMask(j) ==
    /\ job[j].pc = "masks"
    /\ job' = [job EXCEPT ![j].pc = "insert", ![j].held = masks[job[j].sid]]
    /\ hand' = hand \ {job[j].sid}
    /\ UNCHANGED <<identity, stored, devStore, masks, embedded, past>>

(* replaceAnnotations: its DELETE takes the rows of the scanner committed when *)
(* it runs; what another replace inserts meanwhile stays.                      *)
DeleteMasks(j) ==
    /\ job[j].pc = "masks"
    /\ job' = [job EXCEPT ![j].pc = "insert", ![j].held = masks[job[j].sid]]
    /\ UNCHANGED <<rows, past>>

(* The rows name their session: one deleted meanwhile fails the job. *)
InsertMasks(j) ==
    /\ job[j].pc = "insert"
    /\ LET s == job[j].sid
       IN IF stored[s].saved
          THEN /\ masks' = [masks EXCEPT ![s] = (@ \ job[j].held) \cup {Captured[j].len}]
               /\ job' = [job EXCEPT ![j].pc = "embed", ![j].held = {}]
          ELSE Throw(j) /\ UNCHANGED masks
    /\ UNCHANGED <<identity, stored, devStore, hand, embedded, past>>

(* Best effort: the provider may fail, and an UPDATE of no row is no error. *)
Embed(j) ==
    /\ job[j].pc = "embed"
    /\ \E e \in {embedded[job[j].sid], Captured[j].len}:
          embedded' = [embedded EXCEPT ![job[j].sid] = IF stored[job[j].sid].saved THEN e ELSE @]
    /\ Become(j, "parsed")
    /\ UNCHANGED <<identity, stored, devStore, masks, hand, past>>

(* The DELETE waits for an open save of the row, and the cascade takes turns,  *)
(* blocks and annotations.  session_identities names no session row and stays. *)
SessionDeleted(s) ==
    /\ deletes < MaxDeletes /\ stored[s].saved /\ ~Open(s)
    /\ stored' = [stored EXCEPT ![s] = NoTurns] /\ devStore' = [devStore EXCEPT ![s] = NoTurns]
    /\ masks' = [masks EXCEPT ![s] = {}] /\ hand' = hand \ {s} /\ embedded' = [embedded EXCEPT ![s] = 0]
    /\ released' = released \cup {id.tid: id \in stored[s].ids}
    /\ deletes' = deletes + 1
    /\ raced' = (raced \/ \E o \in Session: Open(o))
    /\ UNCHANGED <<identity, job, overlapped>>

AnnotateByHand(s) ==
    /\ stored[s].saved /\ s \notin hand /\ hand' = hand \cup {s}
    /\ UNCHANGED <<identity, stored, devStore, masks, embedded, job, past>>

UnmaskByHand(s) ==
    /\ s \in hand /\ hand' = hand \ {s}
    /\ UNCHANGED <<identity, stored, devStore, masks, embedded, job, past>>

ParseJob(j) ==
    \/ Identify(j) \/ Lock(j) \/ Lookup(j) \/ SaveTurn(j) \/ Deadlock(j)
    \/ Commit(j) \/ DeleteMasks(j) \/ InsertMasks(j) \/ Embed(j)

StoreNext ==
    \/ \E j \in Parse: ParseJob(j)
    \/ \E s \in Session: SessionDeleted(s) \/ AnnotateByHand(s) \/ UnmaskByHand(s)

StoreSpec == StoreInit /\ [][StoreNext]_storeVars

-----------------------------------------------------------------------------
(* One conversation is one session whatever versions captured it, and no       *)
(* session loses a turn that has content to a save of another that shares the  *)
(* id: saveSession, scopeCollidingTurns and the unique key of the blocks.      *)
SessionsAreWhole ==
    /\ \A s \in Session: stored[s].saved => identity[s[1]] = s
    /\ \A s \in Session: stored[s].saved =>
          \A i \in 1..stored[s].len: LET t == Transcript[s[1]][i] IN
             t \in Blockless \/ \E id \in stored[s].ids: id.tid = t
    /\ \A s, o \in Session: s # o => stored[s].ids \cap stored[o].ids = {}

(* A session captured again keeps the ids of the turns it still has, and what  *)
(* is anchored to them, as long as no session let go of the id                 *)
(* (turn-identity.ts).                                                         *)
TurnsOf(s, len) == {Transcript[s[1]][i]: i \in 1..len}
CapturedAgainKeepsIds ==
    [][\A s \in Session: stored[s].saved /\ stored'[s].saved =>
          \A id \in stored[s].ids: id.tid \in TurnsOf(s, stored'[s].len) =>
              id.tid \in Blockless \cup released \/ id \in stored'[s].ids]_storeVars

(* No parse takes a mask a person placed (annotations.ts, the origin). *)
HandMasksSurviveParses == [][job' # job => hand \subseteq hand']_storeVars

(* The scanner's rows and the embedding describe the content stored, except    *)
(* where parses of the session overlapped: replaceAnnotations and the embedding *)
(* take no lock, and the slower parse has the last word.                        *)
QuietMarksMatch ==
    \A s \in Session \ overlapped:
       stored[s].saved /\ (\A j \in Parse: job[j].sid = s => job[j].pc \in {"parsed", "failed"}) =>
          masks[s] = {stored[s].len} /\ embedded[s] \in {0, stored[s].len}

(* Where no two saves were open at once, the store the unit tests run on holds *)
(* what Postgres holds.                                                        *)
TestStoreAgrees == ~raced => devStore = stored

(* What is anchored to a session and kept beside it: the ids of its turns, the *)
(* scanner's marks, a person's, the embedding, and the copy the test store     *)
(* would hold.                                                                 *)
MarksHold ==
    /\ [](QuietMarksMatch /\ TestStoreAgrees)
    /\ HandMasksSurviveParses /\ CapturedAgainKeepsIds

-----------------------------------------------------------------------------
(* The inductive invariant.                                                    *)
Kept == [saved: BOOLEAN, len: Nat, ids: SUBSET TurnId]

StoreTypeOK ==
    /\ stored \in [Session -> Kept] /\ devStore \in [Session -> Kept]
    /\ DOMAIN job = Parse /\ \A j \in Parse: DOMAIN job[j] = DOMAIN Idle
    /\ DOMAIN identity = Native /\ \A n \in Native: identity[n] \in {NoSession} \cup {n} \X Version
    /\ DOMAIN masks = Session /\ DOMAIN embedded = Session /\ raced \in BOOLEAN

(* A parse names the session its conversation is stored as.                    *)
NamedBy(j) ==
    /\ job[j].sid # NoSession =>
          job[j].sid \in Session /\ job[j].sid[1] = Captured[j].native /\ identity[job[j].sid[1]] = job[j].sid
    /\ job[j].pc \in Running => job[j].sid # NoSession
    /\ job[j].pc # "write" => job[j].ids = {}

(* One save of a session is open at a time, and no two saves hold one turn id. *)
Apart(j, k) ==
    /\ job[j].pc \in Saving /\ job[k].pc \in Saving => job[j].sid # job[k].sid /\ raced
    /\ job[j].ids \cap job[k].ids = {}

(* What a save read is still so where it matters: it rescopes the ids its      *)
(* session holds rescoped, and no others of those it holds.                    *)
SaveOf(j) ==
    job[j].pc = "write" =>
       /\ job[j].ids \subseteq ScopeCollidingTurns(Turns(j), job[j].sid, job[j].taken)
       /\ \A id \in job[j].ids: id.tid \in Blockless \/ \A o \in Session \ {job[j].sid}: id \notin stored[o].ids
       /\ stored[job[j].sid].ids \subseteq job[j].held
       /\ \A id \in job[j].held: id.tid \in Turns(j) \ (Blockless \cup released) =>
              id = IF id.tid \in job[j].taken THEN Scoped(id.tid, job[j].sid) ELSE Own(id.tid)
       /\ \A t \in job[j].taken: t \in Blockless \cup released \/ \E o \in Session \ {job[j].sid}: Own(t) \in stored[o].ids
       /\ raced \/ job[j].taken = TakenElsewhere(stored, job[j].sid, Turns(j))

(* A turn has a rescoped id only while another session holds its own.          *)
WholeIs(s) ==
    /\ stored[s].saved => identity[s[1]] = s /\ \A t \in TurnsOf(s, stored[s].len):
          t \in Blockless \/ \E id \in stored[s].ids: id.tid = t
    /\ \A id \in stored[s].ids: \/ id = Own(id.tid)
                               \/ /\ id = Scoped(id.tid, s)
                                  /\ \/ id.tid \in Blockless \cup released
                                     \/ \E o \in Session \ {s}: Own(id.tid) \in stored[o].ids

(* A session no two parses ran on at once is described by the last of them.    *)
Marking == {"masks", "insert", "embed"}
DescribedIs(s) ==
    s \notin overlapped =>
       /\ \A j, k \in Parse: job[j].sid = s /\ job[k].sid = s /\ {job[j].pc, job[k].pc} \subseteq Running => j = k
       /\ \A j \in Parse: stored[s].saved /\ job[j].sid = s /\ job[j].pc \in Marking =>
             /\ stored[s].len = Captured[j].len /\ embedded[s] = 0
             /\ job[j].pc = "insert" => masks[s] \subseteq job[j].held
             /\ job[j].pc = "embed" => masks[s] = {stored[s].len}
       /\ stored[s].saved /\ (\A j \in Parse: job[j].sid = s => job[j].pc \notin Marking) =>
             masks[s] = {stored[s].len} /\ embedded[s] \in {0, stored[s].len}

StoreInv ==
    /\ StoreTypeOK /\ TestStoreAgrees
    /\ \A j \in Parse: NamedBy(j) /\ SaveOf(j) /\ \A k \in Parse \ {j}: Apart(j, k)
    /\ \A s \in Session: WholeIs(s) /\ DescribedIs(s) /\ \A o \in Session \ {s}: stored[s].ids \cap stored[o].ids = {}
=============================================================================
