----------------------------- MODULE Transcripts -----------------------------
(* A file of a tool and what the archive holds of it: the tool writes records, *)
(* the agent uploads the file as it is (or a person uploads an export), the    *)
(* pipeline parses the whole of it and saves one session after the other       *)
(* (server/src/ingest/pipeline.ts, store/postgres/sessions.ts).                *)
EXTENDS Parsers
LOCAL INSTANCE SequencesExt

CONSTANTS
    Formats,     \* the formats looked at
    Conv,        \* conversations of one file, numbered as their own ids sort
    MaxRecords,  \* bound on the records of a file, by format
    MaxDamage

ASSUME TranscriptsAssumption == Conv \subseteq Nat /\ MaxRecords \in [Formats -> Nat] /\ MaxDamage \in Nat

VARIABLES
    format,
    file,        \* its records, in the order they lie in it
    written,     \* records written so far
    damage,      \* records spoiled and conversations deleted so far
    uploads,     \* captures so far
    fresh,       \* is what was parsed last what the file holds?
    verdict,     \* the artifact's status: raw_artifacts.status
    sessions,    \* what the parser returned
    saved,       \* how many of them are saved
    identity,    \* session_identities: conversation -> session, NoId none
    archive,     \* sessions, turns and content_blocks: session -> its turns
    firstName,   \* history: the turn a piece of content was first stored in
    merged       \* history: conversations that were given the session of another

toolVars == <<file, written, damage>>
parseVars == <<uploads, fresh, verdict, sessions, saved>>
archiveVars == <<identity, archive, firstName, merged>>
transcriptVars == <<format, toolVars, parseVars, archiveVars>>

Busy == verdict = "parsing"

TranscriptsInit ==
    /\ format \in Formats
    /\ file = <<>> /\ written = 0 /\ damage = 0
    /\ uploads = 0 /\ fresh = TRUE /\ verdict = "none" /\ sessions = <<>> /\ saved = 0
    /\ identity = [c \in Conv |-> NoId] /\ archive = <<>> /\ firstName = <<>> /\ merged = {}

(* The seed of a path stays the same from capture to capture; an upload has no *)
(* path, and its seed is that of the bytes.                                    *)
Seed == Id(<<"seed", IF format \in UploadFormats THEN uploads + 1 ELSE 0>>)

-----------------------------------------------------------------------------
(* What tools write.  A record's own id is a uuid or what the tool numbers its *)
(* messages with; Claude Code repeats the id of a record it rewrites, and the  *)
(* ids in ChatGPT's exports are uuids (chatgpt-export.ts).                     *)
OneFile == {"claude-code", "codex", "antigravity-cli", "task-history", "copilot-chat-log"}
Uuid == NativeId("uuid", written + 1)
Number == NativeId("msg", written + 1)
Before(c) == RecordsOf(file, c)
PreviousId(c) == IF Before(c) = <<>> THEN Nothing ELSE Last(Before(c)).id

OwnIds ==
    CASE format = "claude-code" -> {Uuid, Number} \cup {file[i].id: i \in DOMAIN file}
      [] format \in {"codex", "antigravity-cli", "copilot", "copilot-chat", "copilot-chat-log"} -> {Nothing}
      [] format \in {"cursor", "chatgpt-export"} -> {Uuid}
      [] format = "goose" -> {Nothing, Uuid}
      [] format \in {"zed", "task-history", "cass-export"} -> {Nothing, Uuid, Number}
      [] OTHER -> {Uuid, Number}

Parents(c) ==
    CASE format \in {"claude-code", "cass-export", "canonical-bundle"} -> {PreviousId(c)}
      [] format = "opencode" -> {Nothing, PreviousId(c)}
      [] format = "chatgpt-export" -> IF Before(c) = <<>> THEN {Nothing} ELSE {Before(c)[i].id: i \in DOMAIN Before(c)}
      [] OTHER -> {Nothing}

(* A conversation of Cursor begins with its index, a log with its snapshot.    *)
Says(c) ==
    CASE format = "claude-code" -> {<<"user", 1>>, <<"user", 2>>, <<"note", 0>>}
      [] format = "codex" -> {<<"user", 0>>, <<"user", 1>>, <<"assistant", 1>>, <<"assistant", 2>>, <<"note", 0>>}
      [] format = "antigravity-cli" -> {<<"user", 1>>, <<"assistant", 0>>, <<"assistant", 1>>, <<"tool", 1>>}
      [] format = "chatgpt-export" -> {"user", "assistant"} \X {0, 1}
      [] format = "copilot" -> {"user"} \X (0..2)
      [] format = "copilot-chat" -> {"user"} \X {0, 2, 3}
      [] format = "copilot-chat-log" -> (IF file = <<>> THEN {"snapshot"} ELSE {"list", "entry"}) \X {0, 3}
      [] format = "cursor" -> IF Before(c) = <<>> THEN {<<"index", 0>>} ELSE {"user"} \X (0..2)
      [] OTHER -> {"user"} \X (0..2)

(* Where the blocks are read with parseBlock the last may have a uuid; those    *)
(* that Claude Code writes have none.                                          *)
OwnPieces(parts) ==
    IF format \in {"goose", "crush", "task-history", "cass-export"} THEN {0, parts} ELSE {0}

Steps == IF format = "antigravity-cli" THEN 1..MaxRecords[format] \ {file[i].step: i \in DOMAIN file} ELSE {0}

ToolWrites ==
    /\ ~Busy /\ written < MaxRecords[format]
    /\ \E c \in (IF format \in OneFile THEN {1} ELSE Conv), id \in OwnIds, step \in Steps:
       \E parent \in Parents(c), says \in Says(c): \E own \in OwnPieces(says[2]):
          file' = Append(file, [n |-> written + 1, conv |-> c, id |-> id, parent |-> parent, own |-> own,
                                by |-> says[1], parts |-> says[2], step |-> step, fit |-> TRUE])
    /\ written' = written + 1 /\ fresh' = FALSE
    /\ UNCHANGED <<format, damage, uploads, verdict, sessions, saved, archiveVars>>

(* A line read while it is written, or one a tool broke; and its completion.   *)
Spoil(i) ==
    /\ ~Busy /\ file[i].fit /\ damage < MaxDamage
    /\ file' = [file EXCEPT ![i].fit = FALSE] /\ damage' = damage + 1 /\ fresh' = FALSE
    /\ UNCHANGED <<format, written, uploads, verdict, sessions, saved, archiveVars>>

Mend ==
    /\ ~Busy /\ file # <<>> /\ ~Last(file).fit
    /\ file' = [file EXCEPT ![Len(file)].fit = TRUE] /\ fresh' = FALSE
    /\ UNCHANGED <<format, written, damage, uploads, verdict, sessions, saved, archiveVars>>

Forget(c) ==
    /\ ~Busy /\ format \notin OneFile /\ Before(c) # <<>> /\ damage < MaxDamage
    /\ file' = SelectSeq(file, LAMBDA r: r.conv # c) /\ damage' = damage + 1 /\ fresh' = FALSE
    /\ UNCHANGED <<format, written, uploads, verdict, sessions, saved, archiveVars>>

-----------------------------------------------------------------------------
(* IngestPipeline.parse, up to its loop.                                       *)
CaptureFile ==
    /\ ~Busy /\ ~fresh
    /\ LET result == Parse(format, file, Seed)
       IN /\ sessions' = result.sessions
          /\ verdict' = IF result.kind = "unknown" THEN "unknown_format" ELSE "parsing"
    /\ saved' = 0 /\ fresh' = TRUE /\ uploads' = uploads + 1
    /\ UNCHANGED <<format, toolVars, archiveVars>>

TurnIds(turns) == {turns[i].id: i \in DOMAIN turns}
BlocksOf(turns) == UNION {{turns[i].blocks[k]: k \in DOMAIN turns[i].blocks}: i \in DOMAIN turns}
BlockIds(turns) == {b.id: b \in BlocksOf(turns)}
Pieces(turns) == {b.of: b \in BlocksOf(turns)}

(* scopeCollidingTurns, with what the lookup in saveSession found.             *)
TakenElsewhereBy(sid, turns) ==
    {id \in TurnIds(turns): \E o \in DOMAIN archive \ {sid}: id \in TurnIds(archive[o])}
Rescoped(id, sid, taken) == IF id \in taken THEN DerivedUuid("turn", id, sid) ELSE id
(* Mutant: what the turn is an answer to is not rewritten with it.             *)
ScopeTurnsOnly(turns, sid, taken) == [i \in DOMAIN turns |-> [turns[i] EXCEPT !.id = Rescoped(@, sid, taken)]]

ScopeTurns(turns, sid, taken) ==
    [i \in DOMAIN turns |-> [turns[i] EXCEPT !.id = Rescoped(@, sid, taken), !.parent = Rescoped(@, sid, taken)]]

(* What the columns take: ids that are uuids, and one turn per id.             *)
IsUuidColumn(id) == id.base = Nothing \/ id.base[1] # "msg"
Storable(turns) ==
    /\ \A i \in DOMAIN turns: IsUuidColumn(turns[i].id) /\ IsUuidColumn(turns[i].parent)
    /\ Cardinality(TurnIds(turns)) = Len(turns)

(* save() of a block whose id is in the table updates that row, its session    *)
(* and its turn with it.                                                       *)
Moved(turns, ids) == [i \in DOMAIN turns |-> [turns[i] EXCEPT !.blocks = SelectSeq(@, LAMBDA b: b.id \notin ids)]]
SaveIn(sid, turns) ==
    [o \in DOMAIN archive \cup {sid} |-> IF o = sid THEN turns ELSE Moved(archive[o], BlockIds(turns))]

NamesIn(turns) == [piece \in Pieces(turns) |->
    (CHOOSE t \in {turns[i]: i \in DOMAIN turns}: \E k \in DOMAIN t.blocks: t.blocks[k].of = piece).id]

(* resolveSessionIdentity proposes the id by the session's place in the file.  *)
SaveNext ==
    /\ Busy /\ saved < Len(sessions)
    /\ LET s == sessions[saved + 1]
           sid == IF identity[s.conv] # NoId THEN identity[s.conv] ELSE s.id
           turns == ScopeTurns(s.turns, sid, TakenElsewhereBy(sid, s.turns))
       IN /\ identity' = [identity EXCEPT ![s.conv] = sid]
          /\ merged' = merged \cup {c \in Conv: \E d \in Conv \ {c}: identity'[c] = identity'[d] /\ identity'[c] # NoId}
          /\ IF Storable(turns)
             THEN /\ archive' = SaveIn(sid, turns)
                  /\ firstName' = [p \in DOMAIN firstName \cup Pieces(turns) |->
                                      IF p \in DOMAIN firstName THEN firstName[p] ELSE NamesIn(turns)[p]]
                  /\ saved' = saved + 1 /\ UNCHANGED verdict
             ELSE verdict' = "failed" /\ UNCHANGED <<archive, firstName, saved>>
    /\ UNCHANGED <<format, toolVars, uploads, fresh, sessions>>

FinishParse ==
    /\ Busy /\ saved = Len(sessions)
    /\ verdict' = "parsed"
    /\ UNCHANGED <<format, toolVars, uploads, fresh, sessions, saved, archiveVars>>

TranscriptsNext ==
    \/ ToolWrites \/ Mend \/ CaptureFile \/ SaveNext \/ FinishParse
    \/ \E i \in DOMAIN file: Spoil(i)
    \/ \E c \in Conv: Forget(c)

-----------------------------------------------------------------------------
(* In what a parser returns no two turns and no two blocks of a session share  *)
(* an id, and no block has that of a turn (common.ts, derivedBlockId).         *)
IdsAreApart ==
    \A s \in DOMAIN sessions: LET turns == sessions[s].turns IN
       /\ Cardinality(TurnIds(turns)) = Len(turns)
       /\ \A i \in DOMAIN turns, j \in DOMAIN turns: \A k \in DOMAIN turns[i].blocks, l \in DOMAIN turns[j].blocks:
             turns[i].blocks[k].id = turns[j].blocks[l].id => i = j /\ k = l
       /\ BlockIds(turns) \cap TurnIds(turns) = {}

(* Every piece of content that can be read is in the session of its            *)
(* conversation, once; and a line that cannot be read costs claude-code, a log *)
(* of VS Code and a bubble of cursor that record, every other parser the whole *)
(* file.  What a log has only in writes into its list is not read.             *)
ReadIn(c) == {<<r.n, k>>: r \in {file[i]: i \in DOMAIN file}, k \in 1..3}
Legible(i) == IF format = "copilot-chat-log" THEN \E j \in i..Len(file): file[j].fit /\ file[j].by # "entry" ELSE file[i].fit
Readable(c) == {p \in ReadIn(c): \E i \in DOMAIN file: file[i].n = p[1] /\ file[i].conv = c /\ Legible(i) /\ p[2] <= file[i].parts}
EachPieceOnce ==
    fresh /\ sessions # <<>> =>
        /\ \A s \in DOMAIN sessions:
              /\ Pieces(sessions[s].turns) = Readable(sessions[s].conv)
              /\ Cardinality(BlocksOf(sessions[s].turns)) = Cardinality(Pieces(sessions[s].turns))
        /\ \A c \in Conv: Readable(c) # {} => \E s \in DOMAIN sessions: sessions[s].conv = c

(* A file is refused for a reason: it says nothing, most of it cannot be read, *)
(* or an upload has an id its format rules out.                                *)
Refusable ==
    \/ \A i \in DOMAIN file: file[i].parts = 0
    \/ SomeUnfit(file) /\ format \notin {"claude-code", "cursor", "copilot-chat-log"}
    \/ format = "claude-code" /\ (~MostAreJson(file) \/ \A c \in Conv: Readable(c) = {})
    \/ format = "cursor" /\ \E i \in DOMAIN file: file[i].by = "index" /\ ~file[i].fit
    \/ format = "copilot-chat-log" /\ (~file[1].fit \/ \A c \in Conv: Readable(c) = {})
    \/ format \in {"cass-export", "canonical-bundle"} /\ \E i \in DOMAIN file: ~IsUuid(file[i].id)
RefusedForAReason == fresh /\ verdict = "unknown_format" => Refusable

(* What the parsers return of a file is what can be read of it, under ids that *)
(* are apart.                                                                  *)
TranscriptsAreRead == IdsAreApart /\ EachPieceOnce /\ RefusedForAReason

(* Only the parsers that pass the tool's own id through can have a session     *)
(* refused by the columns it goes to.                                          *)
OnlyRawIdsFail == verdict = "failed" => format \in {"zed", "task-history"}

(* As a file grows its content stays in the turns it was stored in, and what   *)
(* is anchored to them with it; but a run of ChatGPT's steps is named by its   *)
(* last, Antigravity's steps may come late, and an upload's seed changes.      *)
NamedOnce ==
    \/ damage > 0 \/ format \in {"chatgpt-export", "antigravity-cli"}
    \/ format \in UploadFormats /\ \E i \in DOMAIN file: ~IsUuid(file[i].id)
NamesStay ==
    \A sid \in DOMAIN archive: \A i \in DOMAIN archive[sid]:
       NamedOnce \/ \A k \in DOMAIN archive[sid][i].blocks: firstName[archive[sid][i].blocks[k].of] = archive[sid][i].id

(* What a turn answers is a turn before it in the session it is stored in,     *)
(* except where the file names a record no parser makes a turn of.             *)
LinksHold ==
    \A sid \in DOMAIN archive: \A i \in DOMAIN archive[sid]:
       \/ archive[sid][i].parent = NoId
       \/ \E j \in 1..i - 1: archive[sid][j].id = archive[sid][i].parent
       \/ format \in {"claude-code", "antigravity-cli"} \/ damage > 0

(* "Both sessions must survive, each with its own blocks."                     *)
EachWithItsOwnBlocks ==
    fresh /\ verdict = "parsed" =>
        \A s \in DOMAIN sessions: Pieces(archive[identity[sessions[s].conv]]) = Pieces(sessions[s].turns)

(* So it is where no other conversation has the same block ids.                *)
OwnBlocks == {"opencode", "canonical-bundle"} \cup OneFile
ScopedOnesKeepTheirs == format \in OwnBlocks /\ merged = {} => EachWithItsOwnBlocks

(* Two conversations are given one session only where a new one can come before *)
(* one that is stored: read by their own ids, or after one was deleted.        *)
MergedByOrder == merged # {} => format \in {"cursor", "zed", "opencode"} \/ damage > 0

(* What is archived of a file that grows keeps its sessions, its ids and its   *)
(* links.                                                                      *)
TranscriptsAreKept == MergedByOrder /\ OnlyRawIdsFail /\ NamesStay /\ LinksHold /\ ScopedOnesKeepTheirs
=============================================================================
