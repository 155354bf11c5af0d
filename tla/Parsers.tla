------------------------------- MODULE Parsers -------------------------------
(* What each parser makes of a file (server/libs/parsers/src): which records   *)
(* become turns, which blocks they get, and the id each of them is stored      *)
(* under.  Text is left out: a record says who speaks and how many pieces of   *)
(* content it has, and a block which piece of which record it holds.           *)
EXTENDS Integers, Sequences, FiniteSets
LOCAL INSTANCE SequencesExt

(* A record of a file: its number `n` in the order the tool wrote them, its    *)
(* conversation, its own id and the one it names as its parent, which of its   *)
(* pieces has a uuid of its own (`own`, 0 none), and whether the parser can    *)
(* read it (`fit`): a torn line, a corrupt column.                             *)
Nothing == <<>>
NativeId(kind, n) == <<kind, n>>          \* kind: "uuid", or what is not one

(* Ids are numbers of 128 bits; all arithmetic on them starts from an id that  *)
(* is far from every other.                                                    *)
Id(base) == [base |-> base, off |-> 0]
NoId == Id(Nothing)
IsUuid(native) == native # Nothing /\ native[1] = "uuid"
IncrementUuid(id, amount) == [id EXCEPT !.off = @ + amount]
DerivedUuid(kind, native, session) == Id(<<kind, native, session>>)

TurnId(native, session) == IF IsUuid(native) THEN Id(native) ELSE DerivedUuid("turn", native, session)
BlockId(native, session) == IF IsUuid(native) THEN Id(native) ELSE DerivedUuid("block", native, session)
MapParent(native, session) == IF native = Nothing THEN NoId ELSE TurnId(native, session)

FallbackBase == 16777216                  \* 0x1000000
FallbackStride == 4096
DerivedBlockId(index, seed, ordinal) == IncrementUuid(seed, FallbackBase + ordinal * FallbackStride + index)

-----------------------------------------------------------------------------
(* A parse: the sessions it found, each with the id it proposes.               *)
Unknown == [kind |-> "unknown", sessions |-> <<>>]
Parsed(sessions) == [kind |-> "parsed", sessions |-> sessions]
SessionOf(conv, id, turns) == [conv |-> conv, id |-> id, turns |-> turns]
Turn(id, parent, by, blocks) == [id |-> id, parent |-> parent, by |-> by, blocks |-> blocks]
Block(id, r, k) == [id |-> id, of |-> <<r.n, k>>]
OwnBlockId(r, k) == Id(<<"uuid", r.n, k>>)

(* parseBlock: a block that has a uuid keeps it.  A tool call's is its call's, *)
(* and the call counts among the pieces without.                               *)
ParsedBlock(fallback, r, k) == Block(IF r.own = k THEN OwnBlockId(r, k) ELSE fallback, r, k)

LastId(turns) == IF turns = <<>> THEN NoId ELSE Last(turns).id
Minted(turns) == FoldLeft(LAMBDA n, t: n + Len(t.blocks), 0, turns)
IsSpoken(turn) == turn.blocks # <<>>
SomeUnfit(records) == \E i \in DOMAIN records: ~records[i].fit

(* The blocks of a record, numbered by one counter from `from` on.             *)
Counted(r, seed, base, from) ==
    [k \in 1..r.parts |-> Block(IncrementUuid(seed, base + from + k), r, k)]
(* And numbered by the turn they are in.                                       *)
Placed(r, seed, ordinal) == [k \in 1..r.parts |-> ParsedBlock(DerivedBlockId(k, seed, ordinal), r, k)]

(* The conversations of a store, in the order its parser reads them: by their  *)
(* own id, or by when they began.                                              *)
Conversations(records, byId) ==
    LET began == FoldLeft(LAMBDA s, r: IF Contains(s, r.conv) THEN s ELSE Append(s, r.conv), <<>>, records)
    IN IF byId THEN SortSeq(began, LAMBDA c, d: c < d) ELSE began
RecordsOf(records, conv) == SelectSeq(records, LAMBDA r: r.conv = conv)

ProposedId(seed, index) == IF index = 1 THEN seed ELSE IncrementUuid(seed, index - 1)

-----------------------------------------------------------------------------
(* claude-code: JSON lines, read one by one.                                   *)
(* Mutant: an id that is used again is used again.                             *)
AsItCame(derived, used) == derived

(* A turn takes the first id from its own on that no turn has.                 *)
FirstFree(derived, used) ==
    LET attempt == CHOOSE a \in 0..Len(used): /\ ~Contains(used, IncrementUuid(derived, a))
                                              /\ \A b \in 0..a - 1: Contains(used, IncrementUuid(derived, b))
    IN IncrementUuid(derived, attempt)

(* A number is minted for every block, taken or not.                           *)
ClaudeBlocks(r, seed, from) == [k \in 1..r.parts |-> ParsedBlock(IncrementUuid(seed, 134217728 + from + k), r, k)]

ClaudeTurn(turns, r, seed) ==
    Append(turns, Turn(FirstFree(TurnId(r.id, seed), [i \in DOMAIN turns |-> turns[i].id]),
                       MapParent(r.parent, seed), r.by, ClaudeBlocks(r, seed, Minted(turns))))

ReadJsonLines(lines) == SelectSeq(lines, LAMBDA r: r.fit)
MostAreJson(lines) == 2 * Len(ReadJsonLines(lines)) >= Len(lines)

ClaudeCode(lines, seed) ==
    LET messages == SelectSeq(ReadJsonLines(lines), LAMBDA r: r.by # "note")
    IN IF ~MostAreJson(lines) \/ messages = <<>> THEN Unknown
       ELSE Parsed(<<SessionOf(messages[1].conv, seed, FoldLeft(LAMBDA ts, r: ClaudeTurn(ts, r, seed), <<>>, messages))>>)

(* codex and antigravity-cli: steps, those of the model collected in one turn  *)
(* until the user speaks.                                                      *)
OpenAssistant(turns, seed) ==
    IF turns # <<>> /\ Last(turns).by = "assistant" THEN turns
    ELSE Append(turns, Turn(IncrementUuid(seed, Len(turns) + 1), LastId(turns), "assistant", <<>>))

Say(turns, r, seed, base) ==
    LET open == IF r.by = "user"
                THEN Append(turns, Turn(IncrementUuid(seed, Len(turns) + 1), LastId(turns), "user", <<>>))
                ELSE OpenAssistant(turns, seed)
    IN [open EXCEPT ![Len(open)].blocks = @ \o Counted(r, seed, base, Minted(turns))]

CodexStep(turns, r, seed) == IF r.by = "note" \/ r.parts = 0 THEN turns ELSE Say(turns, r, seed, 67108864)

(* parseJsonLines: one line that is no JSON and there is nothing to read.      *)
SingleSession(lines, turns, seed) ==
    LET spoken == SelectSeq(turns, IsSpoken)
    IN IF spoken = <<>> THEN Unknown ELSE Parsed(<<SessionOf(lines[1].conv, seed, spoken)>>)

CodexRollout(lines, seed) ==
    IF SomeUnfit(lines) THEN Unknown
    ELSE SingleSession(lines, FoldLeft(LAMBDA ts, r: CodexStep(ts, r, seed), <<>>, lines), seed)

(* A planner's response opens its turn before it is known to say anything.     *)
AntigravityStep(turns, r, seed) ==
    IF r.by = "note" \/ (r.parts = 0 /\ r.by # "assistant") THEN turns ELSE Say(turns, r, seed, 268435456)

AntigravityCli(lines, seed) ==
    IF SomeUnfit(lines) THEN Unknown
    ELSE SingleSession(lines, FoldLeft(LAMBDA ts, r: AntigravityStep(ts, r, seed), <<>>,
                                       SortSeq(lines, LAMBDA r, s: r.step < s.step)), seed)

-----------------------------------------------------------------------------
(* The stores in one database: a row per message, in the order of the rows.    *)
RowTurns(rows, Name(_, _), Blocks(_, _), keepsEmpty) ==
    FoldLeftDomain(LAMBDA turns, i:
        IF rows[i].parts = 0 /\ ~keepsEmpty THEN turns
        ELSE Append(turns, Turn(Name(rows[i], i - 1), LastId(turns), rows[i].by, Blocks(rows[i], i - 1))), <<>>, rows)

OwnOr(r, seed, ordinal) == IF r.id = Nothing THEN IncrementUuid(seed, ordinal + 1) ELSE Id(r.id)

(* turnFromRow: what is no uuid becomes one, in the scope of the seed.         *)
RowId(r, seed, ordinal) == IF r.id = Nothing THEN IncrementUuid(seed, ordinal + 1) ELSE TurnId(r.id, seed)

Stored(records, byId, seed, TurnsOf(_, _)) ==
    IF records = <<>> THEN Unknown
    ELSE LET convs == Conversations(records, byId)
         IN Parsed([i \in DOMAIN convs |->
               SessionOf(convs[i], ProposedId(seed, i), TurnsOf(RecordsOf(records, convs[i]), ProposedId(seed, i)))])

Goose(records, seed) ==
    IF SomeUnfit(records) THEN Unknown
    ELSE Stored(records, FALSE, seed, LAMBDA rows, session:
            RowTurns(rows, LAMBDA r, n: RowId(r, seed, n), LAMBDA r, n: Placed(r, seed, n), TRUE))

Crush(records, seed) ==
    IF SomeUnfit(records) THEN Unknown
    ELSE Stored(records, FALSE, seed, LAMBDA rows, session:
            RowTurns(rows, LAMBDA r, n: TurnId(r.id, session), LAMBDA r, n: Placed(r, seed, n), TRUE))

Zed(records, seed) ==
    IF SomeUnfit(records) THEN Unknown
    ELSE Stored(records, TRUE, seed, LAMBDA rows, session:
            RowTurns(rows, LAMBDA r, n: OwnOr(r, seed, n), LAMBDA r, n: Placed(r, seed, n), FALSE))

(* A conversation is the index of a composer (by "index") and the bubbles it   *)
(* names: a bubble that cannot be read is left out, an index is not.           *)
CursorTurn(turns, r, seed) ==
    IF r.parts = 0 THEN turns
    ELSE Append(turns, Turn(Id(r.id), LastId(turns), r.by, Counted(r, seed, 536870912, Minted(turns))))

Cursor(records, seed) ==
    IF \E i \in DOMAIN records: records[i].by = "index" /\ ~records[i].fit THEN Unknown
    ELSE Stored(records, TRUE, seed, LAMBDA rows, session:
            FoldLeft(LAMBDA ts, r: CursorTurn(ts, r, seed), <<>>, SelectSeq(rows, LAMBDA r: r.fit)))

OpencodeBlocks(r, seed) == [k \in 1..r.parts |-> Block(BlockId(<<"part", r.n, k>>, seed), r, k)]

Opencode(records, seed) ==
    IF SomeUnfit(records) THEN Unknown
    ELSE Stored(records, TRUE, seed, LAMBDA rows, session:
            [i \in DOMAIN rows |-> Turn(TurnId(rows[i].id, seed), MapParent(rows[i].parent, seed),
                                        rows[i].by, OpencodeBlocks(rows[i], seed))])

(* Copilot's exchanges: a record is what was asked and, with the pieces after  *)
(* the first, what came back.                                                  *)
Halves(turns, r, index, names, blocks) ==
    FoldLeft(LAMBDA ts, half:
        LET pieces == IF half = 1 THEN <<1>> ELSE [k \in 1..r.parts - 1 |-> k + 1]
        IN Append(ts, Turn(IncrementUuid(names, index * 2 + half), LastId(ts), IF half = 1 THEN "user" ELSE "assistant",
                   [k \in DOMAIN pieces |-> Block(DerivedBlockId(k, blocks, Len(ts)), r, pieces[k])])),
        turns, [half \in 1..(IF r.parts < 2 THEN r.parts ELSE 2) |-> half])
Exchanges(rows, names, blocks) ==
    FoldLeftDomain(LAMBDA turns, i: Halves(turns, rows[i], i - 1, names, blocks), <<>>, rows)

CopilotCli(records, seed) ==
    IF SomeUnfit(records) THEN Unknown
    ELSE Stored(records, FALSE, seed, LAMBDA rows, session: Exchanges(rows, seed, seed))

(* A panel of VS Code takes its ids from its own session; one that was never   *)
(* used is none.                                                               *)
ChatSessions(records, seed) ==
    LET result == Stored(records, FALSE, seed, LAMBDA rows, session: Exchanges(rows, session, session))
        used == SelectSeq(result.sessions, LAMBDA s: s.turns # <<>>)
    IN IF used = <<>> THEN Unknown ELSE Parsed(used)

(* It is one document, or, as VS Code writes it now, a log: a snapshot, then   *)
(* writes.  The ones that set the whole list of requests (by "list") are read, *)
(* a write into it (by "entry") has a path through an array and is dropped; an *)
(* exchange is in the first list written after it.                             *)
HoldsList(line) == line.fit /\ line.by \in {"snapshot", "list"}
Requests(lines) == SelectSeq(lines, LAMBDA r: \E j \in DOMAIN lines: HoldsList(lines[j]) /\ r.n <= lines[j].n)

CopilotChat(records, seed) == IF SomeUnfit(records) THEN Unknown ELSE ChatSessions(records, seed)

CopilotChatLog(lines, seed) ==
    IF \E i \in DOMAIN lines: lines[i].by = "snapshot" /\ lines[i].fit THEN ChatSessions(Requests(lines), seed)
    ELSE Unknown

(* Kilo and Roo: one task in one JSON document.                                *)
TaskHistory(records, seed) ==
    IF SomeUnfit(records) THEN Unknown
    ELSE SingleSession(records, RowTurns(records, LAMBDA r, n: OwnOr(r, seed, n),
                                         LAMBDA r, n: Placed(r, seed, n), FALSE), seed)

-----------------------------------------------------------------------------
(* What people upload.                                                         *)
CassTurn(r, seed, ordinal) ==
    Turn(TurnId(r.id, seed), MapParent(r.parent, seed), r.by, Placed(r, seed, ordinal))

CassExport(records, seed) ==
    IF SomeUnfit(records) \/ \E i \in DOMAIN records: records[i].id = Nothing THEN Unknown
    ELSE Stored(records, FALSE, seed, LAMBDA rows, session: [i \in DOMAIN rows |-> CassTurn(rows[i], seed, i - 1)])

(* memoar's own export keeps every id, and is refused for one that is no uuid. *)
CanonicalBundle(records, seed) ==
    IF SomeUnfit(records) \/ \E i \in DOMAIN records: ~IsUuid(records[i].id) THEN Unknown
    ELSE LET convs == Conversations(records, FALSE)
         IN Parsed([c \in DOMAIN convs |->
              LET rows == RecordsOf(records, convs[c])
              IN SessionOf(convs[c], Id(<<"uuid", convs[c], 0, 0>>),
                    [i \in DOMAIN rows |-> Turn(Id(rows[i].id), MapParent(rows[i].parent, seed), rows[i].by,
                        [k \in 1..rows[i].parts |-> Block(OwnBlockId(rows[i], k), rows[i], k)])])])

(* chatgpt-export: a conversation is a tree of steps, read depth first.        *)
ChildrenIn(nodes, id) == SelectSeq(nodes, LAMBDA r: r.parent = id)
DepthFirst(nodes) ==
    LET below[i \in DOMAIN nodes] == <<nodes[i]>> \o FlattenSeq([k \in DOMAIN ChildrenIn(nodes, nodes[i].id) |->
                below[CHOOSE j \in DOMAIN nodes: nodes[j] = ChildrenIn(nodes, nodes[i].id)[k]]])
    IN FlattenSeq([i \in DOMAIN nodes |-> IF nodes[i].parent = Nothing THEN below[i] ELSE <<>>])

(* A run of steps of one author, other than the user, is one turn.             *)
Runs(kept) ==
    FoldLeft(LAMBDA runs, r: IF runs # <<>> /\ r.by # "user" /\ Last(runs)[1].by = r.by
                             THEN [runs EXCEPT ![Len(runs)] = Append(@, r)] ELSE Append(runs, <<r>>), <<>>, kept)

(* It is named by its last step, and its parent is the run of the nearest step *)
(* above its first that is in a run.                                           *)
Representative(runs, id) == Last(CHOOSE run \in {runs[i]: i \in DOMAIN runs}: \E k \in DOMAIN run: run[k].id = id).id
Reattached(nodes, runs, first) ==
    LET InRun(id) == \E i \in DOMAIN runs: \E k \in DOMAIN runs[i]: runs[i][k].id = id
        Above(id) == (CHOOSE r \in {nodes[i]: i \in DOMAIN nodes}: r.id = id).parent
        climb[depth \in 0..Len(nodes)] == IF depth = 0 THEN first.parent
                                          ELSE IF climb[depth - 1] = Nothing \/ InRun(climb[depth - 1])
                                               THEN climb[depth - 1] ELSE Above(climb[depth - 1])
        found == climb[Len(nodes)]
    IN IF found = Nothing THEN Nothing ELSE Representative(runs, found)

RunTurn(turns, nodes, runs, run, seed) ==
    LET blocks == FoldLeft(LAMBDA bs, r: bs \o Counted(r, seed, 33554432, Minted(turns) + Len(bs)), <<>>, run)
    IN Append(turns, Turn(TurnId(Last(run).id, seed), MapParent(Reattached(nodes, runs, run[1]), seed), run[1].by, blocks))

ChatgptTurns(nodes, seed) ==
    LET runs == Runs(SelectSeq(DepthFirst(nodes), LAMBDA r: r.parts > 0))
    IN FoldLeft(LAMBDA turns, run: RunTurn(turns, nodes, runs, run, seed), <<>>, runs)

ChatgptExport(records, seed) ==
    IF SomeUnfit(records) THEN Unknown
    ELSE LET result == Stored(records, FALSE, seed, LAMBDA rows, session: ChatgptTurns(rows, seed))
             used == SelectSeq(result.sessions, LAMBDA s: s.turns # <<>>)
         IN IF used = <<>> THEN Unknown ELSE Parsed(used)

-----------------------------------------------------------------------------
(* ParserRegistry.                                                             *)
Parse(format, records, seed) ==
    CASE format = "claude-code" -> ClaudeCode(records, seed)
      [] format = "codex" -> CodexRollout(records, seed)
      [] format = "antigravity-cli" -> AntigravityCli(records, seed)
      [] format = "cursor" -> Cursor(records, seed)
      [] format = "goose" -> Goose(records, seed)
      [] format = "crush" -> Crush(records, seed)
      [] format = "zed" -> Zed(records, seed)
      [] format = "opencode" -> Opencode(records, seed)
      [] format = "copilot" -> CopilotCli(records, seed)
      [] format = "copilot-chat" -> CopilotChat(records, seed)
      [] format = "copilot-chat-log" -> CopilotChatLog(records, seed)
      [] format = "task-history" -> TaskHistory(records, seed)
      [] format = "cass-export" -> CassExport(records, seed)
      [] format = "chatgpt-export" -> ChatgptExport(records, seed)
      [] format = "canonical-bundle" -> CanonicalBundle(records, seed)

UploadFormats == {"canonical-bundle", "cass-export", "chatgpt-export"}
=============================================================================
