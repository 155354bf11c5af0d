----------------------------- MODULE PagesProofs -----------------------------
(***************************************************************************)
(* Theorems about Pages for every bound on a visit and every grid.         *)
(*                                                                         *)
(* Each screen has an invariant of its own; the screens share three facts  *)
(* about requests: what sending, serving and answering one changes.        *)
(***************************************************************************)
EXTENDS Pages, SequenceTheorems, TLAPS

USE DEF pagesVars

-----------------------------------------------------------------------------
(* The inductive invariant, screen by screen.                               *)

Record(kind, arg, state, said) == [kind |-> kind, arg |-> arg, state |-> state, said |-> said]
IsSequence(s) == Len(s) \in Nat /\ s = [i \in 1 .. Len(s) |-> s[i]]
IsRequest(r) ==
    /\ r = Record(r.kind, r.arg, r.state, r.said)
    /\ r.state \in {"sent", "answered", "failed", "over"}

(* Requests are kept in the order they were sent.                           *)
RequestsInv ==
    /\ IsSequence(sent) /\ \A i \in 1 .. Len(sent) : IsRequest(sent[i])
    /\ losses \in Nat /\ elsewhere \in Nat /\ untimely \in BOOLEAN

Answered(i) == sent[i].state = "answered"
AtMostOneAwaited == \A i, j \in 1 .. Len(sent) : Awaited(i) /\ Awaited(j) => i = j

(* The phrase an effect of the search box asked for is the one in the box   *)
(* as long as the effect takes its answer.                                  *)
SearchRecord(phrase, timer, shown, loading, active) ==
    [phrase |-> phrase, timer |-> timer, shown |-> shown, loading |-> loading, active |-> active]
IsSearch(u) == u = SearchRecord(u.phrase, u.timer, u.shown, u.loading, u.active)
SearchInv ==
    page = "search" =>
        /\ IsSearch(ui)
        /\ ui.timer \in BOOLEAN /\ ui.loading \in BOOLEAN
        /\ ui.active \in 0 .. Len(sent)
        /\ ui.active # 0 => sent[ui.active].arg = ui.phrase
        /\ ui.timer => ui.active = 0
        /\ SearchIsOfThePhrase

(* A pin is held exactly when the archive has that one annotation.  While   *)
(* nothing was untimely there is one request at a time: what was answered   *)
(* is held, and what was not answered has changed nothing.                  *)
Held(p) == there.pins = IF p = 0 THEN {} ELSE {p}
PinRecord(pin, busy) == [pin |-> pin, busy |-> busy]
PinsRecord(pins, next) == [pins |-> pins, next |-> next]
IsPin(u) == u = PinRecord(u.pin, u.busy)
IsPins(t) == t = PinsRecord(t.pins, t.next)
PinShape ==
    /\ IsPin(ui) /\ ui.busy \in BOOLEAN
    /\ IsPins(there) /\ there.next \in Nat \ {0}
    /\ \A i \in 1 .. Len(sent) :
          /\ sent[i].kind \in {"list", "pin", "unpin"}
          /\ Awaited(i) /\ sent[i].kind # "list" =>
                ui.busy /\ \A j \in 1 .. Len(sent) : Awaited(j) /\ sent[j].kind # "list" => j = i
PinUnanswered(i) ==
    IF sent[i].kind = "list" THEN sent[i].state = "sent" /\ there.pins \in {{}, {1}}
    ELSE Held(ui.pin) /\ sent[i].arg = ui.pin /\ (sent[i].kind = "pin" <=> ui.pin = 0)
PinAgrees ==
    /\ AtMostOneAwaited
    /\ \A i \in 1 .. Len(sent) :
          /\ Answered(i) => Held(sent[i].said)
          /\ Awaited(i) /\ ~Answered(i) => PinUnanswered(i)
    /\ AllQuiet => Held(ui.pin)
PinInv == page = "pin" => PinShape /\ (~untimely => PinAgrees)

(* While nothing was untimely, an approval or a link on its way is one of   *)
(* the opening on screen, and a closed dialog shows neither.                *)
ShareRecord(open, review, link, busy, opening) ==
    [open |-> open, review |-> review, link |-> link, busy |-> busy, opening |-> opening]
IsShare(u) == u = ShareRecord(u.open, u.review, u.link, u.busy, u.opening)
ShareShape ==
    /\ IsShare(ui) /\ ui.open \in BOOLEAN /\ ui.opening \in Nat
    /\ \A i \in 1 .. Len(sent) : sent[i].kind \in {"findings", "review", "link"}
ShareOfOpening(i) ==
    Awaited(i) /\ sent[i].kind # "findings" =>
        ui.open /\ sent[i].arg = ui.opening /\ (Answered(i) => sent[i].said = ui.opening)
ShareAgrees ==
    /\ \A i \in 1 .. Len(sent) : ShareOfOpening(i)
    /\ IF ui.open THEN ui.review \in {0, ui.opening} /\ ui.link \in {0, ui.opening}
       ELSE ui.review = 0 /\ ui.link = 0
ShareInv == page = "share" => ShareShape /\ (~untimely => ShareAgrees)

(* A conversion's answer names a job no other answer names and the screen   *)
(* does not show; the status an effect waits for is of the job on screen,   *)
(* which the archive has brought at least as far as the screen says.        *)
JobStatus == {"queued", "running", "completed"}
ConvertRecord(job, status, timer, active, error) ==
    [job |-> job, status |-> status, timer |-> timer, active |-> active, error |-> error]
IsConvert(u) == u = ConvertRecord(u.job, u.status, u.timer, u.active, u.error)
Behind(s, t) == StatusRank[s] <= StatusRank[t]
SaidJob(i) == sent[i].said[1]
SaidStatus(i) == sent[i].said[2]
JobAnswer(i) == sent[i].kind = "convert" /\ Answered(i)
ConvertShape ==
    /\ IsConvert(ui) /\ there \in Seq(JobStatus)
    /\ ui.job \in 0 .. Len(there) /\ ui.active \in 0 .. Len(sent) /\ ui.timer \in BOOLEAN
    /\ IF ui.job = 0 THEN ui.status = "none" ELSE ui.status \in JobStatus /\ Behind(ui.status, there[ui.job])
    /\ ui.timer => ui.status \in Unsettled
    /\ ui.active # 0 => sent[ui.active].kind = "status" /\ sent[ui.active].arg = ui.job
ConvertRequest(i) ==
    /\ sent[i].kind \in {"convert", "status"}
    /\ sent[i].state = "failed" => losses > 0
    /\ sent[i].kind = "status" =>
          /\ sent[i].arg \in 1 .. Len(there)
          /\ Answered(i) => /\ SaidJob(i) = sent[i].arg /\ SaidStatus(i) \in JobStatus
                            /\ Behind(SaidStatus(i), there[SaidJob(i)])
                            /\ ui.active = i => Behind(ui.status, SaidStatus(i))
    /\ JobAnswer(i) => SaidJob(i) \in (1 .. Len(there)) \ {ui.job} /\ SaidStatus(i) = "queued"
JobsDiffer ==
    \A i, k \in 1 .. Len(sent) : JobAnswer(i) /\ JobAnswer(k) /\ SaidJob(i) = SaidJob(k) => i = k
ConvertInv ==
    page = "convert" =>
        ConvertShape /\ (\A i \in 1 .. Len(sent) : ConvertRequest(i)) /\ JobsDiffer /\ StillFollowed

(* A review is alone on its way and of the file on screen, a removal is of  *)
(* the list's and leaves the file that was on screen when it was asked for, *)
(* until an answer says otherwise.                                          *)
Doc == [version : Nat, reviewed : Nat]
File(i) == sent[i].arg[1]
Mark(i) == sent[i].arg[2]   \* the version reviewed, or the file on screen at a removal
Removed(d) == \E i \in 1 .. Len(sent) : sent[i].kind = "remove" /\ Answered(i) /\ File(i) = d
SomeRemoved == \E i \in 1 .. Len(sent) : sent[i].kind = "remove" /\ Answered(i)
ReviewAnswered(d) == \E i \in 1 .. Len(sent) : sent[i].kind = "review" /\ Answered(i) /\ File(i) = d
MemoryRecord(list, asked, selected, document, text, reviewing) ==
    [list |-> list, asked |-> asked, selected |-> selected, document |-> document, text |-> text, reviewing |-> reviewing]
IsMemory(u) == u = MemoryRecord(u.list, u.asked, u.selected, u.document, u.text, u.reviewing)
MemoryShape ==
    /\ IsMemory(ui)
    /\ ui.list \in [1 .. 2 -> Doc] /\ ui.selected \in 0 .. 2 /\ ui.document \in Doc
    /\ ui.text \in Nat /\ ui.reviewing \in BOOLEAN
    /\ there \in [1 .. 2 -> Doc] /\ \A d \in 1 .. 2 : InArchive(d) \/ there[d] = Unread
    /\ ui.asked \in 1 .. Len(sent) /\ sent[ui.asked].kind = "list"
MemoryRequest(i) ==
    /\ sent[i].kind \in {"list", "open", "review", "remove"}
    /\ sent[i].kind = "list" /\ Answered(i) => sent[i].said \in [1 .. 2 -> Doc]
    /\ sent[i].kind = "open" => sent[i].arg \in 1 .. 2 /\ (Answered(i) => sent[i].said \in Doc)
    /\ sent[i].kind = "review" => /\ File(i) \in 1 .. 2 /\ Mark(i) \in Nat
                                  /\ Answered(i) => sent[i].said \in Doc /\ sent[i].said.version = Mark(i)
    /\ sent[i].kind = "remove" => File(i) \in 1 .. 2 /\ Mark(i) \in 0 .. 2
OneReview ==
    \A i \in 1 .. Len(sent) : Awaited(i) /\ sent[i].kind = "review" =>
        /\ ui.reviewing
        /\ \A j \in 1 .. Len(sent) : Awaited(j) /\ sent[j].kind = "review" => j = i
Together(i, j) == sent[i].kind # "review" /\ ~(sent[i].kind = "remove" /\ sent[j].kind = "open")
MemoryTurn(i) ==
    /\ sent[i].kind = "review" => File(i) = ui.selected /\ Mark(i) = ui.document.version
    /\ sent[i].kind = "remove" => ui.selected \in {0, Mark(i)}
    /\ sent[i].kind = "list" => sent[i].state # "failed"
MemoryTurns ==
    /\ \A i, j \in 1 .. Len(sent) : Awaited(i) /\ Awaited(j) /\ i # j => Together(i, j)
    /\ \A i \in 1 .. Len(sent) : Awaited(i) => MemoryTurn(i)
    /\ ui.selected # 0 => ui.text = ui.document.version
MemoryAnswer(i) ==
    /\ sent[i].kind = "list" /\ i = ui.asked /\ ~SomeRemoved => sent[i].said = there
    /\ sent[i].kind = "open" => InArchive(sent[i].arg)
    /\ sent[i].kind = "review" => sent[i].said = there[File(i)] /\ ui.list[File(i)] # Unread
MemoryListed ==
    /\ \A i \in 1 .. Len(sent) : Answered(i) => MemoryAnswer(i)
    /\ ~Awaited(ui.asked) /\ ~SomeRemoved => \A d \in 1 .. 2 : ui.list[d] = there[d] \/ ReviewAnswered(d)
    /\ ui.selected # 0 => InArchive(ui.selected) \/ Removed(ui.selected)
MemoryInv ==
    page = "memory" =>
        /\ MemoryShape /\ (\A i \in 1 .. Len(sent) : MemoryRequest(i)) /\ OneReview
        /\ ~untimely => MemoryTurns
        /\ ~untimely /\ losses + elsewhere = 0 => MemoryListed

(* What the current loads say is the membership, unless an action was taken *)
(* that has not been answered to the screen, which loads them again.        *)
TeamActions == {"accept", "decline", "leave"}
ActionTaken == \E i \in 1 .. Len(sent) : sent[i].kind \in TeamActions /\ Answered(i)
TeamIn(status) == IF there = status THEN {"t"} ELSE {}
TeamsRecord(invitations, teams, asked, busy) ==
    [invitations |-> invitations, teams |-> teams, asked |-> asked, busy |-> busy]
IsTeams(u) == u = TeamsRecord(u.invitations, u.teams, u.asked, u.busy)
ListTrue(asked, shown, status) ==
    /\ Answered(asked) => sent[asked].said = TeamIn(status)
    /\ ~Awaited(asked) => shown = TeamIn(status)
TeamsShape ==
    /\ IsTeams(ui)
    /\ \A i \in 1 .. Len(sent) : sent[i].kind \in {"invitations", "teams"} \cup TeamActions
    /\ ui.asked \in (1 .. Len(sent)) \X (1 .. Len(sent))
    /\ sent[ui.asked[1]].kind = "invitations" /\ sent[ui.asked[2]].kind = "teams"
TeamsAgree ==
    /\ sent[ui.asked[1]].state # "failed" /\ sent[ui.asked[2]].state # "failed"
    /\ ~ActionTaken => /\ ListTrue(ui.asked[1], ui.invitations, "invited")
                       /\ ListTrue(ui.asked[2], ui.teams, "member")
TeamsInv == page = "teams" => TeamsShape /\ (losses + elsewhere = 0 => TeamsAgree)

(* Nothing is changed before the settings are loaded; while no two saves    *)
(* overlapped, an answer is what the archive holds, and a change that was   *)
(* not answered is still to be put back to it.                              *)
SettingsRecord(shown, saving) == [shown |-> shown, saving |-> saving]
IsSettings(u) == u = SettingsRecord(u.shown, u.saving)
SettingsShape ==
    /\ IsSettings(ui)
    /\ \A i \in 1 .. Len(sent) :
          /\ sent[i].kind \in {"load", "save"}
          /\ sent[i].kind = "load" /\ Awaited(i) => ui.shown = <<>> /\ AtMostOneAwaited
SettingsAgree ==
    /\ AtMostOneAwaited
    /\ \A i \in 1 .. Len(sent) :
          /\ Answered(i) => sent[i].said = there
          /\ Awaited(i) /\ ~Answered(i) /\ sent[i].kind = "save" => sent[i].arg.previous = there
    /\ AllQuiet /\ ui.shown # <<>> => ui.shown = there
SettingsInv == page = "settings" => SettingsShape /\ (~untimely => SettingsAgree)

(* An import has one request on its way, of the step it is at; a session of *)
(* its file is there only once the file was parsed; and what was there      *)
(* before is among what the import looks past.                              *)
ImportSteps == {"before", "token", "delta", "upload", "manifest", "poll", "status"}
ImportRecord(step, existing, round, imported) ==
    [step |-> step, existing |-> existing, round |-> round, imported |-> imported]
ArchiveRecord(artifact, sessions) == [artifact |-> artifact, sessions |-> sessions]
IsImport(u) == u = ImportRecord(u.step, u.existing, u.round, u.imported)
IsArchive(t) == t = ArchiveRecord(t.artifact, t.sessions)
ImportShape ==
    /\ IsImport(ui) /\ IsArchive(there)
    /\ ui.step \in ImportSteps \cup {"idle", "ready", "refused", "timeout"}
    /\ AtMostOneAwaited
    /\ \A i \in 1 .. Len(sent) :
          /\ sent[i].kind \in ImportSteps
          /\ Awaited(i) => sent[i].kind = ui.step
          /\ sent[i].state = "failed" => losses > 0
ImportArchive ==
    /\ "old" \in there.sessions
    /\ "ours" \in there.sessions => there.artifact = "parsed"
    /\ elsewhere = 0 => there.sessions \subseteq {"old", "ours"}
    /\ ui.step = "upload" => there.artifact \in {"none", "stored"}
ImportAnswer(i) ==
    /\ sent[i].kind \in {"before", "poll"} => "old" \in sent[i].said /\ sent[i].said \subseteq there.sessions
    /\ sent[i].kind = "delta" /\ sent[i].said = "none" => there.artifact = "none"
    /\ sent[i].kind = "status" /\ sent[i].said \in {"failed", "unknown"} => there.artifact = sent[i].said
ImportInv ==
    page = "import" =>
        /\ ImportShape /\ ImportArchive
        /\ \A i \in 1 .. Len(sent) : Answered(i) => ImportAnswer(i)
        /\ ui.step \notin {"idle", "before", "refused", "timeout"} => "old" \in ui.existing
        /\ ImportedIsOurs

(* The tiles are the known ones, each once and on the grid, and what is     *)
(* stored gives them back.                                                  *)
Tile == [id : Known, x : Int, y : Int, width : Int, height : Int]
TilesRecord(layout, drag, origin, preview) ==
    [layout |-> layout, drag |-> drag, origin |-> origin, preview |-> preview]
IsTiles(u) == u = TilesRecord(u.layout, u.drag, u.origin, u.preview)
Usable(layout) ==
    /\ layout \subseteq Tile
    /\ \A id \in Known : \E tile \in layout : tile.id = id
    /\ \A tile \in layout : OnTheGrid(tile) /\ \A other \in layout : other.id = tile.id => other = tile
TilesInv ==
    page = "tiles" =>
        /\ Len(sent) = 0 /\ IsTiles(ui) /\ Usable(ui.layout)
        /\ ui.drag # "none" => ui.origin \in Tile /\ ui.preview \in Tile /\ OnTheGrid(ui.preview)
        /\ losses = 0 => LoadLayout(there) = ui.layout

PagesInv ==
    RequestsInv /\ SearchInv /\ PinInv /\ ShareInv /\ ConvertInv /\ MemoryInv /\ TeamsInv
    /\ SettingsInv /\ ImportInv /\ TilesInv

-----------------------------------------------------------------------------
(* What sending, serving and answering a request changes.                   *)

LEMMA RecordFields ==
  ASSUME NEW kind, NEW arg, NEW state, NEW said
  PROVE  LET r == Record(kind, arg, state, said)
         IN  r.kind = kind /\ r.arg = arg /\ r.state = state /\ r.said = said
  BY DEF Record

LEMMA RecordState ==
  ASSUME NEW r, NEW kind, NEW arg, NEW state, NEW said, r = Record(kind, arg, state, said), NEW other
  PROVE  [r EXCEPT !.state = other] = Record(kind, arg, other, said)
  BY DEF Record

LEMMA RecordSaid ==
  ASSUME NEW r, NEW kind, NEW arg, NEW state, NEW said, r = Record(kind, arg, state, said), NEW other
  PROVE  [r EXCEPT !.said = other] = Record(kind, arg, state, other)
  BY DEF Record

LEMMA SequenceOf ==
  ASSUME NEW s, IsSequence(s)
  PROVE  s \in Seq({s[i] : i \in 1 .. Len(s)})
<1> DEFINE S == {s[i] : i \in 1 .. Len(s)}
<1>1. s \in [1 .. Len(s) -> S]
  BY DEF IsSequence
<1>2. QED
  BY <1>1, IsASeq DEF IsSequence

LEMMA IsSequenceOf ==
  ASSUME NEW S, NEW s \in Seq(S)
  PROVE  IsSequence(s)
  BY DEF IsSequence

LEMMA StateSet ==
  ASSUME NEW S, NEW s \in Seq(S), NEW i, NEW state
  PROVE  [s EXCEPT ![i].state = state] = [s EXCEPT ![i] = [s[i] EXCEPT !.state = state]]
  OBVIOUS

LEMMA Joined ==
  ASSUME NEW S, NEW s \in Seq(S), NEW more \in Seq(S), NEW whole, whole = s \o more
  PROVE  /\ Len(whole) = Len(s) + Len(more) /\ whole \in Seq(S)
         /\ \A j \in 1 .. Len(s) : whole[j] = s[j]
         /\ \A k \in 1 .. Len(more) : whole[Len(s) + k] = more[k]
<1>1. Len(whole) = Len(s) + Len(more) /\ whole \in Seq(S)
  OBVIOUS
<1>2. \A j \in 1 .. Len(s) : whole[j] = s[j]
  OBVIOUS
<1>3. ASSUME NEW k \in 1 .. Len(more) PROVE whole[Len(s) + k] = more[k]
  OBVIOUS
<1>4. QED
  BY <1>1, <1>2, <1>3

LEMMA PostsEffect ==
  ASSUME RequestsInv, NEW kind, NEW arg, Posts(kind, arg)
  PROVE  /\ IsSequence(sent') /\ Len(sent') = Len(sent) + 1
         /\ \A i \in 1 .. Len(sent) : sent'[i] = sent[i]
         /\ sent'[Len(sent) + 1] = Record(kind, arg, "sent", 0)
<1>1. PICK S : sent \in Seq(S)
  BY SequenceOf DEF RequestsInv
<1> DEFINE r == Record(kind, arg, "sent", 0)
           T == S \cup {r}
<1>2. sent \in Seq(T) /\ r \in T
  BY <1>1
<1>3. sent' = Append(sent, r)
  BY DEF Posts, Request, Record
<1> HIDE DEF T, r
<1>4. sent' \in Seq(T) /\ Len(sent') = Len(sent) + 1
  BY <1>2, <1>3
<1>5. (\A i \in 1 .. Len(sent) : sent'[i] = sent[i]) /\ sent'[Len(sent) + 1] = r
  BY <1>2, <1>3
<1>6. QED
  BY <1>4, <1>5, IsSequenceOf DEF r

LEMMA TurnEffect ==
  ASSUME RequestsInv, NEW i \in 1 .. Len(sent), NEW state, NEW said, Turn(i, state, said)
  PROVE  /\ IsSequence(sent') /\ Len(sent') = Len(sent)
         /\ \A j \in 1 .. Len(sent) : j # i => sent'[j] = sent[j]
         /\ sent'[i] = Record(sent[i].kind, sent[i].arg, state, said)
<1>1. PICK S : sent \in Seq(S)
  BY SequenceOf DEF RequestsInv
<1> DEFINE q == Record(sent[i].kind, sent[i].arg, state, sent[i].said)
           r == Record(sent[i].kind, sent[i].arg, state, said)
           turned == [sent EXCEPT ![i].state = state]
<1>2. turned = [sent EXCEPT ![i] = [sent[i] EXCEPT !.state = state]]
  BY <1>1
<1>3. [sent[i] EXCEPT !.state = state] = q
  BY RecordState DEF RequestsInv, IsRequest
<1>4. turned[i] = q
  BY <1>1, <1>2, <1>3
<1>5. sent' = [turned EXCEPT ![i] = [turned[i] EXCEPT !.said = said]]
  BY <1>1 DEF Turn
<1>6. [turned[i] EXCEPT !.said = said] = r
  BY <1>4, RecordSaid
<1> HIDE DEF r
<1>7. sent' = [sent EXCEPT ![i] = r]
  BY <1>2, <1>5, <1>6
<1>8. sent \in Seq(S \cup {r}) /\ r \in S \cup {r}
  BY <1>1
<1>9. sent' \in Seq(S \cup {r}) /\ Len(sent') = Len(sent)
  BY <1>7, <1>8
<1>10. (\A j \in 1 .. Len(sent) : j # i => sent'[j] = sent[j]) /\ sent'[i] = r
  BY <1>7, <1>8
<1>11. QED
  BY <1>9, <1>10, IsSequenceOf DEF r

Over(i) == [sent EXCEPT ![i].state = "over"]

LEMMA OverIs ==
  ASSUME RequestsInv, NEW i \in 1 .. Len(sent)
  PROVE  Over(i) = [sent EXCEPT ![i] = Record(sent[i].kind, sent[i].arg, "over", sent[i].said)]
<1>1. PICK S : sent \in Seq(S)
  BY SequenceOf DEF RequestsInv
<1>2. [sent EXCEPT ![i].state = "over"] = [sent EXCEPT ![i] = [sent[i] EXCEPT !.state = "over"]]
  BY <1>1
<1>3. [sent[i] EXCEPT !.state = "over"] = Record(sent[i].kind, sent[i].arg, "over", sent[i].said)
  BY RecordState DEF RequestsInv, IsRequest
<1>4. QED
  BY <1>2, <1>3 DEF Over

Follows(more) == \A k \in 1 .. Len(more) : sent'[Len(sent) + k] = more[k]

LEMMA ArriveEffect ==
  ASSUME RequestsInv, NEW i \in 1 .. Len(sent), NEW more, IsSequence(more),
         sent' = Over(i) \o more
  PROVE  /\ IsSequence(sent') /\ Len(sent') = Len(sent) + Len(more)
         /\ \A j \in 1 .. Len(sent) : j # i => sent'[j] = sent[j]
         /\ sent'[i] = Record(sent[i].kind, sent[i].arg, "over", sent[i].said)
         /\ Follows(more)
<1>1. PICK S : sent \in Seq(S)
  BY SequenceOf DEF RequestsInv
<1> DEFINE r == Record(sent[i].kind, sent[i].arg, "over", sent[i].said)
           T == {more[k] : k \in 1 .. Len(more)}
           U == S \cup {r} \cup T
           over == [sent EXCEPT ![i] = r]
<1>2. sent' = over \o more
  BY OverIs
<1>0. more \in Seq(T)
  BY SequenceOf
<1> HIDE DEF r, T
<1>3. sent \in Seq(U) /\ r \in U /\ more \in Seq(U)
  BY <1>0, <1>1
<1> HIDE DEF U
<1>4. over \in Seq(U) /\ Len(over) = Len(sent)
  BY <1>3
<1>5. (\A j \in 1 .. Len(sent) : j # i => over[j] = sent[j]) /\ over[i] = r
  BY <1>3
<1> HIDE DEF over
<1>6. SUFFICES ASSUME NEW whole, whole = sent'
      PROVE  /\ IsSequence(whole) /\ Len(whole) = Len(sent) + Len(more)
             /\ \A j \in 1 .. Len(sent) : j # i => whole[j] = sent[j]
             /\ whole[i] = r
             /\ \A k \in 1 .. Len(more) : whole[Len(sent) + k] = more[k]
  BY DEF r, Follows
<1>7. /\ Len(whole) = Len(over) + Len(more) /\ whole \in Seq(U)
      /\ \A j \in 1 .. Len(over) : whole[j] = over[j]
      /\ \A k \in 1 .. Len(more) : whole[Len(over) + k] = more[k]
  <2>1. whole = over \o more /\ over \in Seq(U) /\ more \in Seq(U)
    BY <1>2, <1>3, <1>4, <1>6
  <2>2. QED
    BY ONLY <2>1, Joined
<1>8. QED
  BY <1>4, <1>5, <1>7, IsSequenceOf

(* What an answer loads again: the memory list after a removal, both lists  *)
(* of teams after an action on one, and nothing otherwise.                  *)
ListAgain(i) == page = "memory" /\ sent[i].kind = "remove" /\ Answered(i)
TeamsAgain(i) == page = "teams" /\ sent[i].kind \notin {"invitations", "teams"} /\ Answered(i)

LEMMA ArriveSent ==
  ASSUME RequestsInv, NEW i \in 1 .. Len(sent), Arrive(i)
  PROVE  /\ IsSequence(sent')
         /\ \A j \in 1 .. Len(sent) : j # i => sent'[j] = sent[j]
         /\ sent'[i] = Record(sent[i].kind, sent[i].arg, "over", sent[i].said)
         /\ ListAgain(i) => Len(sent') = Len(sent) + 1 /\ sent'[Len(sent) + 1] = Record("list", 0, "sent", 0)
         /\ TeamsAgain(i) => /\ Len(sent') = Len(sent) + 2
                             /\ sent'[Len(sent) + 1] = Record("invitations", 0, "sent", 0)
                             /\ sent'[Len(sent) + 2] = Record("teams", 0, "sent", 0)
         /\ ~ListAgain(i) /\ ~TeamsAgain(i) => Len(sent') = Len(sent)
<1> DEFINE more == IF sent[i].state = "answered" THEN Reloads(i) ELSE <<>>
           list == Record("list", 0, "sent", 0)
           invitations == Record("invitations", 0, "sent", 0)
           teams == Record("teams", 0, "sent", 0)
           T == {list, invitations, teams}
<1>1. sent' = Over(i) \o more
  BY DEF Arrive, Over
<1>2. more = IF ListAgain(i) THEN <<list>> ELSE IF TeamsAgain(i) THEN <<invitations, teams>> ELSE <<>>
  BY DEF Reloads, ListAgain, TeamsAgain, Answered, Request, Record
<1> HIDE DEF more, list, invitations, teams
<1>3. <<list>> \in Seq(T) /\ <<invitations, teams>> \in Seq(T) /\ << >> \in Seq(T)
  OBVIOUS
<1>4. IsSequence(more)
  BY <1>2, <1>3, IsSequenceOf
<1>5. /\ IsSequence(sent') /\ Len(sent') = Len(sent) + Len(more)
      /\ \A j \in 1 .. Len(sent) : j # i => sent'[j] = sent[j]
      /\ sent'[i] = Record(sent[i].kind, sent[i].arg, "over", sent[i].said)
      /\ Follows(more)
  <2>1. RequestsInv /\ i \in 1 .. Len(sent) /\ IsSequence(more) /\ sent' = Over(i) \o more
    BY <1>1, <1>4
  <2>2. QED
    BY ONLY <2>1, ArriveEffect
<1>6. Len(sent) \in Nat
  BY DEF RequestsInv, IsSequence
<1>7. ListAgain(i) => Len(sent') = Len(sent) + 1 /\ sent'[Len(sent) + 1] = list
  BY <1>2, <1>5 DEF Follows
<1>8. TeamsAgain(i) => Len(sent') = Len(sent) + 2 /\ sent'[Len(sent) + 1] = invitations
                       /\ sent'[Len(sent) + 2] = teams
  <2>1. SUFFICES ASSUME TeamsAgain(i)
        PROVE  Len(sent') = Len(sent) + 2 /\ sent'[Len(sent) + 1] = invitations
                       /\ sent'[Len(sent) + 2] = teams
    OBVIOUS
  <2>2. ~ListAgain(i)
    BY <2>1 DEF ListAgain, TeamsAgain
  <2>3. more = <<invitations, teams>>
    BY <2>1, <2>2, <1>2
  <2>4. Len(more) = 2 /\ more[1] = invitations /\ more[2] = teams
    BY <2>3
  <2>5. QED
    BY <2>4, <1>5 DEF Follows
<1>9. ~ListAgain(i) /\ ~TeamsAgain(i) => Len(sent') = Len(sent)
  BY <1>2, <1>5, <1>6
<1>10. QED
  BY <1>5, <1>7, <1>8, <1>9 DEF list, invitations, teams

(* The indices of the requests, and how a step changes them.                *)
LEMMA Indices ==
  ASSUME RequestsInv
  PROVE  Len(sent) \in Nat /\ DOMAIN sent = 1 .. Len(sent)
  BY DEF RequestsInv, IsSequence

LEMMA SentSteps ==
  ASSUME RequestsInv, [PagesNext]_pagesVars
  PROVE  \/ sent' = sent
         \/ \E kind, arg : Posts(kind, arg)
         \/ \E i \in 1 .. Len(sent) : \E state, said : state \in {"answered", "failed"} /\ Turn(i, state, said)
         \/ \E i \in 1 .. Len(sent) : Arrive(i)
<1>1. CASE UNCHANGED pagesVars
  BY <1>1
<1>2. CASE \E p \in {"none", "a", "b"} : UpdateQuery(p)
  BY <1>2 DEF UpdateQuery
<1>3. CASE DebounceEnds \/ TogglePin
  BY <1>3 DEF DebounceEnds, TogglePin
<1>4. CASE OpenShare \/ OnApprove \/ OnCreate \/ OnClose
  BY <1>4 DEF OpenShare, OnApprove, OnCreate, OnClose
<1>5. CASE QueueConversion \/ AskStatus \/ ApplicationRenders \/ (page = "convert" /\ \E j \in DOMAIN there : JobMoves(j))
  BY <1>5 DEF QueueConversion, AskStatus, ApplicationRenders, JobMoves
<1>6. CASE \E d \in 1 .. 2 : OpenDocument(d) \/ RemoveMemory(d)
  BY <1>6 DEF OpenDocument, RemoveMemory
<1>7. CASE ReviewDocument
  BY <1>7 DEF ReviewDocument
<1>8. CASE \E action \in {"accept", "decline", "leave"} : RunOnTeam(action)
  BY <1>8 DEF RunOnTeam
<1>9. CASE \E k \in 1 .. 2 : Persist(k)
  BY <1>9 DEF Persist
<1>10. CASE Submit \/ ImportProceeds \/ \E outcome \in {"parsed", "failed", "unknown"} : ParseOfTheImport(outcome)
  BY <1>10 DEF Submit, ImportProceeds, ParseOfTheImport
<1>11. CASE \E tile \in Positioned, mode \in {"move", "resize"} :
               \/ TakeHold(tile, mode)
               \/ \E d \in {-1, 1} : OnTileKeyDown(tile, mode, d, 0) \/ OnTileKeyDown(tile, mode, 0, d)
  BY <1>11 DEF TakeHold, OnTileKeyDown, PersistLayout
<1>12. CASE (\E dx, dy \in {-2, 0, 1} : OnMove(dx, dy)) \/ OnUp \/ Reset \/ Elsewhere
  BY <1>12 DEF OnMove, OnUp, Reset, PersistLayout, Elsewhere
<1>13. ASSUME NEW i \in 1 .. Len(sent), ServeSent(i)
       PROVE  \E state, said : state \in {"answered", "failed"} /\ Turn(i, state, said)
  BY <1>13 DEF ServeSent, PinServes, ShareServes, ConvertServes, MemoryServes, TeamsServes,
     SettingsServes, ImportServes
<1>14. ASSUME NEW i \in 1 .. Len(sent), Lose(i)
       PROVE  Turn(i, "failed", 0)
  BY <1>14 DEF Lose
<1>15. QED
  BY <1>1, <1>2, <1>3, <1>4, <1>5, <1>6, <1>7, <1>8, <1>9, <1>10, <1>11, <1>12, <1>13, <1>14,
     Indices DEF PagesNext

LEMMA CountersNext ==
  ASSUME RequestsInv, [PagesNext]_pagesVars
  PROVE  /\ losses' \in Nat /\ elsewhere' \in Nat /\ untimely' \in BOOLEAN
         /\ losses' >= losses /\ elsewhere' >= elsewhere /\ (untimely => untimely')
<1>1. losses' = losses \/ losses' = losses + 1
  BY DEF PagesNext, Stays, OnPage, UpdateQuery, DebounceEnds, TogglePin, OpenShare, OnApprove, OnCreate,
     OnClose, QueueConversion, AskStatus, ApplicationRenders, JobMoves, OpenDocument, RemoveMemory,
     ReviewDocument, RunOnTeam, Persist, Submit, ImportProceeds, ParseOfTheImport, TakeHold,
     OnTileKeyDown, PersistLayout, OnMove, OnUp, Reset, Elsewhere, ServeSent, Lose, Arrive
<1>2. elsewhere' = elsewhere \/ elsewhere' = elsewhere + 1
  BY DEF PagesNext, Stays, OnPage, UpdateQuery, DebounceEnds, TogglePin, OpenShare, OnApprove, OnCreate,
     OnClose, QueueConversion, AskStatus, ApplicationRenders, JobMoves, OpenDocument, RemoveMemory,
     ReviewDocument, RunOnTeam, Persist, Submit, ImportProceeds, ParseOfTheImport, TakeHold,
     OnTileKeyDown, PersistLayout, OnMove, OnUp, Reset, Elsewhere, ServeSent, Lose, Arrive
<1>3. untimely' = untimely \/ \E b \in BOOLEAN : untimely' = (untimely \/ b)
  BY DEF PagesNext, Stays, OnPage, UpdateQuery, DebounceEnds, TogglePin, OpenShare, OnApprove, OnCreate,
     OnClose, QueueConversion, AskStatus, ApplicationRenders, JobMoves, OpenDocument, RemoveMemory,
     ReviewDocument, RunOnTeam, Persist, Submit, ImportProceeds, ParseOfTheImport, TakeHold,
     OnTileKeyDown, PersistLayout, OnMove, OnUp, Reset, Elsewhere, ServeSent, Lose, Arrive
<1>4. QED
  BY <1>1, <1>2, <1>3 DEF RequestsInv

LEMMA RequestsNext ==
  ASSUME RequestsInv, [PagesNext]_pagesVars
  PROVE  RequestsInv'
<1>1. IsSequence(sent')
  BY SentSteps, PostsEffect, TurnEffect, ArriveSent DEF RequestsInv
<1>2. ASSUME NEW kind, NEW arg, NEW state \in {"sent", "answered", "failed", "over"}, NEW said
      PROVE  IsRequest(Record(kind, arg, state, said))
  BY <1>2, RecordFields DEF IsRequest
<1>3. CASE sent' = sent
  BY <1>3, <1>1, CountersNext DEF RequestsInv
<1>4. ASSUME NEW kind, NEW arg, Posts(kind, arg)
      PROVE  \A i \in 1 .. Len(sent') : IsRequest(sent'[i])
  BY <1>4, <1>2, PostsEffect, Indices DEF RequestsInv
<1>5. ASSUME NEW i \in 1 .. Len(sent), NEW state \in {"answered", "failed"}, NEW said, Turn(i, state, said)
      PROVE  \A j \in 1 .. Len(sent') : IsRequest(sent'[j])
  BY <1>5, <1>2, TurnEffect, Indices DEF RequestsInv
<1>6. ASSUME NEW i \in 1 .. Len(sent), Arrive(i)
      PROVE  \A j \in 1 .. Len(sent') : IsRequest(sent'[j])
  <2>1. ASSUME NEW j \in 1 .. Len(sent)
        PROVE  IsRequest(sent'[j])
    <3>1. CASE j # i
      BY <3>1, <1>6, ArriveSent DEF RequestsInv
    <3>2. CASE j = i
      <4>1. sent'[i] = Record(sent[i].kind, sent[i].arg, "over", sent[i].said)
        BY <1>6, ArriveSent
      <4>2. QED
        BY <3>2, <4>1, <1>2
    <3>3. QED
      BY <3>1, <3>2
  <2>2. CASE ListAgain(i)
    <3>1. Len(sent') = Len(sent) + 1 /\ sent'[Len(sent) + 1] = Record("list", 0, "sent", 0)
      BY <2>2, <1>6, ArriveSent
    <3>2. IsRequest(sent'[Len(sent) + 1])
      BY <3>1, <1>2
    <3>3. QED
      BY <3>1, <3>2, <2>1, Indices
  <2>3. CASE TeamsAgain(i)
    <3>1. /\ Len(sent') = Len(sent) + 2
          /\ sent'[Len(sent) + 1] = Record("invitations", 0, "sent", 0)
          /\ sent'[Len(sent) + 2] = Record("teams", 0, "sent", 0)
      BY <2>3, <1>6, ArriveSent
    <3>2. IsRequest(sent'[Len(sent) + 1]) /\ IsRequest(sent'[Len(sent) + 2])
      BY <3>1, <1>2
    <3>3. QED
      BY <3>1, <3>2, <2>1, Indices
  <2>4. CASE ~ListAgain(i) /\ ~TeamsAgain(i)
    BY <2>1, <2>4, <1>6, ArriveSent, Indices
  <2>5. QED
    BY <2>2, <2>3, <2>4
<1>7. QED
  BY <1>1, <1>3, <1>4, <1>5, <1>6, SentSteps, CountersNext DEF RequestsInv

(* The same, field by field.                                                *)
Keeps(j) == sent'[j].kind = sent[j].kind /\ sent'[j].arg = sent[j].arg
Untouched(j) == Keeps(j) /\ sent'[j].state = sent[j].state /\ sent'[j].said = sent[j].said
IsNew(j, kind, arg) ==
    sent'[j].kind = kind /\ sent'[j].arg = arg /\ sent'[j].state = "sent" /\ sent'[j].said = 0

LEMMA Posted ==
  ASSUME RequestsInv, NEW kind, NEW arg, Posts(kind, arg)
  PROVE  /\ Len(sent) \in Nat /\ Len(sent') = Len(sent) + 1
         /\ \A j \in 1 .. Len(sent) : Untouched(j)
         /\ IsNew(Len(sent) + 1, kind, arg)
<1>1. sent'[Len(sent) + 1] = Record(kind, arg, "sent", 0)
  BY PostsEffect
<1>2. IsNew(Len(sent) + 1, kind, arg)
  BY <1>1, RecordFields DEF IsNew
<1>3. QED
  BY <1>2, PostsEffect, Indices DEF Untouched, Keeps

LEMMA Turned ==
  ASSUME RequestsInv, NEW i \in 1 .. Len(sent), NEW state, NEW said, Turn(i, state, said)
  PROVE  /\ Len(sent') = Len(sent)
         /\ \A j \in 1 .. Len(sent) : j # i => Untouched(j)
         /\ Keeps(i) /\ sent'[i].state = state /\ sent'[i].said = said
<1>1. sent'[i] = Record(sent[i].kind, sent[i].arg, state, said)
  BY TurnEffect
<1>2. Keeps(i) /\ sent'[i].state = state /\ sent'[i].said = said
  BY <1>1, RecordFields DEF Keeps
<1>3. QED
  BY <1>2, TurnEffect DEF Untouched, Keeps

LEMMA Arrived ==
  ASSUME RequestsInv, NEW i \in 1 .. Len(sent), Arrive(i), ~ListAgain(i), ~TeamsAgain(i)
  PROVE  /\ Len(sent') = Len(sent)
         /\ \A j \in 1 .. Len(sent) : j # i => Untouched(j)
         /\ Keeps(i) /\ sent'[i].state = "over" /\ sent'[i].said = sent[i].said
<1>1. sent'[i] = Record(sent[i].kind, sent[i].arg, "over", sent[i].said) /\ Len(sent') = Len(sent)
  BY ArriveSent
<1>2. Keeps(i) /\ sent'[i].state = "over" /\ sent'[i].said = sent[i].said
  BY <1>1, RecordFields DEF Keeps
<1>3. QED
  BY <1>1, <1>2, ArriveSent DEF Untouched, Keeps

LEMMA ArrivedAndListed ==
  ASSUME RequestsInv, NEW i \in 1 .. Len(sent), Arrive(i), ListAgain(i)
  PROVE  /\ Len(sent') = Len(sent) + 1
         /\ \A j \in 1 .. Len(sent) : j # i => Untouched(j)
         /\ Keeps(i) /\ sent'[i].state = "over" /\ sent'[i].said = sent[i].said
         /\ IsNew(Len(sent) + 1, "list", 0)
<1>1. /\ sent'[i] = Record(sent[i].kind, sent[i].arg, "over", sent[i].said) /\ Len(sent') = Len(sent) + 1
      /\ sent'[Len(sent) + 1] = Record("list", 0, "sent", 0)
  BY ArriveSent
<1>2. Keeps(i) /\ sent'[i].state = "over" /\ sent'[i].said = sent[i].said
  BY <1>1, RecordFields DEF Keeps
<1>3. IsNew(Len(sent) + 1, "list", 0)
  BY <1>1, RecordFields DEF IsNew
<1>4. QED
  BY <1>1, <1>2, <1>3, ArriveSent DEF Untouched, Keeps

LEMMA ArrivedAndLoaded ==
  ASSUME RequestsInv, NEW i \in 1 .. Len(sent), Arrive(i), TeamsAgain(i)
  PROVE  /\ Len(sent') = Len(sent) + 2
         /\ \A j \in 1 .. Len(sent) : j # i => Untouched(j)
         /\ Keeps(i) /\ sent'[i].state = "over" /\ sent'[i].said = sent[i].said
         /\ IsNew(Len(sent) + 1, "invitations", 0) /\ IsNew(Len(sent) + 2, "teams", 0)
<1>1. /\ sent'[i] = Record(sent[i].kind, sent[i].arg, "over", sent[i].said) /\ Len(sent') = Len(sent) + 2
      /\ sent'[Len(sent) + 1] = Record("invitations", 0, "sent", 0)
      /\ sent'[Len(sent) + 2] = Record("teams", 0, "sent", 0)
  BY ArriveSent
<1>2. Keeps(i) /\ sent'[i].state = "over" /\ sent'[i].said = sent[i].said
  BY <1>1, RecordFields DEF Keeps
<1>3. IsNew(Len(sent) + 1, "invitations", 0) /\ IsNew(Len(sent) + 2, "teams", 0)
  BY <1>1, RecordFields DEF IsNew
<1>4. QED
  BY <1>1, <1>2, <1>3, ArriveSent DEF Untouched, Keeps

(* A screen stays open.                                                     *)
LEMMA PageStays ==
  ASSUME [PagesNext]_pagesVars
  PROVE  page' = page
  BY DEF PagesNext, Stays, OnPage, UpdateQuery, DebounceEnds, TogglePin, OpenShare, OnApprove, OnCreate,
     OnClose, QueueConversion, AskStatus, ApplicationRenders, JobMoves, OpenDocument, RemoveMemory,
     ReviewDocument, RunOnTeam, Persist, Submit, ImportProceeds, ParseOfTheImport, TakeHold,
     OnTileKeyDown, PersistLayout, OnMove, OnUp, Reset, Elsewhere, ServeSent, Lose, Arrive

(* A step is one of the screen that is open, or of one of its requests.     *)
LEMMA StepsOf ==
  ASSUME RequestsInv, [PagesNext]_pagesVars
  PROVE  \/ UNCHANGED pagesVars
         \/ page = "search" /\ ((\E p \in {"none", "a", "b"} : UpdateQuery(p)) \/ DebounceEnds)
         \/ page = "pin" /\ TogglePin
         \/ page = "share" /\ (OpenShare \/ OnApprove \/ OnCreate \/ OnClose)
         \/ /\ page = "convert"
            /\ QueueConversion \/ AskStatus \/ ApplicationRenders \/ \E j \in DOMAIN there : JobMoves(j)
         \/ /\ page = "memory"
            /\ \/ \E d \in 1 .. 2 : OpenDocument(d) \/ RemoveMemory(d)
               \/ ReviewDocument
               \/ Elsewhere /\ CapturedAgain(1)
         \/ /\ page = "teams"
            /\ \/ \E action \in {"accept", "decline", "leave"} : RunOnTeam(action)
               \/ Elsewhere /\ InvitedAgain
         \/ page = "settings" /\ \E k \in 1 .. 2 : Persist(k)
         \/ /\ page = "import"
            /\ \/ Submit \/ ImportProceeds \/ \E outcome \in {"parsed", "failed", "unknown"} : ParseOfTheImport(outcome)
               \/ Elsewhere /\ CapturedElsewhere
         \/ /\ page = "tiles"
            /\ \/ \E tile \in Positioned, mode \in {"move", "resize"} :
                     \/ TakeHold(tile, mode)
                     \/ \E d \in {-1, 1} : OnTileKeyDown(tile, mode, d, 0) \/ OnTileKeyDown(tile, mode, 0, d)
               \/ \E dx, dy \in {-2, 0, 1} : OnMove(dx, dy)
               \/ OnUp \/ Reset
         \/ \E i \in 1 .. Len(sent) : ServeSent(i) \/ Lose(i) \/ Arrive(i)
<1>1. CASE (\E p \in {"none", "a", "b"} : UpdateQuery(p)) \/ DebounceEnds
  BY <1>1 DEF UpdateQuery, DebounceEnds
<1>2. CASE TogglePin
  BY <1>2 DEF TogglePin, OffersPin
<1>3. CASE OpenShare \/ OnApprove \/ OnCreate \/ OnClose
  BY <1>3 DEF OpenShare, OnApprove, OffersApproval, OnCreate, OffersLink, OnClose
<1>4. CASE QueueConversion \/ AskStatus \/ ApplicationRenders
  BY <1>4 DEF QueueConversion, AskStatus, ApplicationRenders
<1>5. CASE \E d \in 1 .. 2 : OpenDocument(d) \/ RemoveMemory(d)
  BY <1>5 DEF OpenDocument, RemoveMemory, Listed
<1>6. CASE ReviewDocument
  BY <1>6 DEF ReviewDocument, OffersReview
<1>7. CASE \E action \in {"accept", "decline", "leave"} : RunOnTeam(action)
  <2>1. PICK action \in {"accept", "decline", "leave"} : RunOnTeam(action)
    BY <1>7
  <2>2. page = "teams"
    BY <2>1 DEF RunOnTeam, OffersToLeave, OffersToAnswer
  <2>3. QED
    BY <1>7, <2>2
<1>8. CASE \E k \in 1 .. 2 : Persist(k)
  BY <1>8 DEF Persist, OffersChange
<1>9. CASE Submit \/ ImportProceeds \/ \E outcome \in {"parsed", "failed", "unknown"} : ParseOfTheImport(outcome)
  BY <1>9 DEF Submit, OffersImport, ImportProceeds, ParseOfTheImport
<1>10. CASE (\E dx, dy \in {-2, 0, 1} : OnMove(dx, dy)) \/ OnUp \/ Reset
  BY <1>10 DEF OnMove, OnUp, Reset
<1>11. CASE Elsewhere
  BY <1>11 DEF Elsewhere, CapturedAgain, InvitedAgain, CapturedElsewhere
<1>12. CASE UNCHANGED pagesVars
  BY <1>12
<1>13. QED
  BY <1>1, <1>2, <1>3, <1>4, <1>5, <1>6, <1>7, <1>8, <1>9, <1>10, <1>11, <1>12, Indices DEF PagesNext

-----------------------------------------------------------------------------
(* The search box.                                                          *)

LEMMA SearchNext ==
  ASSUME RequestsInv, SearchInv, [PagesNext]_pagesVars, page = "search"
  PROVE  SearchInv'
<1> USE DEF SearchInv, SearchIsOfThePhrase, OnScreen, Awaited
<1>0. page' = "search" /\ Len(sent) \in Nat
  BY PageStays, Indices
<1>1. CASE UNCHANGED pagesVars
  BY <1>1
<1>2. ASSUME NEW p \in {"none", "a", "b"}, UpdateQuery(p)
      PROVE  SearchInv'
  <2>1. sent' = sent /\ Len(sent') = Len(sent)
    BY <1>2 DEF UpdateQuery
  <2>2. CASE p = "none"
    <3>1. ui' = SearchRecord("none", FALSE, "none", FALSE, 0)
      BY <2>2, <1>2 DEF UpdateQuery, SearchStart, SearchRecord
    <3>2. IsSearch(ui') /\ ui'.timer = FALSE /\ ui'.shown = "none" /\ ui'.loading = FALSE /\ ui'.active = 0
      BY <3>1 DEF SearchRecord, IsSearch
    <3>3. ui'.timer \in BOOLEAN /\ ui'.loading \in BOOLEAN
      BY <3>2
    <3>4. ui'.active \in 0 .. Len(sent')
      BY <3>2, <2>1, <1>0
    <3>5. (ui.active # 0 => sent[ui.active].arg = ui.phrase)'
      BY <3>2
    <3>6. (ui.timer => ui.active = 0)'
      BY <3>2
    <3>7. SearchIsOfThePhrase'
      BY <3>2
    <3>8. QED
      BY <3>2, <3>3, <3>4, <3>5, <3>6, <3>7, <1>0
  <2>3. CASE p # "none"
    <3>1. ui' = SearchRecord(p, TRUE, ui.shown, ui.loading, 0)
      BY <2>3, <1>2 DEF UpdateQuery, IsSearch, SearchRecord
    <3>2. IsSearch(ui') /\ ui'.timer /\ ui'.timer \in BOOLEAN /\ ui'.loading = ui.loading /\ ui'.active = 0
      BY <3>1 DEF SearchRecord, IsSearch
    <3>3. QED
      BY <3>2, <2>1, <1>0
  <2>4. QED
    BY <2>2, <2>3
<1>3. CASE DebounceEnds
  <2>1. /\ Len(sent') = Len(sent) + 1 /\ \A j \in 1 .. Len(sent) : Untouched(j)
        /\ IsNew(Len(sent) + 1, "search", ui.phrase)
    BY <1>3, Posted DEF DebounceEnds
  <2>2. ui' = SearchRecord(ui.phrase, FALSE, ui.shown, TRUE, Len(sent) + 1)
    BY <1>3 DEF DebounceEnds, IsSearch, SearchRecord
  <2>3. IsSearch(ui') /\ ui'.phrase = ui.phrase /\ ui'.timer = FALSE /\ ui'.loading = TRUE /\ ui'.active = Len(sent) + 1
    BY <2>2 DEF SearchRecord, IsSearch
  <2>4. ui'.active \in 0 .. Len(sent')
    BY <2>1, <2>3, <1>0
  <2>5. sent'[ui'.active].arg = ui'.phrase /\ Awaited(ui.active)'
    BY <2>1, <2>3, <1>0 DEF IsNew
  <2>6. SearchIsOfThePhrase'
    BY <2>3, <2>5
  <2>7. ~ui'.timer /\ ui'.timer \in BOOLEAN /\ ui'.loading \in BOOLEAN
    BY <2>3
  <2>8. QED
    BY <2>3, <2>4, <2>5, <2>6, <2>7
<1>4. ASSUME NEW i \in 1 .. Len(sent), ServeSent(i) \/ Lose(i)
      PROVE  SearchInv'
  <2>0. PICK state \in {"answered", "failed"} : Turn(i, state, 0) /\ ui' = ui
    BY <1>4 DEF ServeSent, Lose
  <2>1. /\ Len(sent') = Len(sent) /\ \A j \in 1 .. Len(sent) : j # i => Untouched(j)
        /\ Keeps(i) /\ sent'[i].state = state
    BY <2>0, Turned
  <2>2. QED
    BY <2>0, <2>1, <1>0 DEF Untouched, Keeps
<1>5. ASSUME NEW i \in 1 .. Len(sent), Arrive(i)
      PROVE  SearchInv'
  <2>0. SearchArrives(i, sent[i].state = "answered")
    BY <1>5 DEF Arrive
  <2>1. /\ Len(sent') = Len(sent) /\ \A j \in 1 .. Len(sent) : j # i => Untouched(j)
        /\ Keeps(i) /\ sent'[i].state = "over"
    BY <1>5, Arrived DEF ListAgain, TeamsAgain
  <2>2. CASE ui.active # i
    BY <2>0, <2>1, <2>2, <1>0 DEF Untouched, Keeps, SearchArrives
  <2>3. CASE ui.active = i
    <3> DEFINE shown == IF sent[i].state = "answered" THEN sent[i].arg ELSE "none"
    <3>1. ui' = SearchRecord(ui.phrase, ui.timer, shown, FALSE, ui.active)
      BY <2>0, <2>3 DEF SearchArrives, IsSearch, SearchRecord
    <3>2. /\ IsSearch(ui') /\ ui'.phrase = ui.phrase /\ ui'.timer = ui.timer /\ ui'.shown = shown
          /\ ui'.loading = FALSE /\ ui'.active = ui.active
      BY <3>1 DEF SearchRecord, IsSearch
    <3>3. SearchIsOfThePhrase'
      BY <3>2, <2>3, <1>0
    <3>4. ui.active # 0 => sent'[ui.active].arg = ui.phrase
      BY <2>1, <2>3 DEF Keeps
    <3>5. QED
      BY <3>2, <3>3, <3>4, <2>1, <1>0
  <2>4. QED
    BY <2>2, <2>3
<1>6. QED
  BY <1>1, <1>2, <1>3, <1>4, <1>5, StepsOf

-----------------------------------------------------------------------------
(* The pin.                                                                 *)

LEMMA LesserIs == Lesser({1}) = 1
  BY DEF Lesser

LEMMA PinNext ==
  ASSUME RequestsInv, PinInv, [PagesNext]_pagesVars, page = "pin"
  PROVE  PinInv'
<1> USE DEF Awaited, Answered, AtMostOneAwaited, AllQuiet
<1>0. page' = "pin" /\ Len(sent) \in Nat /\ PinShape
  BY PageStays, Indices DEF PinInv
<1>1. CASE UNCHANGED pagesVars
  BY <1>1 DEF PinInv, PinShape, PinAgrees, PinUnanswered, Held
<1>2. CASE TogglePin
  <2> DEFINE kind == IF ui.pin # 0 THEN "unpin" ELSE "pin"
  <2>1. /\ Len(sent') = Len(sent) + 1 /\ \A j \in 1 .. Len(sent) : Untouched(j)
        /\ IsNew(Len(sent) + 1, kind, ui.pin)
    BY <1>2, Posted DEF TogglePin
  <2>2. ui' = PinRecord(ui.pin, TRUE) /\ there' = there
    BY <1>0, <1>2 DEF TogglePin, OnPage, IsPin, PinRecord, PinShape
  <2>3. IsPin(ui') /\ ui'.pin = ui.pin /\ ui'.busy /\ ui'.busy \in BOOLEAN
    BY <2>2 DEF IsPin, PinRecord
  <2>4. PinShape'
    <3>1. ~ui.busy
      BY <1>2 DEF TogglePin, OffersPin
    <3>2. \A j \in 1 .. Len(sent) : Awaited(j)' => sent'[j].kind = "list"
      BY <3>1, <2>1, <1>0 DEF PinShape, Untouched, Keeps
    <3>3. \A j \in 1 .. Len(sent') : j \in 1 .. Len(sent) \/ j = Len(sent) + 1
      BY <2>1, <1>0
    <3>4. \A j \in 1 .. Len(sent') : sent'[j].kind \in {"list", "pin", "unpin"}
      BY <3>3, <2>1, <1>0 DEF PinShape, Untouched, Keeps, IsNew
    <3>5. QED
      BY <3>2, <3>3, <3>4, <2>2, <2>3, <1>0 DEF PinShape
  <2>5. ASSUME ~untimely' PROVE PinAgrees'
    <3>1. PinAgrees /\ AllQuiet
      BY <2>5, <1>0, <1>2 DEF TogglePin, OffersPin, InFlight, PinShape, PinInv
    <3>2. PICK n : n = Len(sent) + 1
      OBVIOUS
    <3>3. \A j \in 1 .. Len(sent') : j # n => sent'[j].state = "over"
      BY <3>1, <3>2, <2>1, <1>0 DEF Untouched
    <3>4. sent'[n].kind = kind /\ sent'[n].arg = ui'.pin /\ sent'[n].state = "sent" /\ n \in 1 .. Len(sent')
      BY <2>1, <2>3, <3>2, <1>0 DEF IsNew
    <3>5. PinUnanswered(n)'
      <4>1. Held(ui.pin)' /\ (kind = "pin" <=> ui'.pin = 0) /\ kind # "list"
        BY <3>1, <2>2, <2>3 DEF PinAgrees, Held
      <4>2. QED
        BY <3>4, <4>1 DEF PinUnanswered
    <3>6. QED
      BY <3>3, <3>4, <3>5 DEF PinAgrees
  <2>6. QED
    BY <2>4, <2>5 DEF PinInv
<1>3. ASSUME NEW i \in 1 .. Len(sent), ServeSent(i)
      PROVE  PinInv'
  <2>0. sent[i].state = "sent" /\ PinServes(i) /\ ui' = ui /\ untimely' = untimely
    BY <1>0, <1>3 DEF ServeSent
  <2>1. PICK said : Turn(i, "answered", said)
    BY <2>0 DEF PinServes
  <2>2. /\ Len(sent') = Len(sent) /\ \A j \in 1 .. Len(sent) : j # i => Untouched(j)
        /\ Keeps(i) /\ sent'[i].state = "answered" /\ sent'[i].said = said
    BY <2>1, Turned
  <2>3. IsPins(there') /\ there'.next \in Nat \ {0}
    BY <2>0, <1>0 DEF PinServes, IsPins, PinsRecord, PinShape
  <2>4. PinShape'
    BY <2>0, <2>2, <2>3, <1>0 DEF PinShape, Untouched, Keeps
  <2>5. ASSUME ~untimely PROVE PinAgrees'
    <3>1. PinAgrees /\ PinUnanswered(i)
      BY <2>5, <2>0, <1>0 DEF PinInv, PinAgrees
    <3>2. Held(said)'
      <4>1. CASE sent[i].kind = "list"
        <5>1. /\ Turn(i, "answered", IF there.pins = {} THEN 0 ELSE Lesser(there.pins)) /\ there' = there
          BY <2>0, <4>1 DEF PinServes
        <5>2. said = IF there.pins = {} THEN 0 ELSE Lesser(there.pins)
          BY <5>1, <2>2, Turned
        <5>3. QED
          <6>1. CASE there.pins = {}
            BY <5>1, <5>2, <6>1 DEF Held
          <6>2. CASE there.pins = {1}
            BY <5>1, <5>2, <6>2, LesserIs DEF Held
          <6>3. QED
            BY <3>1, <4>1, <6>1, <6>2 DEF PinUnanswered
      <4>2. CASE sent[i].kind = "pin"
        <5>1. Turn(i, "answered", there.next) /\ there' = PinsRecord(there.pins \cup {there.next}, there.next + 1)
          BY <2>0, <4>2 DEF PinServes, PinsRecord
        <5>2. said = there.next
          BY <5>1, <2>2, Turned
        <5>3. there'.pins = there.pins \cup {there.next}
          BY <5>1 DEF PinsRecord
        <5>4. QED
          BY <5>2, <5>3, <3>1, <4>2, <1>0 DEF PinShape, PinUnanswered, Held
      <4>3. CASE sent[i].kind = "unpin"
        <5>1. Turn(i, "answered", 0) /\ there' = PinsRecord(there.pins \ {sent[i].arg}, there.next)
          BY <2>0, <4>3, <1>0 DEF PinServes, PinsRecord, PinShape, IsPins
        <5>2. said = 0
          BY <5>1, <2>2, Turned
        <5>3. there'.pins = there.pins \ {sent[i].arg}
          BY <5>1 DEF PinsRecord
        <5>4. QED
          BY <5>2, <5>3, <3>1, <4>3 DEF PinUnanswered, Held
      <4>4. QED
        BY <4>1, <4>2, <4>3, <1>0 DEF PinShape
    <3>3. \A j \in 1 .. Len(sent) : j # i => sent'[j].state = "over"
      BY <3>1, <2>0, <2>2 DEF PinAgrees, Untouched
    <3>4. QED
      BY <3>2, <3>3, <2>2 DEF PinAgrees
  <2>6. QED
    BY <2>0, <2>4, <2>5 DEF PinInv
<1>4. ASSUME NEW i \in 1 .. Len(sent), Lose(i)
      PROVE  PinInv'
  <2>0. /\ sent[i].state \in {"sent", "answered"} /\ Turn(i, "failed", 0) /\ ui' = ui /\ there' = there
        /\ untimely' = (untimely \/ sent[i].state = "answered" \/ sent[i].kind = "list")
    BY <1>4 DEF Lose
  <2>1. /\ Len(sent') = Len(sent) /\ \A j \in 1 .. Len(sent) : j # i => Untouched(j)
        /\ Keeps(i) /\ sent'[i].state = "failed"
    BY <2>0, Turned
  <2>2. PinShape'
    BY <2>0, <2>1, <1>0 DEF PinShape, Untouched, Keeps
  <2>3. ASSUME ~untimely' PROVE PinAgrees'
    <3>1. ~untimely /\ sent[i].state = "sent" /\ sent[i].kind # "list"
      BY <2>0, <2>3
    <3>2. PinAgrees /\ PinUnanswered(i)
      BY <3>1, <1>0 DEF PinInv, PinAgrees
    <3>3. \A j \in 1 .. Len(sent) : j # i => sent'[j].state = "over"
      BY <3>1, <3>2, <2>1 DEF PinAgrees, Untouched
    <3>4. PinUnanswered(i)'
      BY <3>1, <3>2, <2>0, <2>1 DEF Keeps, PinUnanswered, Held
    <3>5. QED
      BY <3>3, <3>4, <2>1 DEF PinAgrees
  <2>4. QED
    BY <2>2, <2>3 DEF PinInv
<1>5. ASSUME NEW i \in 1 .. Len(sent), Arrive(i)
      PROVE  PinInv'
  <2> DEFINE ok == sent[i].state = "answered"
  <2>0. /\ sent[i].state \in {"answered", "failed"} /\ PinArrives(i, ok) /\ there' = there /\ untimely' = untimely
    BY <1>0, <1>5 DEF Arrive, OnPage
  <2>1. /\ Len(sent') = Len(sent) /\ \A j \in 1 .. Len(sent) : j # i => Untouched(j)
        /\ Keeps(i) /\ sent'[i].state = "over"
    BY <1>0, <1>5, Arrived DEF ListAgain, TeamsAgain
  <2>2. ui' = IF sent[i].kind = "list" THEN PinRecord(IF ok THEN sent[i].said ELSE 0, ui.busy)
              ELSE PinRecord(IF ok THEN sent[i].said ELSE ui.pin, FALSE)
    <3>1. ui = PinRecord(ui.pin, ui.busy)
      BY <1>0 DEF PinShape, IsPin
    <3>2. CASE sent[i].kind = "list"
      BY <3>1, <3>2, <2>0 DEF PinArrives, PinRecord
    <3>3. CASE sent[i].kind # "list"
      <4>1. ui' = [ui EXCEPT !.busy = FALSE, !.pin = IF ok THEN sent[i].said ELSE ui.pin]
        BY <3>3, <2>0 DEF PinArrives
      <4>2. PICK next : next = IF ok THEN sent[i].said ELSE ui.pin
        OBVIOUS
      <4>3. ui' = [ui EXCEPT !.busy = FALSE, !.pin = next]
        BY <4>1, <4>2
      <4>4. ui' = PinRecord(next, FALSE)
        BY <3>1, <4>3 DEF PinRecord
      <4>5. QED
        BY <3>3, <4>2, <4>4
    <3>4. QED
      BY <3>2, <3>3
  <2>3. /\ IsPin(ui') /\ ui'.busy \in BOOLEAN
        /\ ok => ui'.pin = sent[i].said
        /\ ~ok /\ sent[i].kind # "list" => ui'.pin = ui.pin
        /\ sent[i].kind = "list" => ui'.busy = ui.busy
    BY <2>2, <1>0 DEF IsPin, PinRecord, PinShape

  <2>4. PinShape'
    <3>1. ASSUME NEW j \in 1 .. Len(sent), Awaited(j)', sent'[j].kind # "list"
          PROVE  ui'.busy /\ \A k \in 1 .. Len(sent) : Awaited(k)' /\ sent'[k].kind # "list" => k = j
      <4>1. j # i /\ Awaited(j) /\ sent[j].kind # "list"
        BY <3>1, <2>1 DEF Untouched, Keeps
      <4>2. ui.busy /\ sent[i].kind = "list"
        BY <4>1, <2>0, <1>0 DEF PinShape
      <4>3. \A k \in 1 .. Len(sent) : Awaited(k)' /\ sent'[k].kind # "list" => Awaited(k) /\ sent[k].kind # "list"
        BY <2>1 DEF Untouched, Keeps
      <4>4. ui'.busy
        BY <4>2, <2>3
      <4>5. QED
        BY <4>1, <4>3, <4>4, <1>0 DEF PinShape
    <3>2. QED
      BY <3>1, <2>0, <2>1, <2>3, <1>0 DEF PinShape, Untouched, Keeps
  <2>5. ASSUME ~untimely PROVE PinAgrees'
    <3>1. PinAgrees /\ (~ok => PinUnanswered(i)) /\ (ok => Held(sent[i].said))
      BY <2>5, <2>0, <1>0 DEF PinInv, PinAgrees
    <3>2. Held(ui.pin)'
      BY <3>1, <2>0, <2>3 DEF PinUnanswered, Held
    <3>3. \A j \in 1 .. Len(sent) : sent'[j].state = "over"
      BY <3>1, <2>0, <2>1 DEF PinAgrees, Untouched
    <3>4. QED
      BY <3>2, <3>3, <2>1 DEF PinAgrees
  <2>6. QED
    BY <2>0, <2>4, <2>5 DEF PinInv
<1>6. QED
  BY <1>1, <1>2, <1>3, <1>4, <1>5, StepsOf

-----------------------------------------------------------------------------
(* The share dialog.                                                        *)

LEMMA ShareNext ==
  ASSUME RequestsInv, ShareInv, [PagesNext]_pagesVars, page = "share"
  PROVE  ShareInv'
<1> USE DEF Awaited, Answered
<1>0. page' = "share" /\ Len(sent) \in Nat /\ ShareShape
  BY PageStays, Indices DEF ShareInv
<1>1. CASE UNCHANGED pagesVars
  BY <1>1 DEF ShareInv, ShareShape, ShareAgrees, ShareOfOpening
<1>2. CASE OpenShare
  <2>1. /\ Len(sent') = Len(sent) + 1 /\ \A j \in 1 .. Len(sent) : Untouched(j)
        /\ IsNew(Len(sent) + 1, "findings", 0)
    BY <1>2, Posted DEF OpenShare
  <2>2. ui' = ShareRecord(TRUE, ui.review, ui.link, ui.busy, ui.opening + 1)
    BY <1>0, <1>2 DEF OpenShare, IsShare, ShareRecord, ShareShape
  <2>3. /\ IsShare(ui') /\ ui'.open /\ ui'.open \in BOOLEAN /\ ui'.opening = ui.opening + 1
        /\ ui'.review = ui.review /\ ui'.link = ui.link
    BY <2>2 DEF IsShare, ShareRecord
  <2>4. ~ui.open /\ untimely' = untimely
    BY <1>2 DEF OpenShare
  <2>5. \A j \in 1 .. Len(sent') : j \in 1 .. Len(sent) \/ j = Len(sent) + 1
    BY <2>1, <1>0
  <2>6. ShareShape'
    BY <2>1, <2>3, <2>5, <1>0 DEF ShareShape, Untouched, Keeps, IsNew
  <2>7. ASSUME ~untimely PROVE ShareAgrees'
    <3>1. ShareAgrees
      BY <2>7, <1>0 DEF ShareInv
    <3>2. \A j \in 1 .. Len(sent) : ShareOfOpening(j)'
      BY <3>1, <2>1, <2>4 DEF ShareAgrees, ShareOfOpening, Untouched, Keeps
    <3>3. \A j \in 1 .. Len(sent') : ShareOfOpening(j)'
      BY <3>2, <2>1, <2>5 DEF ShareOfOpening, IsNew
    <3>4. QED
      BY <3>1, <3>3, <2>3, <2>4 DEF ShareAgrees
  <2>8. QED
    BY <2>4, <2>6, <2>7 DEF ShareInv
<1>3. CASE OnApprove \/ OnCreate
  <2>1. PICK kind \in {"review", "link"} : Posts(kind, ui.opening)
    BY <1>3 DEF OnApprove, OnCreate
  <2>2. /\ Len(sent') = Len(sent) + 1 /\ \A j \in 1 .. Len(sent) : Untouched(j)
        /\ IsNew(Len(sent) + 1, kind, ui.opening)
    BY <2>1, Posted
  <2>3. ui.open /\ untimely' = untimely
    BY <1>3 DEF OnApprove, OffersApproval, OnCreate, OffersLink
  <2>4. PICK busy : ui' = ShareRecord(ui.open, ui.review, ui.link, busy, ui.opening)
    <3>1. CASE ui' = ui
      BY <3>1, <1>0 DEF IsShare, ShareShape
    <3>2. CASE ui' = [ui EXCEPT !.busy = TRUE]
      BY <3>2, <1>0 DEF IsShare, ShareShape, ShareRecord
    <3>3. QED
      BY <3>1, <3>2, <1>3 DEF OnApprove, OnCreate
  <2>5. /\ IsShare(ui') /\ ui'.open = ui.open /\ ui'.opening = ui.opening
        /\ ui'.review = ui.review /\ ui'.link = ui.link
    BY <2>4 DEF IsShare, ShareRecord
  <2>6. \A j \in 1 .. Len(sent') : j \in 1 .. Len(sent) \/ j = Len(sent) + 1
    BY <2>2, <1>0
  <2>7. ShareShape'
    BY <2>2, <2>5, <2>6, <1>0 DEF ShareShape, Untouched, Keeps, IsNew
  <2>8. ASSUME ~untimely PROVE ShareAgrees'
    <3>1. ShareAgrees
      BY <2>8, <1>0 DEF ShareInv
    <3>2. \A j \in 1 .. Len(sent) : ShareOfOpening(j)'
      BY <3>1, <2>2, <2>5 DEF ShareAgrees, ShareOfOpening, Untouched, Keeps
    <3>3. \A j \in 1 .. Len(sent') : ShareOfOpening(j)'
      BY <3>2, <2>2, <2>3, <2>5, <2>6 DEF ShareOfOpening, IsNew
    <3>4. QED
      BY <3>1, <3>3, <2>5 DEF ShareAgrees
  <2>9. QED
    BY <2>3, <2>7, <2>8 DEF ShareInv
<1>4. CASE OnClose
  <2>1. sent' = sent /\ ui.open /\ untimely' = (untimely \/ InFlight("review") \/ InFlight("link"))
    BY <1>4 DEF OnClose
  <2>2. ui' = ShareRecord(FALSE, 0, 0, ui.busy, ui.opening)
    BY <1>0, <1>4 DEF OnClose, IsShare, ShareRecord, ShareShape
  <2>3. /\ IsShare(ui') /\ ~ui'.open /\ ui'.open \in BOOLEAN /\ ui'.opening = ui.opening
        /\ ui'.review = 0 /\ ui'.link = 0
    BY <2>2 DEF IsShare, ShareRecord
  <2>4. ShareShape'
    BY <2>1, <2>3, <1>0 DEF ShareShape
  <2>5. ASSUME ~untimely' PROVE ShareAgrees'
    <3>1. \A j \in 1 .. Len(sent) : Awaited(j) => sent[j].kind = "findings"
      BY <2>1, <2>5, <1>0 DEF InFlight, ShareShape
    <3>2. \A j \in 1 .. Len(sent') : ShareOfOpening(j)'
      BY <3>1, <2>1 DEF ShareOfOpening
    <3>3. QED
      BY <3>2, <2>3 DEF ShareAgrees
  <2>6. QED
    BY <2>4, <2>5 DEF ShareInv
<1>5. ASSUME NEW i \in 1 .. Len(sent), ServeSent(i) \/ Lose(i)
      PROVE  ShareInv'
  <2>1. PICK state, said :
           /\ state \in {"answered", "failed"}
           /\ Turn(i, state, said) /\ (state = "answered" => said = sent[i].arg /\ sent[i].state = "sent")
    <3>1. CASE ServeSent(i)
      <4>1. Turn(i, "answered", sent[i].arg) /\ sent[i].state = "sent"
        BY <3>1 DEF ServeSent, ShareServes
      <4>2. QED
        BY <4>1
    <3>2. CASE Lose(i)
      <4>1. Turn(i, "failed", 0)
        BY <3>2 DEF Lose
      <4>2. QED
        BY <4>1
    <3>3. QED
      BY <1>5, <3>1, <3>2
  <2>2. ui' = ui /\ (~untimely' => ~untimely)
    <3>1. ui' = ui
      BY <1>5 DEF ServeSent, Lose
    <3>2. untimely => untimely'
      BY CountersNext
    <3>3. QED
      BY <3>1, <3>2
  <2>3. sent[i].state # "over"
    BY <1>5 DEF ServeSent, Lose
  <2>4. /\ Len(sent') = Len(sent) /\ \A j \in 1 .. Len(sent) : j # i => Untouched(j)
        /\ Keeps(i) /\ sent'[i].state = state /\ sent'[i].said = said
    BY <2>1, Turned
  <2>5. ShareShape'
    BY <2>2, <2>4, <1>0 DEF ShareShape, Untouched, Keeps
  <2>6. ASSUME ~untimely PROVE ShareAgrees'
    <3>1. ShareAgrees
      BY <2>6, <1>0 DEF ShareInv
    <3>2. \A j \in 1 .. Len(sent) : j # i => ShareOfOpening(j)'
      BY <3>1, <2>2, <2>4 DEF ShareAgrees, ShareOfOpening, Untouched, Keeps
    <3>3. ShareOfOpening(i)'
      BY <3>1, <2>1, <2>2, <2>3, <2>4 DEF ShareAgrees, ShareOfOpening, Keeps
    <3>4. QED
      BY <3>1, <3>2, <3>3, <2>2, <2>4 DEF ShareAgrees
  <2>7. QED
    BY <2>2, <2>5, <2>6 DEF ShareInv
<1>6. ASSUME NEW i \in 1 .. Len(sent), Arrive(i)
      PROVE  ShareInv'
  <2> DEFINE ok == sent[i].state = "answered"
  <2>0. sent[i].state \in {"answered", "failed"} /\ ShareArrives(i, ok) /\ untimely' = untimely
    BY <1>0, <1>6 DEF Arrive
  <2>1. /\ Len(sent') = Len(sent) /\ \A j \in 1 .. Len(sent) : j # i => Untouched(j)
        /\ Keeps(i) /\ sent'[i].state = "over"
    BY <1>0, <1>6, Arrived DEF ListAgain, TeamsAgain
  <2>2. PICK review, link, busy :
           /\ ui' = ShareRecord(ui.open, review, link, busy, ui.opening)
           /\ review = ui.review \/ (ok /\ sent[i].kind = "review" /\ review = sent[i].said)
           /\ link = ui.link \/ (ok /\ sent[i].kind = "link" /\ link = sent[i].said)
    <3>1. ui = ShareRecord(ui.open, ui.review, ui.link, ui.busy, ui.opening)
      BY <1>0 DEF ShareShape, IsShare
    <3>2. CASE sent[i].kind = "link"
      <4>1. PICK link : link = IF ok THEN sent[i].said ELSE ui.link
        OBVIOUS
      <4>2. ui' = [ui EXCEPT !.busy = FALSE, !.link = link]
        BY <2>0, <3>2, <4>1 DEF ShareArrives
      <4>3. ui' = ShareRecord(ui.open, ui.review, link, FALSE, ui.opening)
        BY <3>1, <4>2 DEF ShareRecord
      <4>4. QED
        BY <3>2, <4>1, <4>3
    <3>3. CASE sent[i].kind = "review" /\ ok
      <4>1. ui' = [ui EXCEPT !.review = sent[i].said]
        BY <2>0, <3>3 DEF ShareArrives
      <4>2. ui' = ShareRecord(ui.open, sent[i].said, ui.link, ui.busy, ui.opening)
        BY <3>1, <4>1 DEF ShareRecord
      <4>3. QED
        BY <3>3, <4>2
    <3>4. CASE sent[i].kind # "link" /\ ~(sent[i].kind = "review" /\ ok)
      <4>1. ui' = ui
        BY <2>0, <3>4 DEF ShareArrives
      <4>2. QED
        BY <3>1, <4>1
    <3>5. QED
      BY <3>2, <3>3, <3>4
  <2>3. /\ IsShare(ui') /\ ui'.open = ui.open /\ ui'.opening = ui.opening
        /\ ui'.review = review /\ ui'.link = link
    BY <2>2 DEF IsShare, ShareRecord
  <2>4. ShareShape'
    BY <2>1, <2>3, <1>0 DEF ShareShape, Untouched, Keeps
  <2>5. ASSUME ~untimely PROVE ShareAgrees'
    <3>1. ShareAgrees
      BY <2>5, <1>0 DEF ShareInv
    <3>2. \A j \in 1 .. Len(sent') : ShareOfOpening(j)'
      BY <3>1, <2>1, <2>3 DEF ShareAgrees, ShareOfOpening, Untouched, Keeps
    <3>3. review # ui.review \/ link # ui.link => ui.open /\ sent[i].said = ui.opening
      BY <3>1, <2>0, <2>2 DEF ShareAgrees, ShareOfOpening
    <3>4. QED
      BY <3>1, <3>2, <3>3, <2>2, <2>3 DEF ShareAgrees
  <2>6. QED
    BY <2>0, <2>4, <2>5 DEF ShareInv
<1>7. QED
  BY <1>0, <1>1, <1>2, <1>3, <1>4, <1>5, <1>6, StepsOf

-----------------------------------------------------------------------------
(* The conversions.                                                         *)

LEMMA Ranks ==
  /\ Behind("queued", "queued") /\ Behind("queued", "running") /\ Behind("queued", "completed")
  /\ Behind("running", "running") /\ Behind("running", "completed") /\ Behind("completed", "completed")
  /\ Behind("none", "none")
  BY DEF Behind, StatusRank

LEMMA BehindTransitive ==
  ASSUME NEW s \in JobStatus, NEW t \in JobStatus, NEW u \in JobStatus, Behind(s, t), Behind(t, u)
  PROVE  Behind(s, u)
  BY DEF Behind, StatusRank, JobStatus

LEMMA BehindItself ==
  ASSUME NEW s \in JobStatus
  PROVE  Behind(s, s) /\ Behind("queued", s)
  BY Ranks DEF JobStatus

(* Following a job shows what was said of it and waits if it is unsettled.  *)
LEMMA Followed ==
  ASSUME IsConvert(ui), NEW job, NEW status, ui' = Follow(job, status)
  PROVE  /\ IsConvert(ui') /\ ui'.job = job /\ ui'.status = status /\ ui'.active = 0
         /\ ui'.timer \in BOOLEAN /\ (ui'.timer <=> status \in Unsettled)
<1>1. PICK timer : timer = (status \in Unsettled)
  OBVIOUS
<1>2. ui' = [ui EXCEPT !.job = job, !.status = status, !.timer = timer, !.active = 0]
  BY <1>1 DEF Follow
<1>3. ui' = ConvertRecord(job, status, timer, 0, ui.error)
  BY <1>2 DEF IsConvert, ConvertRecord
<1>4. IsConvert(ui') /\ ui'.job = job /\ ui'.status = status /\ ui'.active = 0 /\ ui'.timer = timer
  BY <1>3 DEF IsConvert, ConvertRecord
<1>5. ui'.timer = (status \in Unsettled)
  BY <1>1, <1>4
<1>6. ui'.timer \in BOOLEAN
  BY <1>5
<1>7. ui'.timer <=> status \in Unsettled
  BY <1>5
<1>8. QED
  BY <1>4, <1>6, <1>7

(* Jobs are added and move on.                                              *)
JobsGrow ==
    /\ there' \in Seq(JobStatus) /\ Len(there) \in Nat /\ Len(there') \in Nat /\ Len(there) <= Len(there')
    /\ \A j \in 1 .. Len(there) : Behind(there[j], there'[j])

LEMMA JobsStay ==
  ASSUME there \in Seq(JobStatus), there' = there
  PROVE  JobsGrow
<1>1. \A j \in 1 .. Len(there) : there[j] \in JobStatus
  OBVIOUS
<1>2. QED
  BY <1>1, BehindItself DEF JobsGrow

(* What is true of a request stays true while others are dealt with.        *)
LEMMA ConvertKept ==
  ASSUME RequestsInv, there \in Seq(JobStatus), NEW i \in 1 .. Len(sent), ConvertRequest(i), Untouched(i),
         JobsGrow, losses \in Nat, losses' \in Nat, losses <= losses',
         ui'.active = i => ui.active = i /\ ui'.status = ui.status,
         JobAnswer(i) => SaidJob(i) # ui'.job
  PROVE  ConvertRequest(i)'
<1> DEFINE j == sent[i].arg
<1>1. /\ sent'[i].kind = sent[i].kind /\ sent'[i].arg = j /\ sent'[i].state = sent[i].state
      /\ (Answered(i)' <=> Answered(i)) /\ SaidJob(i)' = SaidJob(i) /\ SaidStatus(i)' = SaidStatus(i)
  BY DEF Untouched, Keeps, Answered, SaidJob, SaidStatus
<1>2. sent[i].state = "failed" => losses' > 0
  BY DEF ConvertRequest
<1>3. ASSUME sent[i].kind = "status"
      PROVE  /\ j \in 1 .. Len(there')
             /\ Answered(i) => /\ SaidJob(i) = j /\ SaidStatus(i) \in JobStatus
                               /\ Behind(SaidStatus(i), there'[SaidJob(i)])
                               /\ ui'.active = i => Behind(ui'.status, SaidStatus(i))
  <2>1. j \in 1 .. Len(there) /\ j \in 1 .. Len(there')
    BY <1>3 DEF ConvertRequest, JobsGrow
  <2>2. there[j] \in JobStatus /\ there'[j] \in JobStatus /\ Behind(there[j], there'[j])
    BY <2>1 DEF JobsGrow
  <2>3. ASSUME Answered(i)
        PROVE  /\ SaidJob(i) = j /\ SaidStatus(i) \in JobStatus
               /\ Behind(SaidStatus(i), there'[SaidJob(i)])
               /\ ui'.active = i => Behind(ui'.status, SaidStatus(i))
    <3>1. /\ SaidJob(i) = j /\ SaidStatus(i) \in JobStatus /\ Behind(SaidStatus(i), there[j])
          /\ ui.active = i => Behind(ui.status, SaidStatus(i))
      BY <1>3, <2>3 DEF ConvertRequest
    <3>2. Behind(SaidStatus(i), there'[j])
      BY <2>2, <3>1, BehindTransitive
    <3>3. QED
      BY <3>1, <3>2
  <2>4. QED
    BY <2>1, <2>3
<1>4. JobAnswer(i)' => SaidJob(i)' \in (1 .. Len(there')) \ {ui'.job} /\ SaidStatus(i)' = "queued"
  BY <1>1 DEF ConvertRequest, JobAnswer, JobsGrow
<1>5. QED
  BY <1>1, <1>2, <1>3, <1>4 DEF ConvertRequest

(* The job on screen is still as far as the archive has brought it.         *)
LEMMA ConvertShown ==
  ASSUME ConvertShape, JobsGrow, ui'.job = ui.job, ui'.status = ui.status
  PROVE  /\ ui'.job \in 0 .. Len(there')
         /\ IF ui'.job = 0 THEN ui'.status = "none"
            ELSE ui'.status \in JobStatus /\ Behind(ui'.status, there'[ui'.job])
<1>1. CASE ui.job = 0
  BY <1>1 DEF ConvertShape, JobsGrow
<1>2. CASE ui.job # 0
  <2>1. ui.job \in 1 .. Len(there) /\ ui.job \in 1 .. Len(there')
    BY <1>2 DEF ConvertShape, JobsGrow
  <2>2. /\ there[ui.job] \in JobStatus /\ there'[ui.job] \in JobStatus /\ Behind(there[ui.job], there'[ui.job])
        /\ ui.status \in JobStatus /\ Behind(ui.status, there[ui.job])
    BY <1>2, <2>1 DEF ConvertShape, JobsGrow
  <2>3. Behind(ui.status, there'[ui.job])
    BY <2>2, BehindTransitive
  <2>4. QED
    BY <1>2, <2>1, <2>2, <2>3
<1>3. QED
  BY <1>1, <1>2

LEMMA JobsDifferStill ==
  ASSUME JobsDiffer,
         \A i \in 1 .. Len(sent') :
             JobAnswer(i)' => i \in 1 .. Len(sent) /\ JobAnswer(i) /\ SaidJob(i)' = SaidJob(i)
  PROVE  JobsDiffer'
  BY DEF JobsDiffer

(* A conversion is asked for, or the status of the job on screen.           *)
LEMMA ConvertPosted ==
  ASSUME RequestsInv, ConvertShape, \A i \in 1 .. Len(sent) : ConvertRequest(i), JobsDiffer,
         NEW kind, NEW arg, Posts(kind, arg),
         kind = "convert" \/ (kind = "status" /\ arg \in 1 .. Len(there)),
         there' = there, ui'.job = ui.job, ui'.status = ui.status,
         ui'.active \in {ui.active, Len(sent) + 1},
         losses \in Nat, losses' = losses
  PROVE  JobsGrow /\ (\A i \in 1 .. Len(sent') : ConvertRequest(i)') /\ JobsDiffer'
<1>0. Len(sent) \in Nat
  BY Indices
<1>1. PICK n : n = Len(sent) + 1
  OBVIOUS
<1>2. /\ Len(sent') = n /\ \A j \in 1 .. Len(sent) : Untouched(j)
      /\ sent'[n].kind = kind /\ sent'[n].arg = arg /\ sent'[n].state = "sent"
  BY <1>1, Posted DEF IsNew
<1>3. JobsGrow
  BY JobsStay DEF ConvertShape
<1>4. ASSUME NEW j \in 1 .. Len(sent) PROVE ConvertRequest(j)'
  <2>1. ConvertRequest(j) /\ Untouched(j) /\ there \in Seq(JobStatus)
    BY <1>2 DEF ConvertShape
  <2>2. ui'.active = j => ui.active = j /\ ui'.status = ui.status
    BY <1>0
  <2>3. JobAnswer(j) => SaidJob(j) # ui'.job
    BY <2>1 DEF ConvertRequest
  <2>4. losses <= losses'
    OBVIOUS
  <2>5. QED
    BY <1>3, <2>1, <2>2, <2>3, <2>4, ConvertKept
<1>5. ConvertRequest(n)'
  BY <1>2 DEF ConvertRequest, JobAnswer, Answered
<1>6. \A i \in 1 .. Len(sent') : i \in 1 .. Len(sent) \/ i = n
  BY <1>0, <1>1, <1>2
<1>7. \A i \in 1 .. Len(sent') : ConvertRequest(i)'
  BY <1>4, <1>5, <1>6
<1>8. \A i \in 1 .. Len(sent') : JobAnswer(i)' => i \in 1 .. Len(sent) /\ JobAnswer(i) /\ SaidJob(i)' = SaidJob(i)
  BY <1>2, <1>6 DEF JobAnswer, Answered, SaidJob, Untouched, Keeps
<1>9. QED
  BY <1>3, <1>7, <1>8, JobsDifferStill

(* One request is served, lost or answered: the others stay as they are.    *)
LEMMA ConvertOthers ==
  ASSUME RequestsInv, ConvertShape, \A j \in 1 .. Len(sent) : ConvertRequest(j),
         NEW i \in 1 .. Len(sent), Len(sent') = Len(sent), \A j \in 1 .. Len(sent) : j # i => Untouched(j),
         ConvertRequest(i)', JobsGrow, losses \in Nat, losses' \in Nat, losses <= losses',
         ui'.active \in {0, ui.active}, ui'.active # 0 => ui'.status = ui.status,
         \A j \in 1 .. Len(sent) : j # i /\ JobAnswer(j) => SaidJob(j) # ui'.job
  PROVE  \A j \in 1 .. Len(sent') : ConvertRequest(j)'
<1>1. SUFFICES ASSUME NEW j \in 1 .. Len(sent), j # i PROVE ConvertRequest(j)'
  OBVIOUS
<1>2. ConvertRequest(j) /\ Untouched(j) /\ there \in Seq(JobStatus)
  BY <1>1 DEF ConvertShape
<1>3. ui'.active = j => ui.active = j /\ ui'.status = ui.status
  BY Indices
<1>4. JobAnswer(j) => SaidJob(j) # ui'.job
  BY <1>1
<1>5. QED
  BY <1>2, <1>3, <1>4, ConvertKept

LEMMA ConvertServed ==
  ASSUME RequestsInv, ConvertShape, \A j \in 1 .. Len(sent) : ConvertRequest(j), JobsDiffer,
         NEW i \in 1 .. Len(sent), sent[i].state = "sent", ConvertServes(i), ui' = ui,
         losses \in Nat, losses' = losses
  PROVE  /\ JobsGrow /\ (\A j \in 1 .. Len(sent') : ConvertRequest(j)') /\ JobsDiffer'
         /\ Len(sent') = Len(sent) /\ Keeps(i) /\ sent'[i].state = "answered"
         /\ \A j \in 1 .. Len(sent) : j # i => Untouched(j)
<1> DEFINE jobs == 1 .. Len(there)
<1>0. /\ there \in Seq(JobStatus) /\ Len(there) \in Nat /\ losses <= losses'
      /\ ui'.active \in {0, ui.active} /\ (ui'.active # 0 => ui'.status = ui.status)
      /\ \A j \in 1 .. Len(sent) : j # i /\ JobAnswer(j) => SaidJob(j) # ui'.job
  BY DEF ConvertShape, ConvertRequest
<1>1. CASE sent[i].kind = "convert"
  <2>1. there' = Append(there, "queued") /\ Turn(i, "answered", <<Len(there) + 1, "queued">>)
    BY <1>1 DEF ConvertServes
  <2>2. /\ Len(sent') = Len(sent) /\ \A j \in 1 .. Len(sent) : j # i => Untouched(j)
        /\ Keeps(i) /\ sent'[i].state = "answered" /\ sent'[i].said = <<Len(there) + 1, "queued">>
    BY <2>1, Turned
  <2>3. SaidJob(i)' = Len(there) + 1 /\ SaidStatus(i)' = "queued"
    BY <2>2 DEF SaidJob, SaidStatus
  <2>4. JobsGrow
    <3>1. "queued" \in JobStatus
      BY DEF JobStatus
    <3>2. there' \in Seq(JobStatus) /\ Len(there') = Len(there) + 1
      BY <1>0, <2>1, <3>1
    <3>3. \A j \in jobs : there'[j] = there[j] /\ there[j] \in JobStatus
      BY <1>0, <2>1
    <3>4. QED
      BY <1>0, <3>2, <3>3, BehindItself DEF JobsGrow
  <2>5. ConvertRequest(i)'
    <3>1. Len(there) + 1 \in (1 .. Len(there')) \ {ui'.job}
      BY <1>0, <2>1 DEF ConvertShape
    <3>2. QED
      BY <1>1, <2>2, <2>3, <3>1 DEF ConvertRequest, Keeps
  <2>6. \A j \in 1 .. Len(sent') : ConvertRequest(j)'
    BY <1>0, <2>2, <2>4, <2>5, ConvertOthers
  <2>7. \A j \in 1 .. Len(sent') : JobAnswer(j)' /\ j # i => JobAnswer(j) /\ SaidJob(j)' = SaidJob(j) /\ SaidJob(j) \in jobs
    BY <2>2 DEF JobAnswer, Answered, SaidJob, Untouched, Keeps, ConvertRequest
  <2>8. JobsDiffer'
    <3>1. \A j \in 1 .. Len(sent') : JobAnswer(j)' /\ j # i => SaidJob(j)' # SaidJob(i)'
      BY <1>0, <2>3, <2>7
    <3>2. QED
      BY <2>2, <2>7, <3>1 DEF JobsDiffer
  <2>9. QED
    BY <2>2, <2>4, <2>6, <2>8
<1>2. CASE sent[i].kind = "status"
  <2> DEFINE j == sent[i].arg
  <2>1. there' = there /\ Turn(i, "answered", <<j, there[j]>>)
    BY <1>2 DEF ConvertServes
  <2>2. /\ Len(sent') = Len(sent) /\ \A k \in 1 .. Len(sent) : k # i => Untouched(k)
        /\ Keeps(i) /\ sent'[i].state = "answered" /\ sent'[i].said = <<j, there[j]>>
    BY <2>1, Turned
  <2>3. SaidJob(i)' = j /\ SaidStatus(i)' = there[j] /\ ~JobAnswer(i)'
    BY <1>2, <2>2 DEF SaidJob, SaidStatus, JobAnswer, Keeps
  <2>4. JobsGrow
    BY <1>0, <2>1, JobsStay
  <2>5. j \in jobs /\ there[j] \in JobStatus
    BY <1>0, <1>2 DEF ConvertRequest
  <2>6. ui.active = i => Behind(ui.status, there[j])
    BY <1>0, <1>2, <2>5 DEF ConvertShape
  <2>7. ConvertRequest(i)'
    BY <1>2, <2>1, <2>2, <2>3, <2>5, <2>6, BehindItself DEF ConvertRequest, Keeps
  <2>8. \A k \in 1 .. Len(sent') : ConvertRequest(k)'
    BY <1>0, <2>2, <2>4, <2>7, ConvertOthers
  <2>9. \A k \in 1 .. Len(sent') : JobAnswer(k)' => k \in 1 .. Len(sent) /\ JobAnswer(k) /\ SaidJob(k)' = SaidJob(k)
    BY <2>2, <2>3 DEF JobAnswer, Answered, SaidJob, Untouched, Keeps
  <2>10. QED
    BY <2>2, <2>4, <2>8, <2>9, JobsDifferStill
<1>3. QED
  BY <1>1, <1>2 DEF ConvertRequest

(* What is shown of a job never goes back.                                  *)
ConvertForward == ui'.job = ui.job => Behind(ui.status, ui'.status)

LEMMA ConvertArrived ==
  ASSUME RequestsInv, ConvertInv, page = "convert", page' = "convert", losses \in Nat, losses' = losses,
         NEW i \in 1 .. Len(sent), Arrive(i)
  PROVE  ConvertInv' /\ ConvertForward
<1> DEFINE ok == sent[i].state = "answered"
<1>0. /\ Len(sent) \in Nat /\ ConvertShape /\ JobsDiffer /\ StillFollowed
      /\ (\A j \in 1 .. Len(sent) : ConvertRequest(j))
  BY Indices DEF ConvertInv
<1>1. /\ sent[i].state \in {"answered", "failed"} /\ ConvertArrives(i, ok) /\ there' = there
      /\ sent[i].kind \in {"convert", "status"}
  BY <1>0 DEF Arrive, OnPage, ConvertRequest
<1>2. /\ Len(sent') = Len(sent) /\ \A j \in 1 .. Len(sent) : j # i => Untouched(j)
      /\ Keeps(i) /\ sent'[i].state = "over" /\ sent'[i].said = sent[i].said
  BY Arrived DEF ListAgain, TeamsAgain
<1>3. JobsGrow
  BY <1>0, <1>1, JobsStay DEF ConvertShape
<1>4. JobsDiffer'
  <2>1. \A k \in 1 .. Len(sent') : JobAnswer(k)' => k \in 1 .. Len(sent) /\ JobAnswer(k) /\ SaidJob(k)' = SaidJob(k)
    BY <1>2 DEF JobAnswer, Answered, SaidJob, Untouched, Keeps
  <2>2. QED
    BY <1>0, <2>1, JobsDifferStill
<1>5. ConvertRequest(i)'
  <2>1. ConvertRequest(i) /\ ~Answered(i)' /\ ~JobAnswer(i)'
    BY <1>0, <1>2 DEF Answered, JobAnswer
  <2>2. QED
    BY <2>1, <1>1, <1>2 DEF ConvertRequest, Keeps
<1>6. CASE ok /\ (sent[i].kind = "status" => ui.active = i)
  <2> DEFINE job == SaidJob(i)
             status == SaidStatus(i)
  <2>1. ui' = Follow(job, status)
    BY <1>1, <1>6 DEF ConvertArrives, SaidJob, SaidStatus
  <2>2. /\ IsConvert(ui') /\ ui'.job = job /\ ui'.status = status /\ ui'.active = 0
        /\ ui'.timer \in BOOLEAN /\ (ui'.timer <=> status \in Unsettled)
    BY <2>1, <1>0, Followed DEF ConvertShape
  <2>3. /\ job \in 1 .. Len(there) /\ status \in JobStatus /\ Behind(status, there[job])
        /\ job # ui.job \/ Behind(ui.status, status)
    <3>1. CASE sent[i].kind = "status"
      BY <3>1, <1>0, <1>6 DEF ConvertRequest, ConvertShape, Answered
    <3>2. CASE sent[i].kind = "convert"
      <4>1. job \in (1 .. Len(there)) \ {ui.job} /\ status = "queued"
        BY <3>2, <1>0, <1>6 DEF ConvertRequest, JobAnswer, Answered
      <4>2. there[job] \in JobStatus
        BY <4>1, <1>0 DEF ConvertShape
      <4>3. QED
        BY <4>1, <4>2, BehindItself DEF JobStatus
    <3>3. QED
      BY <1>1, <3>1, <3>2
  <2>4. ConvertShape'
    BY <2>2, <2>3, <1>0, <1>1, <1>2 DEF ConvertShape
  <2>5. \A j \in 1 .. Len(sent) : j # i /\ JobAnswer(j) => SaidJob(j) # job
    <3>1. CASE sent[i].kind = "status"
      BY <3>1, <1>0, <1>6 DEF ConvertRequest, ConvertShape, Answered
    <3>2. CASE sent[i].kind = "convert"
      BY <3>2, <1>0, <1>6 DEF JobsDiffer, JobAnswer, Answered
    <3>3. QED
      BY <1>1, <3>1, <3>2
  <2>6. \A j \in 1 .. Len(sent') : ConvertRequest(j)'
    <3>1. losses <= losses' /\ ui'.active \in {0, ui.active} /\ (ui'.active # 0 => ui'.status = ui.status)
      BY <2>2
    <3>2. QED
      BY <3>1, <2>2, <2>5, <1>0, <1>2, <1>3, <1>5, ConvertOthers
  <2>7. StillFollowed'
    BY <2>2 DEF StillFollowed
  <2>8. ConvertForward
    BY <2>2, <2>3 DEF ConvertForward
  <2>9. QED
    BY <2>4, <2>6, <2>7, <2>8, <1>4 DEF ConvertInv
<1>7. CASE ~(ok /\ (sent[i].kind = "status" => ui.active = i))
  <2>1. /\ IsConvert(ui') /\ ui'.job = ui.job /\ ui'.status = ui.status /\ ui'.active = ui.active
        /\ ui'.timer = ui.timer
    <3>1. ui' = ui \/ ui' = [ui EXCEPT !.error = TRUE]
      BY <1>1, <1>7 DEF ConvertArrives
    <3>2. CASE ui' = ui
      BY <3>2, <1>0 DEF ConvertShape
    <3>3. CASE ui' = [ui EXCEPT !.error = TRUE]
      <4>1. ui' = ConvertRecord(ui.job, ui.status, ui.timer, ui.active, TRUE)
        BY <3>3, <1>0 DEF ConvertShape, IsConvert, ConvertRecord
      <4>2. QED
        BY <4>1 DEF IsConvert, ConvertRecord
    <3>4. QED
      BY <3>1, <3>2, <3>3
  <2>2. ConvertShape'
    <3>1. ui.active # 0 => sent'[ui.active].kind = "status" /\ sent'[ui.active].arg = ui.job
      BY <1>0, <1>2 DEF ConvertShape, Untouched, Keeps
    <3>2. QED
      BY <2>1, <3>1, <1>0, <1>1, <1>2 DEF ConvertShape
  <2>3. \A j \in 1 .. Len(sent') : ConvertRequest(j)'
    <3>1. /\ losses <= losses' /\ ui'.active \in {0, ui.active} /\ (ui'.active # 0 => ui'.status = ui.status)
          /\ \A j \in 1 .. Len(sent) : j # i /\ JobAnswer(j) => SaidJob(j) # ui'.job
      BY <2>1, <1>0 DEF ConvertRequest
    <3>2. QED
      BY <3>1, <1>0, <1>2, <1>3, <1>5, ConvertOthers
  <2>4. StillFollowed'
    <3>1. CASE ui.active = i
      <4>1. sent[i].kind = "status"
        BY <3>1, <1>0 DEF ConvertShape
      <4>2. sent[i].state = "failed"
        BY <4>1, <3>1, <1>1, <1>7
      <4>3. QED
        BY <4>2, <1>0 DEF ConvertRequest, StillFollowed
    <3>2. CASE ui.active # i
      <4>1. Awaited(ui.active) => Awaited(ui.active)'
        BY <3>2, <2>1, <1>0, <1>2 DEF ConvertShape, Awaited, Untouched
      <4>2. QED
        BY <4>1, <2>1, <1>0 DEF StillFollowed
    <3>3. QED
      BY <3>1, <3>2
  <2>5. ConvertForward
    <3>1. ui.status \in JobStatus \cup {"none"}
      BY <1>0 DEF ConvertShape
    <3>2. QED
      BY <3>1, <2>1, Ranks, BehindItself DEF ConvertForward
  <2>6. QED
    BY <2>2, <2>3, <2>4, <2>5, <1>4 DEF ConvertInv
<1>8. QED
  BY <1>6, <1>7

LEMMA ConvertNext ==
  ASSUME RequestsInv, ConvertInv, [PagesNext]_pagesVars, page = "convert"
  PROVE  ConvertInv' /\ ConvertForward
<1>0. /\ page' = "convert" /\ Len(sent) \in Nat /\ losses \in Nat /\ losses' \in Nat /\ losses <= losses'
      /\ ConvertShape /\ JobsDiffer /\ StillFollowed /\ (\A j \in 1 .. Len(sent) : ConvertRequest(j))
      /\ there \in Seq(JobStatus)
  BY PageStays, Indices, CountersNext DEF ConvertInv, RequestsInv, ConvertShape
<1> DEFINE Still == ui'.job = ui.job /\ ui'.status = ui.status
<1>1. Still => ConvertForward
  <2>1. ui.status \in JobStatus \cup {"none"}
    BY <1>0 DEF ConvertShape
  <2>2. QED
    BY <2>1, Ranks, BehindItself DEF ConvertForward
<1>2. CASE UNCHANGED pagesVars
  <2>1. ConvertInv'
    BY <1>2 DEF ConvertInv, ConvertShape, ConvertRequest, JobsDiffer, JobAnswer, Answered, SaidJob,
       SaidStatus, StillFollowed, Awaited
  <2>2. QED
    BY <2>1, <1>1, <1>2
<1>3. CASE QueueConversion
  <2>1. Posts("convert", 0) /\ there' = there /\ losses' = losses
    BY <1>3 DEF QueueConversion, OnPage, Stays
  <2>2. ui' = ConvertRecord(ui.job, ui.status, ui.timer, ui.active, FALSE)
    BY <1>3, <1>0 DEF QueueConversion, ConvertShape, IsConvert, ConvertRecord
  <2>3. IsConvert(ui') /\ Still /\ ui'.timer = ui.timer /\ ui'.active = ui.active
    BY <2>2 DEF IsConvert, ConvertRecord
  <2>4. JobsGrow /\ (\A i \in 1 .. Len(sent') : ConvertRequest(i)') /\ JobsDiffer'
    <3>1. ui'.active \in {ui.active, Len(sent) + 1}
      BY <2>3
    <3>2. QED
      BY <3>1, <2>1, <2>3, <1>0, ConvertPosted
  <2>5. Len(sent') = Len(sent) + 1 /\ \A j \in 1 .. Len(sent) : Untouched(j)
    BY <2>1, Posted
  <2>6. ConvertShape'
    <3>1. ui.active # 0 => sent'[ui.active].kind = "status" /\ sent'[ui.active].arg = ui.job
      BY <1>0, <2>5 DEF ConvertShape, Untouched, Keeps
    <3>2. QED
      BY <2>1, <2>3, <2>5, <3>1, <1>0 DEF ConvertShape
  <2>7. StillFollowed'
    <3>1. Awaited(ui.active) => Awaited(ui.active)'
      BY <2>3, <2>5, <1>0 DEF ConvertShape, Awaited, Untouched
    <3>2. QED
      BY <3>1, <2>1, <2>3, <1>0 DEF StillFollowed
  <2>8. QED
    BY <2>3, <2>4, <2>6, <2>7, <1>0, <1>1 DEF ConvertInv
<1>4. CASE AskStatus
  <2>1. Posts("status", ui.job) /\ there' = there /\ losses' = losses /\ ui.timer
    BY <1>4 DEF AskStatus, OnPage, Stays
  <2>2. ui.job \in 1 .. Len(there)
    BY <2>1, <1>0 DEF ConvertShape, Unsettled
  <2>3. ui' = ConvertRecord(ui.job, ui.status, FALSE, Len(sent) + 1, ui.error)
    BY <1>4, <1>0 DEF AskStatus, ConvertShape, IsConvert, ConvertRecord
  <2>4. /\ IsConvert(ui') /\ Still /\ ~ui'.timer /\ ui'.timer \in BOOLEAN /\ ui'.active = Len(sent) + 1
    BY <2>3 DEF IsConvert, ConvertRecord
  <2>5. JobsGrow /\ (\A i \in 1 .. Len(sent') : ConvertRequest(i)') /\ JobsDiffer'
    <3>1. ui'.active \in {ui.active, Len(sent) + 1}
      BY <2>4
    <3>2. QED
      BY <3>1, <2>1, <2>2, <2>4, <1>0, ConvertPosted
  <2>6. Len(sent') = Len(sent) + 1 /\ IsNew(Len(sent) + 1, "status", ui.job)
    BY <2>1, Posted
  <2>7. sent'[ui'.active].kind = "status" /\ sent'[ui'.active].arg = ui.job /\ Awaited(ui.active)'
    BY <2>4, <2>6, <1>0 DEF IsNew, Awaited
  <2>8. ConvertShape'
    <3>1. ui'.active \in 0 .. Len(sent')
      BY <2>4, <2>6, <1>0
    <3>2. QED
      BY <2>1, <2>4, <2>7, <3>1, <1>0 DEF ConvertShape
  <2>9. QED
    BY <2>4, <2>5, <2>7, <2>8, <1>0, <1>1 DEF ConvertInv, StillFollowed
<1>5. CASE ApplicationRenders
  <2>1. ui' = Follow(ui.job, ui.status) /\ there' = there /\ sent' = sent /\ losses' = losses
    BY <1>5 DEF ApplicationRenders
  <2>2. /\ IsConvert(ui') /\ Still /\ ui'.active = 0
        /\ ui'.timer \in BOOLEAN /\ (ui'.timer <=> ui.status \in Unsettled)
    BY <2>1, <1>0, Followed DEF ConvertShape
  <2>3. ConvertShape'
    BY <2>1, <2>2, <1>0 DEF ConvertShape
  <2>4. \A j \in 1 .. Len(sent') : ConvertRequest(j)'
    <3>1. SUFFICES ASSUME NEW j \in 1 .. Len(sent) PROVE ConvertRequest(j)'
      BY <2>1
    <3>2. Untouched(j) /\ ui'.active # j /\ (JobAnswer(j) => SaidJob(j) # ui'.job) /\ ConvertRequest(j)
      BY <2>1, <2>2, <1>0 DEF Untouched, Keeps, ConvertRequest
    <3>3. QED
      BY <3>2, <2>1, <1>0, JobsStay, ConvertKept
  <2>5. JobsDiffer'
    BY <2>1, <1>0 DEF JobsDiffer, JobAnswer, Answered, SaidJob
  <2>6. StillFollowed'
    BY <2>2 DEF StillFollowed
  <2>7. QED
    BY <2>2, <2>3, <2>4, <2>5, <2>6, <1>0, <1>1 DEF ConvertInv
<1>6. ASSUME NEW m \in DOMAIN there, JobMoves(m)
      PROVE  ConvertInv' /\ ConvertForward
  <2>1. /\ there' = [there EXCEPT ![m] = IF there[m] = "queued" THEN "running" ELSE "completed"]
        /\ there[m] \in Unsettled /\ ui' = ui /\ sent' = sent /\ losses' = losses /\ m \in 1 .. Len(there)
    BY <1>0, <1>6 DEF JobMoves, Stays
  <2>2. JobsGrow
    <3>1. there' \in Seq(JobStatus) /\ Len(there') = Len(there)
      BY <1>0, <2>1 DEF JobStatus
    <3>2. \A j \in 1 .. Len(there) : there[j] \in JobStatus /\ (j # m => there'[j] = there[j])
      BY <1>0, <2>1
    <3>3. Behind(there[m], there'[m])
      BY <1>0, <2>1, Ranks DEF Unsettled
    <3>4. QED
      BY <1>0, <3>1, <3>2, <3>3, BehindItself DEF JobsGrow
  <2>3. ConvertShape'
    BY <2>1, <2>2, <1>0, ConvertShown DEF ConvertShape, JobsGrow
  <2>4. \A j \in 1 .. Len(sent') : ConvertRequest(j)'
    <3>1. SUFFICES ASSUME NEW j \in 1 .. Len(sent) PROVE ConvertRequest(j)'
      BY <2>1
    <3>2. Untouched(j) /\ (JobAnswer(j) => SaidJob(j) # ui'.job) /\ ConvertRequest(j)
      BY <2>1, <1>0 DEF Untouched, Keeps, ConvertRequest
    <3>3. QED
      BY <3>2, <2>1, <2>2, <1>0, ConvertKept
  <2>5. JobsDiffer'
    BY <2>1, <1>0 DEF JobsDiffer, JobAnswer, Answered, SaidJob
  <2>6. StillFollowed'
    BY <2>1, <1>0 DEF StillFollowed, Awaited
  <2>7. QED
    BY <2>1, <2>3, <2>4, <2>5, <2>6, <1>0, <1>1 DEF ConvertInv
<1>7. ASSUME NEW i \in 1 .. Len(sent), ServeSent(i)
      PROVE  ConvertInv' /\ ConvertForward
  <2>1. sent[i].state = "sent" /\ ConvertServes(i) /\ ui' = ui /\ losses' = losses
    BY <1>0, <1>7 DEF ServeSent
  <2>2. /\ JobsGrow /\ (\A j \in 1 .. Len(sent') : ConvertRequest(j)') /\ JobsDiffer'
        /\ Len(sent') = Len(sent) /\ Keeps(i) /\ sent'[i].state = "answered"
        /\ \A j \in 1 .. Len(sent) : j # i => Untouched(j)
    BY <1>0, <2>1, ConvertServed
  <2>3. ConvertShape'
    BY <2>1, <2>2, <1>0, ConvertShown DEF ConvertShape, JobsGrow, Untouched, Keeps
  <2>4. StillFollowed'
    BY <2>1, <2>2, <1>0 DEF StillFollowed, Awaited, ConvertShape, Untouched
  <2>5. QED
    BY <2>1, <2>2, <2>3, <2>4, <1>0, <1>1 DEF ConvertInv
<1>8. ASSUME NEW i \in 1 .. Len(sent), Lose(i)
      PROVE  ConvertInv' /\ ConvertForward
  <2>1. Turn(i, "failed", 0) /\ losses' = losses + 1 /\ ui' = ui /\ there' = there
    BY <1>8 DEF Lose
  <2>2. /\ Len(sent') = Len(sent) /\ Keeps(i) /\ sent'[i].state = "failed"
        /\ \A j \in 1 .. Len(sent) : j # i => Untouched(j)
    BY <2>1, Turned
  <2>3. JobsGrow
    BY <2>1, <1>0, JobsStay
  <2>4. ConvertShape'
    BY <2>1, <2>2, <1>0 DEF ConvertShape, Untouched, Keeps
  <2>5. ConvertRequest(i)'
    <3>1. losses' > 0
      BY <2>1, <1>0
    <3>2. QED
      BY <3>1, <2>1, <2>2, <1>0 DEF ConvertRequest, Keeps, JobAnswer, Answered
  <2>6. \A j \in 1 .. Len(sent') : ConvertRequest(j)'
    <3>1. /\ ui'.active \in {0, ui.active} /\ (ui'.active # 0 => ui'.status = ui.status)
          /\ \A j \in 1 .. Len(sent) : j # i /\ JobAnswer(j) => SaidJob(j) # ui'.job
      BY <2>1, <1>0 DEF ConvertRequest
    <3>2. QED
      BY <3>1, <2>2, <2>3, <2>5, <1>0, ConvertOthers
  <2>7. JobsDiffer'
    <3>1. \A k \in 1 .. Len(sent') : JobAnswer(k)' => k \in 1 .. Len(sent) /\ JobAnswer(k) /\ SaidJob(k)' = SaidJob(k)
      BY <2>2 DEF JobAnswer, Answered, SaidJob, Untouched, Keeps
    <3>2. QED
      BY <3>1, <1>0, JobsDifferStill
  <2>8. StillFollowed'
    BY <2>1, <1>0 DEF StillFollowed
  <2>9. QED
    BY <2>1, <2>4, <2>6, <2>7, <2>8, <1>0, <1>1 DEF ConvertInv
<1>9. ASSUME NEW i \in 1 .. Len(sent), Arrive(i)
      PROVE  ConvertInv' /\ ConvertForward
  <2>1. losses' = losses
    BY <1>9 DEF Arrive, OnPage, Stays
  <2>2. QED
    BY <1>0, <1>9, <2>1, ConvertArrived
<1>10. QED
  BY <1>0, <1>2, <1>3, <1>4, <1>5, <1>6, <1>7, <1>8, <1>9, StepsOf

-----------------------------------------------------------------------------
(* The teams.                                                               *)

LEMMA NothingMeanwhile ==
  ASSUME RequestsInv, [PagesNext]_pagesVars, losses' + elsewhere' = 0
  PROVE  losses + elsewhere = 0 /\ losses' = losses /\ elsewhere' = elsewhere
  BY CountersNext DEF RequestsInv

LEMMA TeamsNext ==
  ASSUME RequestsInv, TeamsInv, [PagesNext]_pagesVars, page = "teams"
  PROVE  TeamsInv'
<1> DEFINE first == ui.asked[1]
           second == ui.asked[2]
<1>0. /\ page' = "teams" /\ Len(sent) \in Nat /\ TeamsShape
      /\ first \in 1 .. Len(sent) /\ second \in 1 .. Len(sent)
  BY PageStays, Indices DEF TeamsInv, TeamsShape
<1>1. ASSUME losses' + elsewhere' = 0 PROVE TeamsAgree
  BY <1>0, <1>1, NothingMeanwhile DEF TeamsInv
<1>2. CASE UNCHANGED pagesVars
  BY <1>2 DEF TeamsInv, TeamsShape, TeamsAgree, ListTrue, ActionTaken, Answered, Awaited, TeamIn
<1>3. ASSUME NEW action \in TeamActions, RunOnTeam(action)
      PROVE  TeamsInv'
  <2>1. Posts(action, 0) /\ there' = there
    BY <1>3 DEF RunOnTeam, OnPage
  <2>2. PICK n : n = Len(sent) + 1
    OBVIOUS
  <2>3. /\ Len(sent') = n /\ \A j \in 1 .. Len(sent) : Untouched(j)
        /\ sent'[n].kind = action /\ sent'[n].state = "sent"
    BY <2>1, <2>2, Posted DEF IsNew
  <2>4. ui' = TeamsRecord(ui.invitations, ui.teams, ui.asked, TRUE)
    BY <1>0, <1>3 DEF RunOnTeam, TeamsShape, IsTeams, TeamsRecord
  <2>5. IsTeams(ui') /\ ui'.asked = ui.asked /\ ui'.invitations = ui.invitations /\ ui'.teams = ui.teams
    BY <2>4 DEF IsTeams, TeamsRecord
  <2>6. \A j \in 1 .. Len(sent') : j \in 1 .. Len(sent) \/ j = n
    BY <1>0, <2>2, <2>3
  <2>7. TeamsShape'
    <3>1. ui.asked \in (1 .. Len(sent')) \X (1 .. Len(sent'))
      BY <1>0, <2>2, <2>3 DEF TeamsShape
    <3>2. \A j \in 1 .. Len(sent') : sent'[j].kind \in {"invitations", "teams"} \cup TeamActions
      BY <1>0, <2>3, <2>6 DEF TeamsShape, Untouched, Keeps
    <3>3. sent'[first].kind = "invitations" /\ sent'[second].kind = "teams"
      BY <1>0, <2>3 DEF TeamsShape, Untouched, Keeps
    <3>4. QED
      BY <2>5, <3>1, <3>2, <3>3 DEF TeamsShape
  <2>8. ASSUME losses' + elsewhere' = 0 PROVE TeamsAgree'
    <3>1. TeamsAgree
      BY <1>1, <2>8
    <3>2. ActionTaken => ActionTaken'
      BY <1>0, <2>2, <2>3 DEF ActionTaken, Answered, Untouched, Keeps
    <3>3. QED
      BY <3>1, <3>2, <2>1, <2>3, <2>5, <1>0 DEF TeamsAgree, ListTrue, Untouched, Answered, Awaited, TeamIn
  <2>9. QED
    BY <2>7, <2>8 DEF TeamsInv
<1>4. CASE Elsewhere
  <2>1. sent' = sent /\ elsewhere' = elsewhere + 1
    BY <1>4 DEF Elsewhere
  <2>2. ui' = ui
    BY <1>4 DEF Elsewhere, CapturedAgain, InvitedAgain, CapturedElsewhere
  <2>3. losses' + elsewhere' # 0
    BY <2>1, CountersNext DEF RequestsInv
  <2>4. QED
    BY <2>1, <2>2, <2>3, <1>0 DEF TeamsInv, TeamsShape
<1>5. ASSUME NEW i \in 1 .. Len(sent), ServeSent(i)
      PROVE  TeamsInv'
  <2>1. sent[i].state = "sent" /\ TeamsServes(i) /\ ui' = ui
    BY <1>0, <1>5 DEF ServeSent
  <2>2. PICK state, said : state \in {"answered", "failed"} /\ Turn(i, state, said)
    BY <2>1 DEF TeamsServes
  <2>3. /\ Len(sent') = Len(sent) /\ \A j \in 1 .. Len(sent) : j # i => Untouched(j)
        /\ Keeps(i) /\ sent'[i].state = state /\ sent'[i].said = said
    BY <2>2, Turned
  <2>4. TeamsShape'
    BY <1>0, <2>1, <2>3 DEF TeamsShape, Untouched, Keeps
  <2>5. ASSUME losses' + elsewhere' = 0 PROVE TeamsAgree'
    <3>1. TeamsAgree
      BY <1>1, <2>5
    <3>2. CASE sent[i].kind = "teams"
      <4>1. there' = there /\ Turn(i, "answered", TeamIn("member"))
        BY <2>1, <3>2 DEF TeamsServes, TeamIn
      <4>2. state = "answered" /\ said = TeamIn("member")
        BY <4>1, <2>3, Turned
      <4>3. ActionTaken => ActionTaken'
        BY <2>3, <3>2, <2>1 DEF ActionTaken, Answered, Untouched, Keeps, TeamActions
      <4>4. first # i
        BY <3>2, <1>0 DEF TeamsShape
      <4>5. QED
        BY <3>1, <4>1, <4>2, <4>3, <4>4, <2>1, <2>3, <1>0 DEF TeamsAgree, ListTrue, Untouched, Answered, Awaited, TeamIn
    <3>3. CASE sent[i].kind = "invitations"
      <4>1. there' = there /\ Turn(i, "answered", TeamIn("invited"))
        BY <2>1, <3>3 DEF TeamsServes, TeamIn
      <4>2. state = "answered" /\ said = TeamIn("invited")
        BY <4>1, <2>3, Turned
      <4>3. ActionTaken => ActionTaken'
        BY <2>3, <3>3, <2>1 DEF ActionTaken, Answered, Untouched, Keeps, TeamActions
      <4>4. second # i
        BY <3>3, <1>0 DEF TeamsShape
      <4>5. QED
        BY <3>1, <4>1, <4>2, <4>3, <4>4, <2>1, <2>3, <1>0 DEF TeamsAgree, ListTrue, Untouched, Answered, Awaited, TeamIn
    <3>4. CASE sent[i].kind \in TeamActions
      <4>1. first # i /\ second # i
        BY <3>4, <1>0 DEF TeamsShape, TeamActions
      <4>2. CASE state = "answered"
        <5>1. ActionTaken'
          BY <3>4, <4>2, <2>3 DEF ActionTaken, Answered, Keeps
        <5>2. QED
          BY <5>1, <4>1, <3>1, <2>1, <2>3, <1>0 DEF TeamsAgree, Untouched
      <4>3. CASE state = "failed"
        <5>1. there' = there
          <6>1. ~Turn(i, "answered", 0)
            BY <2>3, <4>3, Turned
          <6>2. QED
            BY <6>1, <2>1, <3>4 DEF TeamsServes, TeamActions
        <5>2. ActionTaken => ActionTaken'
          BY <2>1, <2>3 DEF ActionTaken, Answered, Untouched, Keeps
        <5>3. QED
          BY <5>1, <5>2, <4>1, <3>1, <2>1, <2>3, <1>0 DEF TeamsAgree, ListTrue, Untouched, Answered, Awaited, TeamIn
      <4>4. QED
        BY <2>2, <4>2, <4>3
    <3>5. QED
      BY <3>2, <3>3, <3>4, <1>0 DEF TeamsShape
  <2>6. QED
    BY <2>4, <2>5 DEF TeamsInv
<1>6. ASSUME NEW i \in 1 .. Len(sent), Lose(i)
      PROVE  TeamsInv'
  <2>1. Turn(i, "failed", 0) /\ losses' = losses + 1 /\ ui' = ui
    BY <1>6 DEF Lose
  <2>2. /\ Len(sent') = Len(sent) /\ \A j \in 1 .. Len(sent) : Keeps(j)
    BY <2>1, Turned DEF Untouched
  <2>3. losses' + elsewhere' # 0
    BY <2>1, CountersNext DEF RequestsInv
  <2>4. QED
    BY <2>1, <2>2, <2>3, <1>0 DEF TeamsInv, TeamsShape, Keeps

<1>7. ASSUME NEW i \in 1 .. Len(sent), Arrive(i)
      PROVE  TeamsInv'
  <2> DEFINE ok == sent[i].state = "answered"
  <2>0. /\ sent[i].state \in {"answered", "failed"} /\ TeamsArrives(i, ok) /\ there' = there
        /\ ui = TeamsRecord(ui.invitations, ui.teams, ui.asked, ui.busy)
    BY <1>0, <1>7 DEF Arrive, OnPage, TeamsShape, IsTeams
  <2>1. CASE sent[i].kind \in TeamActions /\ ok
    <3>1. TeamsAgain(i)
      BY <1>0, <2>1 DEF TeamsAgain, TeamActions, Answered
    <3>2. PICK m, n : m = Len(sent) + 1 /\ n = Len(sent) + 2
      OBVIOUS
    <3>3. /\ Len(sent') = n /\ \A j \in 1 .. Len(sent) : Keeps(j)
          /\ sent'[m].kind = "invitations" /\ sent'[m].state = "sent"
          /\ sent'[n].kind = "teams" /\ sent'[n].state = "sent"
      BY <1>7, <3>1, <3>2, ArrivedAndLoaded DEF IsNew, Untouched
    <3>4. ui' = [ui EXCEPT !.busy = FALSE, !.asked = <<m, n>>]
      BY <2>0, <2>1, <3>2 DEF TeamsArrives, TeamActions
    <3>5. ui' = TeamsRecord(ui.invitations, ui.teams, <<m, n>>, FALSE)
      BY <2>0, <3>4 DEF TeamsRecord
    <3>6. IsTeams(ui') /\ ui'.asked = <<m, n>>
      BY <3>5 DEF IsTeams, TeamsRecord
    <3>7. ui'.asked[1] = m /\ ui'.asked[2] = n /\ ui'.asked \in (1 .. Len(sent')) \X (1 .. Len(sent'))
      BY <3>2, <3>3, <3>6, <1>0
    <3>8. \A j \in 1 .. Len(sent') : j \in 1 .. Len(sent) \/ j = m \/ j = n
      BY <1>0, <3>2, <3>3
    <3>9. TeamsShape'
      BY <3>3, <3>6, <3>7, <3>8, <1>0 DEF TeamsShape, Keeps
    <3>10. TeamsAgree'
      BY <3>3, <3>7, <3>2, <1>0 DEF TeamsAgree, ListTrue, Answered, Awaited
    <3>11. QED
      BY <3>9, <3>10 DEF TeamsInv
  <2>2. CASE ~(sent[i].kind \in TeamActions /\ ok)
    <3>0. ~ListAgain(i) /\ ~TeamsAgain(i)
      BY <1>0, <2>2 DEF ListAgain, TeamsAgain, Answered, TeamsShape
    <3>1. /\ Len(sent') = Len(sent) /\ \A j \in 1 .. Len(sent) : j # i => Untouched(j)
          /\ Keeps(i) /\ sent'[i].state = "over"
      BY <3>0, <1>7, Arrived
    <3>2. PICK invitations, teams, busy :
             /\ ui' = TeamsRecord(invitations, teams, ui.asked, busy)
             /\ IF i = first THEN invitations = IF ok THEN sent[i].said ELSE {}
                ELSE invitations = ui.invitations
             /\ IF i = second THEN teams = IF ok THEN sent[i].said ELSE {}
                ELSE teams = ui.teams
      <4>1. CASE sent[i].kind = "invitations"
        <5>1. (\E k \in DOMAIN ui.asked : ui.asked[k] = i) <=> i = first
          BY <1>0, <4>1 DEF TeamsShape
        <5>2. i # second
          BY <1>0, <4>1 DEF TeamsShape
        <5>3. PICK said : said = IF ok THEN sent[i].said ELSE {}
          OBVIOUS
        <5>4. CASE i = first
          <6>1. ui' = [ui EXCEPT !.invitations = said]
            BY <2>0, <4>1, <5>1, <5>3, <5>4 DEF TeamsArrives
          <6>2. ui' = TeamsRecord(said, ui.teams, ui.asked, ui.busy)
            BY <2>0, <6>1 DEF TeamsRecord
          <6>3. QED
            BY <5>2, <5>3, <5>4, <6>2
        <5>5. CASE i # first
          <6>1. ui' = ui
            BY <2>0, <4>1, <5>1, <5>5 DEF TeamsArrives
          <6>2. QED
            BY <2>0, <5>2, <5>5, <6>1
        <5>6. QED
          BY <5>4, <5>5
      <4>2. CASE sent[i].kind = "teams"
        <5>1. (\E k \in DOMAIN ui.asked : ui.asked[k] = i) <=> i = second
          BY <1>0, <4>2 DEF TeamsShape
        <5>2. i # first
          BY <1>0, <4>2 DEF TeamsShape
        <5>3. PICK said : said = IF ok THEN sent[i].said ELSE {}
          OBVIOUS
        <5>4. CASE i = second
          <6>1. ui' = [ui EXCEPT !.teams = said]
            BY <2>0, <4>2, <5>1, <5>3, <5>4 DEF TeamsArrives
          <6>2. ui' = TeamsRecord(ui.invitations, said, ui.asked, ui.busy)
            BY <2>0, <6>1 DEF TeamsRecord
          <6>3. QED
            BY <5>2, <5>3, <5>4, <6>2
        <5>5. CASE i # second
          <6>1. ui' = ui
            BY <2>0, <4>2, <5>1, <5>5 DEF TeamsArrives
          <6>2. QED
            BY <2>0, <5>2, <5>5, <6>1
        <5>6. QED
          BY <5>4, <5>5
      <4>3. CASE sent[i].kind \in TeamActions
        <5>1. i # first /\ i # second
          BY <1>0, <4>3 DEF TeamsShape, TeamActions
        <5>2. ui' = [ui EXCEPT !.busy = FALSE, !.asked = ui.asked]
          BY <2>0, <2>2, <4>3 DEF TeamsArrives, TeamActions
        <5>3. ui' = TeamsRecord(ui.invitations, ui.teams, ui.asked, FALSE)
          BY <2>0, <5>2 DEF TeamsRecord
        <5>4. QED
          BY <5>1, <5>3
      <4>4. QED
        BY <4>1, <4>2, <4>3, <1>0 DEF TeamsShape
    <3>3. IsTeams(ui') /\ ui'.asked = ui.asked /\ ui'.invitations = invitations /\ ui'.teams = teams
      BY <3>2 DEF IsTeams, TeamsRecord
    <3>4. TeamsShape'
      BY <3>1, <3>3, <1>0 DEF TeamsShape, Untouched, Keeps
    <3>5. ASSUME losses' + elsewhere' = 0 PROVE TeamsAgree'
      <4>1. TeamsAgree
        BY <1>1, <3>5
      <4>2. ActionTaken => ActionTaken'
        <5>1. ASSUME NEW j \in 1 .. Len(sent), sent[j].kind \in TeamActions, Answered(j)
              PROVE  j # i
          BY <5>1, <2>2 DEF Answered
        <5>2. QED
          BY <5>1, <3>1 DEF ActionTaken, Answered, Untouched, Keeps
      <4>3. ASSUME ~ActionTaken
            PROVE  ListTrue(first, invitations, "invited")' /\ ListTrue(second, teams, "member")'
        <5>1. ListTrue(first, ui.invitations, "invited") /\ ListTrue(second, ui.teams, "member")
          BY <4>1, <4>3 DEF TeamsAgree
        <5>2. i \in {first, second} => ok
          BY <4>1, <2>0 DEF TeamsAgree
        <5>3. TeamIn("invited")' = TeamIn("invited") /\ TeamIn("member")' = TeamIn("member")
          BY <2>0 DEF TeamIn
        <5>4. ListTrue(first, invitations, "invited")'
          BY <5>1, <5>2, <5>3, <3>1, <3>2, <3>3, <1>0 DEF ListTrue, Answered, Awaited, Untouched
        <5>5. ListTrue(second, teams, "member")'
          BY <5>1, <5>2, <5>3, <3>1, <3>2, <3>3, <1>0 DEF ListTrue, Answered, Awaited, Untouched
        <5>6. QED
          BY <5>4, <5>5
      <4>4. sent'[first].state # "failed" /\ sent'[second].state # "failed"
        BY <4>1, <3>1, <1>0 DEF TeamsAgree, Untouched
      <4>5. QED
        BY <4>2, <4>3, <4>4, <3>3 DEF TeamsAgree
    <3>6. QED
      BY <3>4, <3>5 DEF TeamsInv
  <2>3. QED
    BY <2>1, <2>2
<1>8. QED
  BY <1>0, <1>2, <1>3, <1>4, <1>5, <1>6, <1>7, StepsOf DEF TeamActions

-----------------------------------------------------------------------------
(* The settings.                                                            *)

LEMMA SettingsNext ==
  ASSUME RequestsInv, SettingsInv, [PagesNext]_pagesVars, page = "settings"
  PROVE  SettingsInv'
<1> USE DEF Awaited, Answered, AtMostOneAwaited, AllQuiet
<1>0. page' = "settings" /\ Len(sent) \in Nat /\ SettingsShape /\ (untimely => untimely')
  BY PageStays, Indices, CountersNext DEF SettingsInv
<1>1. CASE UNCHANGED pagesVars
  BY <1>1 DEF SettingsInv, SettingsShape, SettingsAgree
<1>2. ASSUME NEW k \in 1 .. 2, Persist(k)
      PROVE  SettingsInv'
  <2>1. PICK next : next = [ui.shown EXCEPT ![k] = ~ui.shown[k]]
    OBVIOUS
  <2>2. PICK arg : arg = [next |-> next, previous |-> ui.shown]
    OBVIOUS
  <2>3. /\ Posts("save", arg) /\ ui' = [ui EXCEPT !.shown = next, !.saving = TRUE] /\ there' = there
        /\ ui.shown # <<>> /\ untimely' = (untimely \/ InFlight("save") \/ InFlight("load"))
    BY <1>2, <2>1, <2>2 DEF Persist, OffersChange, OnPage
  <2>4. PICK n : n = Len(sent) + 1
    OBVIOUS
  <2>5. /\ Len(sent') = n /\ \A j \in 1 .. Len(sent) : Untouched(j)
        /\ sent'[n].kind = "save" /\ sent'[n].state = "sent" /\ sent'[n].arg.previous = ui.shown
    BY <2>2, <2>3, <2>4, Posted DEF IsNew
  <2>6. ui' = SettingsRecord(next, TRUE)
    BY <2>3, <1>0 DEF SettingsShape, IsSettings, SettingsRecord
  <2>7. IsSettings(ui')
    BY <2>6 DEF IsSettings, SettingsRecord
  <2>8. \A j \in 1 .. Len(sent') : j \in 1 .. Len(sent) \/ j = n
    BY <1>0, <2>4, <2>5
  <2>9. SettingsShape'
    BY <2>3, <2>5, <2>7, <2>8, <1>0 DEF SettingsShape, Untouched, Keeps
  <2>10. ASSUME ~untimely' PROVE SettingsAgree'
    <3>1. SettingsAgree /\ AllQuiet
      BY <2>3, <2>10, <1>0 DEF SettingsInv, SettingsShape, InFlight
    <3>2. \A j \in 1 .. Len(sent') : j # n => sent'[j].state = "over"
      BY <3>1, <2>5, <2>8 DEF Untouched
    <3>3. ui.shown = there /\ n \in 1 .. Len(sent')
      BY <3>1, <2>3, <2>4, <2>5, <1>0 DEF SettingsAgree
    <3>4. QED
      BY <3>2, <3>3, <2>3, <2>4, <2>5, <1>0 DEF SettingsAgree
  <2>11. QED
    BY <2>9, <2>10 DEF SettingsInv
<1>3. ASSUME NEW i \in 1 .. Len(sent), ServeSent(i)
      PROVE  SettingsInv'
  <2>1. sent[i].state = "sent" /\ SettingsServes(i) /\ ui' = ui
    BY <1>0, <1>3 DEF ServeSent
  <2>2. Turn(i, "answered", there')
    BY <2>1 DEF SettingsServes
  <2>3. /\ Len(sent') = Len(sent) /\ \A j \in 1 .. Len(sent) : j # i => Untouched(j)
        /\ Keeps(i) /\ sent'[i].state = "answered" /\ sent'[i].said = there'
    BY <2>2, Turned
  <2>4. SettingsShape'
    BY <2>1, <2>3, <1>0 DEF SettingsShape, Untouched, Keeps
  <2>5. ASSUME ~untimely' PROVE SettingsAgree'
    <3>1. SettingsAgree
      BY <2>5, <1>0 DEF SettingsInv
    <3>2. \A j \in 1 .. Len(sent) : j # i => sent'[j].state = "over"
      BY <3>1, <2>1, <2>3 DEF SettingsAgree, Untouched
    <3>3. QED
      BY <3>2, <2>3 DEF SettingsAgree
  <2>6. QED
    BY <2>4, <2>5 DEF SettingsInv
<1>4. ASSUME NEW i \in 1 .. Len(sent), Lose(i)
      PROVE  SettingsInv'
  <2>1. /\ sent[i].state \in {"sent", "answered"} /\ Turn(i, "failed", 0) /\ ui' = ui /\ there' = there
        /\ untimely' = (untimely \/ sent[i].state = "answered" \/ sent[i].kind = "list")
    BY <1>4 DEF Lose
  <2>2. /\ Len(sent') = Len(sent) /\ \A j \in 1 .. Len(sent) : j # i => Untouched(j)
        /\ Keeps(i) /\ sent'[i].state = "failed"
    BY <2>1, Turned
  <2>3. SettingsShape'
    BY <2>1, <2>2, <1>0 DEF SettingsShape, Untouched, Keeps
  <2>4. ASSUME ~untimely' PROVE SettingsAgree'
    <3>1. SettingsAgree /\ sent[i].state = "sent"
      BY <2>1, <2>4, <1>0 DEF SettingsInv
    <3>2. \A j \in 1 .. Len(sent) : j # i => sent'[j].state = "over"
      BY <3>1, <2>2 DEF SettingsAgree, Untouched
    <3>3. QED
      BY <3>1, <3>2, <2>1, <2>2 DEF SettingsAgree, Keeps
  <2>5. QED
    BY <2>3, <2>4 DEF SettingsInv
<1>5. ASSUME NEW i \in 1 .. Len(sent), Arrive(i)
      PROVE  SettingsInv'
  <2> DEFINE ok == sent[i].state = "answered"
  <2>1. sent[i].state \in {"answered", "failed"} /\ SettingsArrives(i, ok) /\ there' = there
    BY <1>0, <1>5 DEF Arrive, OnPage
  <2>2. /\ Len(sent') = Len(sent) /\ \A j \in 1 .. Len(sent) : j # i => Untouched(j)
        /\ Keeps(i) /\ sent'[i].state = "over"
    BY <1>0, <1>5, Arrived DEF ListAgain, TeamsAgain
  <2>3. PICK shown, saving :
           /\ ui' = SettingsRecord(shown, saving)
           /\ IF ok THEN shown = sent[i].said
              ELSE IF sent[i].kind = "load" THEN shown = ui.shown ELSE shown = sent[i].arg.previous
    <3>1. CASE sent[i].kind = "load" /\ ok
      <4>1. ui' = [ui EXCEPT !.shown = sent[i].said]
        BY <3>1, <2>1 DEF SettingsArrives
      <4>2. ui' = SettingsRecord(sent[i].said, ui.saving)
        BY <4>1, <1>0 DEF SettingsShape, IsSettings, SettingsRecord
      <4>3. QED
        BY <3>1, <4>2
    <3>2. CASE sent[i].kind = "load" /\ ~ok
      <4>1. ui' = SettingsRecord(ui.shown, ui.saving)
        BY <3>2, <2>1, <1>0 DEF SettingsArrives, SettingsShape, IsSettings
      <4>2. QED
        BY <3>2, <4>1
    <3>3. CASE sent[i].kind # "load"
      <4>1. ui' = SettingsRecord(IF ok THEN sent[i].said ELSE sent[i].arg.previous, FALSE)
        BY <3>3, <2>1 DEF SettingsArrives, SettingsRecord
      <4>2. PICK shown : shown = IF ok THEN sent[i].said ELSE sent[i].arg.previous
        OBVIOUS
      <4>3. QED
        BY <3>3, <4>1, <4>2
    <3>4. QED
      BY <3>1, <3>2, <3>3
  <2>4. IsSettings(ui') /\ ui'.shown = shown
    BY <2>3 DEF IsSettings, SettingsRecord
  <2>5. SettingsShape'
    <3>1. ASSUME NEW j \in 1 .. Len(sent), sent'[j].kind = "load", Awaited(j)'
          PROVE  FALSE
      <4>1. j # i /\ sent[j].kind = "load" /\ Awaited(j)
        BY <3>1, <2>2 DEF Untouched, Keeps
      <4>2. QED
        BY <4>1, <2>1, <1>0 DEF SettingsShape
    <3>2. QED
      BY <3>1, <2>2, <2>4, <1>0 DEF SettingsShape, Untouched, Keeps
  <2>6. ASSUME ~untimely' PROVE SettingsAgree'
    <3>1. SettingsAgree
      BY <2>6, <1>0 DEF SettingsInv
    <3>2. \A j \in 1 .. Len(sent) : sent'[j].state = "over"
      BY <3>1, <2>1, <2>2 DEF SettingsAgree, Untouched
    <3>3. shown # <<>> => shown = there
      BY <3>1, <2>1, <2>3, <1>0 DEF SettingsAgree, SettingsShape
    <3>4. QED
      BY <3>2, <3>3, <2>1, <2>2, <2>4 DEF SettingsAgree
  <2>7. QED
    BY <2>5, <2>6 DEF SettingsInv
<1>6. QED
  BY <1>0, <1>1, <1>2, <1>3, <1>4, <1>5, StepsOf

-----------------------------------------------------------------------------
(* The imports.                                                             *)

(* Where an answer takes an import.                                         *)
LEMMA ImportTaken ==
  ASSUME IsImport(ui), NEW i, sent[i].kind \in ImportSteps, NEW ok \in BOOLEAN, ImportArrives(i, ok)
  PROVE  \E step, existing, round, imported :
            /\ ui' = ImportRecord(step, existing, round, imported)
            /\ step \in (ImportSteps \ {"before"}) \cup {"ready", "refused"}
            /\ step = "upload" => sent[i].kind = "delta" /\ ok /\ sent[i].said = "none"
            /\ step = "ready" => sent[i].kind = "poll" /\ ok /\ imported \in sent[i].said \ ui.existing
            /\ step = "refused" => ~ok \/ (sent[i].kind = "status" /\ sent[i].said \in {"failed", "unknown"})
            /\ IF sent[i].kind = "before" /\ ok THEN existing = sent[i].said ELSE existing = ui.existing
            /\ sent[i].kind = "before" /\ ~ok => step = "refused"
<1> DEFINE kind == sent[i].kind
           said == sent[i].said
<1>0. ui = ImportRecord(ui.step, ui.existing, ui.round, ui.imported)
  BY DEF IsImport
<1>1. CASE kind = "status"
  <2>1. CASE ok /\ said \in {"failed", "unknown"}
    <3>1. ui' = [ui EXCEPT !.step = "refused"]
      BY <1>1, <2>1 DEF ImportArrives
    <3>2. ui' = ImportRecord("refused", ui.existing, ui.round, ui.imported)
      BY <1>0, <3>1 DEF ImportRecord
    <3>3. QED
      BY <1>1, <2>1, <3>2 DEF ImportSteps
  <2>2. CASE ~(ok /\ said \in {"failed", "unknown"})
    <3>1. ui' = [ui EXCEPT !.step = "poll", !.round = ui.round + 1]
      BY <1>1, <2>2 DEF ImportArrives
    <3>2. ui' = ImportRecord("poll", ui.existing, ui.round + 1, ui.imported)
      BY <1>0, <3>1 DEF ImportRecord
    <3>3. QED
      BY <1>1, <2>2, <3>2 DEF ImportSteps
  <2>3. QED
    BY <2>1, <2>2
<1>2. CASE kind # "status" /\ ~ok
  <2>1. ui' = [ui EXCEPT !.step = "refused"]
    BY <1>2 DEF ImportArrives
  <2>2. ui' = ImportRecord("refused", ui.existing, ui.round, ui.imported)
    BY <1>0, <2>1 DEF ImportRecord
  <2>3. QED
    BY <1>2, <2>2 DEF ImportSteps
<1>3. CASE kind = "before" /\ ok
  <2>1. PICK u : u = [ui EXCEPT !.step = "token"]
    OBVIOUS
  <2>2. u = ImportRecord("token", ui.existing, ui.round, ui.imported)
    BY <1>0, <2>1 DEF ImportRecord
  <2>3. ui' = [u EXCEPT !.existing = said]
    BY <1>3, <2>1 DEF ImportArrives
  <2>4. ui' = ImportRecord("token", said, ui.round, ui.imported)
    BY <2>2, <2>3 DEF ImportRecord
  <2>5. QED
    BY <1>3, <2>4 DEF ImportSteps
<1>4. CASE kind = "delta" /\ ok
  <2>1. PICK step : step = IF said = "none" THEN "upload" ELSE "manifest"
    OBVIOUS
  <2>2. ui' = [ui EXCEPT !.step = step]
    BY <1>4, <2>1 DEF ImportArrives
  <2>3. ui' = ImportRecord(step, ui.existing, ui.round, ui.imported)
    BY <1>0, <2>2 DEF ImportRecord
  <2>4. QED
    BY <1>4, <2>1, <2>3 DEF ImportSteps
<1>5. CASE kind = "poll" /\ ok
  <2>1. CASE said \subseteq ui.existing
    <3>1. ui' = [ui EXCEPT !.step = "status"]
      BY <1>5, <2>1 DEF ImportArrives
    <3>2. ui' = ImportRecord("status", ui.existing, ui.round, ui.imported)
      BY <1>0, <3>1 DEF ImportRecord
    <3>3. QED
      BY <1>5, <3>2 DEF ImportSteps
  <2>2. CASE ~(said \subseteq ui.existing)
    <3>1. PICK u : u = [ui EXCEPT !.step = "ready"]
      OBVIOUS
    <3>2. u = ImportRecord("ready", ui.existing, ui.round, ui.imported)
      BY <1>0, <3>1 DEF ImportRecord
    <3>3. PICK s \in said \ ui.existing : ui' = [u EXCEPT !.imported = s]
      BY <1>5, <2>2, <3>1 DEF ImportArrives
    <3>4. ui' = ImportRecord("ready", ui.existing, ui.round, s)
      BY <3>2, <3>3 DEF ImportRecord
    <3>5. QED
      BY <1>5, <3>4 DEF ImportSteps
  <2>3. QED
    BY <2>1, <2>2
<1>6. CASE kind \in {"token", "upload", "manifest"} /\ ok
  <2>1. PICK step : step = StepAfter[kind]
    OBVIOUS
  <2>2. step \in {"delta", "manifest", "poll"}
    BY <1>6, <2>1 DEF StepAfter
  <2>3. PICK u : u = [ui EXCEPT !.step = step]
    OBVIOUS
  <2>4. u = ImportRecord(step, ui.existing, ui.round, ui.imported)
    BY <1>0, <2>3 DEF ImportRecord
  <2>5. ui' = [u EXCEPT !.round = 1]
    BY <1>6, <2>1, <2>3 DEF ImportArrives
  <2>6. ui' = ImportRecord(step, ui.existing, 1, ui.imported)
    BY <2>4, <2>5 DEF ImportRecord
  <2>7. QED
    BY <1>6, <2>2, <2>6 DEF ImportSteps
<1>7. QED
  BY <1>1, <1>2, <1>3, <1>4, <1>5, <1>6 DEF ImportSteps

LEMMA ImportNext ==
  ASSUME RequestsInv, ImportInv, [PagesNext]_pagesVars, page = "import"
  PROVE  ImportInv'
<1> USE DEF Awaited, Answered, AtMostOneAwaited
<1> DEFINE Past == ui.step \notin {"idle", "before", "refused", "timeout"} => "old" \in ui.existing
<1>0. /\ page' = "import" /\ Len(sent) \in Nat /\ ImportShape /\ ImportArchive /\ Past /\ ImportedIsOurs
      /\ \A i \in 1 .. Len(sent) : Answered(i) => ImportAnswer(i)
      /\ losses \in Nat /\ elsewhere \in Nat
      /\ (losses' = 0 => losses = 0) /\ (losses > 0 => losses' > 0) /\ (elsewhere' = 0 => elsewhere = 0)
  BY PageStays, Indices, CountersNext DEF ImportInv, RequestsInv
<1>1. CASE UNCHANGED pagesVars
  BY <1>1 DEF ImportInv, ImportShape, ImportArchive, ImportAnswer, ImportedIsOurs
<1>2. CASE Submit
  <2>1. Posts("before", 0) /\ ui' = [ui EXCEPT !.step = "before"] /\ there' = there /\ ui.step = "idle"
    BY <1>2 DEF Submit, OffersImport, OnPage
  <2>2. PICK n : n = Len(sent) + 1
    OBVIOUS
  <2>3. /\ Len(sent') = n /\ \A j \in 1 .. Len(sent) : Untouched(j)
        /\ sent'[n].kind = "before" /\ sent'[n].state = "sent"
    BY <2>1, <2>2, Posted DEF IsNew
  <2>4. \A j \in 1 .. Len(sent') : j \in 1 .. Len(sent) \/ j = n
    BY <1>0, <2>2, <2>3
  <2>5. ui' = ImportRecord("before", ui.existing, ui.round, ui.imported)
    BY <2>1, <1>0 DEF ImportShape, IsImport, ImportRecord
  <2>6. IsImport(ui') /\ ui'.step = "before"
    BY <2>5 DEF IsImport, ImportRecord
  <2>7. \A j \in 1 .. Len(sent) : sent'[j].state = "over"
    BY <2>1, <2>3, <1>0 DEF ImportShape, ImportSteps, Untouched
  <2>8. ImportShape'
    BY <2>1, <2>3, <2>4, <2>6, <2>7, <1>0 DEF ImportShape, ImportSteps, Untouched, Keeps
  <2>9. \A j \in 1 .. Len(sent') : ~Answered(j)'
    BY <2>3, <2>4, <2>7
  <2>10. ImportArchive' /\ ImportedIsOurs'
    BY <2>1, <2>6, <1>0 DEF ImportArchive, ImportedIsOurs
  <2>11. QED
    BY <2>6, <2>8, <2>9, <2>10 DEF ImportInv
<1>3. CASE ImportProceeds
  <2>1. there' = there /\ AllQuiet /\ ui.step \in ImportSteps
    BY <1>3, <1>0 DEF ImportProceeds, OnPage, ImportShape
  <2>2. CASE Posts(ui.step, 0) /\ ui' = ui
    <3>1. PICK n : n = Len(sent) + 1
      OBVIOUS
    <3>2. /\ Len(sent') = n /\ \A j \in 1 .. Len(sent) : Untouched(j)
          /\ sent'[n].kind = ui.step /\ sent'[n].state = "sent"
      BY <2>2, <3>1, Posted DEF IsNew
    <3>3. \A j \in 1 .. Len(sent') : j \in 1 .. Len(sent) \/ j = n
      BY <1>0, <3>1, <3>2
    <3>4. \A j \in 1 .. Len(sent) : sent'[j].state = "over"
      BY <2>1, <3>2, <1>0 DEF AllQuiet, Untouched
    <3>5. ImportShape'
      BY <2>1, <2>2, <3>2, <3>3, <3>4, <1>0 DEF ImportShape, Untouched, Keeps
    <3>6. \A j \in 1 .. Len(sent') : ~Answered(j)'
      BY <3>2, <3>3, <3>4
    <3>7. ImportArchive' /\ ImportedIsOurs'
      BY <2>1, <2>2, <1>0 DEF ImportArchive, ImportedIsOurs
    <3>8. QED
      BY <2>2, <3>5, <3>6, <3>7, <1>0 DEF ImportInv
  <2>3. CASE ui' = [ui EXCEPT !.step = "timeout"] /\ sent' = sent
    <3>1. ui' = ImportRecord("timeout", ui.existing, ui.round, ui.imported)
      BY <2>3, <1>0 DEF ImportShape, IsImport, ImportRecord
    <3>2. IsImport(ui') /\ ui'.step = "timeout"
      BY <3>1 DEF IsImport, ImportRecord
    <3>3. \A j \in 1 .. Len(sent') : sent'[j].state = "over"
      BY <2>1, <2>3, <1>0 DEF AllQuiet
    <3>4. ImportShape'
      BY <2>1, <2>3, <3>2, <3>3, <1>0 DEF ImportShape
    <3>5. ImportArchive' /\ ImportedIsOurs'
      BY <2>1, <3>2, <1>0 DEF ImportArchive, ImportedIsOurs
    <3>6. QED
      BY <3>2, <3>3, <3>4, <3>5 DEF ImportInv
  <2>4. QED
    BY <1>3, <2>2, <2>3 DEF ImportProceeds
<1>4. ASSUME NEW outcome \in {"parsed", "failed", "unknown"}, ParseOfTheImport(outcome)
      PROVE  ImportInv'
  <2>1. PICK sessions : sessions = IF outcome = "parsed" THEN there.sessions \cup {"ours"} ELSE there.sessions
    OBVIOUS
  <2>2. there' = ArchiveRecord(outcome, sessions) /\ there.artifact = "queued" /\ ui' = ui /\ sent' = sent
    BY <1>4, <2>1 DEF ParseOfTheImport, ArchiveRecord
  <2>3. IsArchive(there') /\ there'.artifact = outcome /\ there'.sessions = sessions
    BY <2>2 DEF IsArchive, ArchiveRecord
  <2>4. there.sessions \subseteq sessions
    BY <2>1
  <2>5. ImportShape'
    BY <2>2, <2>3, <1>0 DEF ImportShape
  <2>6. ImportArchive'
    BY <2>1, <2>2, <2>3, <1>0 DEF ImportArchive
  <2>7. \A i \in 1 .. Len(sent') : Answered(i)' => ImportAnswer(i)'
    BY <2>2, <2>3, <2>4, <1>0 DEF ImportAnswer
  <2>8. ImportedIsOurs'
    BY <2>2, <2>3, <2>4, <1>0 DEF ImportedIsOurs
  <2>9. QED
    BY <2>2, <2>5, <2>6, <2>7, <2>8, <1>0 DEF ImportInv
<1>5. CASE Elsewhere /\ CapturedElsewhere
  <2>1. PICK sessions : sessions = there.sessions \cup {"theirs"}
    OBVIOUS
  <2>2. there' = [there EXCEPT !.sessions = sessions] /\ ui' = ui /\ sent' = sent /\ elsewhere' = elsewhere + 1
    BY <1>5, <2>1 DEF Elsewhere, CapturedElsewhere
  <2>3. there' = ArchiveRecord(there.artifact, sessions)
    BY <2>2, <1>0 DEF ImportShape, IsArchive, ArchiveRecord
  <2>4. IsArchive(there') /\ there'.artifact = there.artifact /\ there'.sessions = sessions
    BY <2>3 DEF IsArchive, ArchiveRecord
  <2>0. elsewhere' # 0
    BY <2>2, <1>0
  <2>5. ImportShape'
    BY <2>2, <2>4, <1>0 DEF ImportShape
  <2>6. ImportArchive'
    BY <2>0, <2>1, <2>2, <2>4, <1>0 DEF ImportArchive
  <2>7. \A i \in 1 .. Len(sent') : Answered(i)' => ImportAnswer(i)'
    BY <2>1, <2>2, <2>4, <1>0 DEF ImportAnswer
  <2>8. ImportedIsOurs'
    BY <2>0, <2>1, <2>2, <2>4, <1>0 DEF ImportedIsOurs
  <2>9. QED
    BY <2>2, <2>5, <2>6, <2>7, <2>8, <1>0 DEF ImportInv
<1>6. ASSUME NEW i \in 1 .. Len(sent), ServeSent(i)
      PROVE  ImportInv'
  <2>1. sent[i].state = "sent" /\ ImportServes(i) /\ ui' = ui /\ elsewhere' = elsewhere
    BY <1>0, <1>6 DEF ServeSent
  <2>2. PICK said : Turn(i, "answered", said)
    BY <2>1 DEF ImportServes
  <2>3. /\ Len(sent') = Len(sent) /\ \A j \in 1 .. Len(sent) : j # i => Untouched(j)
        /\ Keeps(i) /\ sent'[i].state = "answered" /\ sent'[i].said = said
    BY <2>2, Turned
  <2>4. sent[i].kind = ui.step /\ \A j \in 1 .. Len(sent) : j # i => sent'[j].state = "over"
    BY <2>1, <2>3, <1>0 DEF ImportShape, Untouched
  <2>5. PICK artifact :
           /\ there' = ArchiveRecord(artifact, there.sessions)
           /\ artifact = there.artifact \/ sent[i].kind = "upload" \/ (sent[i].kind = "manifest" /\ there.artifact = "stored")
           /\ sent[i].kind = "upload" => artifact = "stored"
    <3>1. CASE sent[i].kind \notin {"upload", "manifest"}
      <4>1. there' = there
        BY <3>1, <2>1 DEF ImportServes
      <4>2. there' = ArchiveRecord(there.artifact, there.sessions)
        BY <4>1, <1>0 DEF ImportShape, IsArchive
      <4>3. QED
        BY <3>1, <4>2
    <3>2. CASE sent[i].kind \in {"upload", "manifest"}
      <4>1. PICK artifact : artifact = IF sent[i].kind = "upload" THEN "stored"
                                       ELSE IF there.artifact = "stored" THEN "queued" ELSE there.artifact
        OBVIOUS
      <4>2. there' = [there EXCEPT !.artifact = artifact]
        BY <2>1, <3>2, <4>1 DEF ImportServes
      <4>3. there' = ArchiveRecord(artifact, there.sessions)
        BY <4>2, <1>0 DEF ImportShape, IsArchive, ArchiveRecord
      <4>4. CASE sent[i].kind = "upload"
        <5>1. artifact = "stored"
          BY <4>1, <4>4
        <5>2. QED
          BY <4>3, <4>4, <5>1
      <4>5. CASE sent[i].kind = "manifest"
        <5>1. artifact = there.artifact \/ there.artifact = "stored"
          BY <4>1, <4>5
        <5>2. QED
          BY <4>3, <4>5, <5>1
      <4>6. QED
        BY <3>2, <4>4, <4>5
    <3>3. QED
      BY <3>1, <3>2
  <2>6. IsArchive(there') /\ there'.artifact = artifact /\ there'.sessions = there.sessions
    BY <2>5 DEF IsArchive, ArchiveRecord
  <2>7. ImportShape'
    BY <2>1, <2>3, <2>4, <2>6, <1>0 DEF ImportShape, Untouched, Keeps
  <2>8. ImportArchive'
    BY <2>1, <2>4, <2>5, <2>6, <1>0 DEF ImportArchive
  <2>9. ImportAnswer(i)'
    <3>1. CASE sent[i].kind \in {"before", "poll"}
      <4>1. Turn(i, "answered", there.sessions)
        BY <2>1, <3>1 DEF ImportServes
      <4>2. said = there.sessions
        BY <4>1, <2>3, Turned
      <4>3. QED
        BY <3>1, <4>2, <2>3, <2>6, <1>0 DEF ImportAnswer, ImportArchive, Keeps
    <3>2. CASE sent[i].kind \in {"delta", "status", "token"}
      <4>1. Turn(i, "answered", there.artifact) /\ there' = there
        BY <2>1, <3>2 DEF ImportServes
      <4>2. said = there.artifact
        BY <4>1, <2>3, Turned
      <4>3. QED
        BY <3>2, <4>1, <4>2, <2>3 DEF ImportAnswer, Keeps
    <3>3. CASE sent[i].kind \in {"upload", "manifest"}
      BY <3>3, <2>3 DEF ImportAnswer, Keeps
    <3>4. QED
      BY <3>1, <3>2, <3>3, <1>0 DEF ImportShape, ImportSteps
  <2>10. \A j \in 1 .. Len(sent') : Answered(j)' => ImportAnswer(j)'
    BY <2>3, <2>4, <2>9
  <2>11. ImportedIsOurs'
    BY <2>1, <2>4, <2>6, <1>0 DEF ImportedIsOurs, ImportShape, ImportSteps
  <2>12. QED
    BY <2>1, <2>7, <2>8, <2>10, <2>11, <1>0 DEF ImportInv
<1>7. ASSUME NEW i \in 1 .. Len(sent), Lose(i)
      PROVE  ImportInv'
  <2>1. /\ sent[i].state \in {"sent", "answered"} /\ Turn(i, "failed", 0)
        /\ ui' = ui /\ there' = there /\ losses' = losses + 1 /\ elsewhere' = elsewhere
    BY <1>7 DEF Lose
  <2>2. /\ Len(sent') = Len(sent) /\ \A j \in 1 .. Len(sent) : j # i => Untouched(j)
        /\ Keeps(i) /\ sent'[i].state = "failed"
    BY <2>1, Turned
  <2>3. losses' > 0
    BY <2>1, <1>0
  <2>4. ImportShape'
    BY <2>1, <2>2, <2>3, <1>0 DEF ImportShape, Untouched, Keeps
  <2>5. ImportArchive' /\ ImportedIsOurs'
    BY <2>1, <2>3, <1>0 DEF ImportArchive, ImportedIsOurs
  <2>6. \A j \in 1 .. Len(sent') : Answered(j)' => ImportAnswer(j)'
    BY <2>1, <2>2, <1>0 DEF ImportAnswer, Untouched, Keeps
  <2>7. QED
    BY <2>1, <2>4, <2>5, <2>6, <1>0 DEF ImportInv
<1>8. ASSUME NEW i \in 1 .. Len(sent), Arrive(i)
      PROVE  ImportInv'
  <2>1. PICK ok \in BOOLEAN : /\ ok <=> sent[i].state = "answered"
                              /\ ImportArrives(i, ok)
    <3>1. ImportArrives(i, sent[i].state = "answered")
      BY <1>0, <1>8 DEF Arrive
    <3>2. CASE sent[i].state = "answered"
      <4>1. ImportArrives(i, TRUE)
        BY <3>1, <3>2
      <4>2. QED
        BY <3>2, <4>1
    <3>3. CASE sent[i].state # "answered"
      <4>1. ImportArrives(i, FALSE)
        BY <3>1, <3>3
      <4>2. QED
        BY <3>3, <4>1
    <3>4. QED
      BY <3>2, <3>3
  <2>2. /\ sent[i].state \in {"answered", "failed"} /\ there' = there /\ losses' = losses /\ elsewhere' = elsewhere
    BY <1>8 DEF Arrive, OnPage, Stays
  <2>3. /\ Len(sent') = Len(sent) /\ \A j \in 1 .. Len(sent) : j # i => Untouched(j)
        /\ Keeps(i) /\ sent'[i].state = "over"
    BY <1>0, <1>8, Arrived DEF ListAgain, TeamsAgain
  <2>4. sent[i].kind = ui.step /\ \A j \in 1 .. Len(sent) : sent'[j].state = "over"
    BY <2>2, <2>3, <1>0 DEF ImportShape, Untouched
  <2>5. PICK step, existing, round, imported :
            /\ ui' = ImportRecord(step, existing, round, imported)
            /\ step \in (ImportSteps \ {"before"}) \cup {"ready", "refused"}
            /\ step = "upload" => sent[i].kind = "delta" /\ ok /\ sent[i].said = "none"
            /\ step = "ready" => sent[i].kind = "poll" /\ ok /\ imported \in sent[i].said \ ui.existing
            /\ step = "refused" => ~ok \/ (sent[i].kind = "status" /\ sent[i].said \in {"failed", "unknown"})
            /\ IF sent[i].kind = "before" /\ ok THEN existing = sent[i].said ELSE existing = ui.existing
            /\ sent[i].kind = "before" /\ ~ok => step = "refused"
    BY <1>0, <2>1, ImportTaken DEF ImportShape
  <2>6. /\ IsImport(ui') /\ ui'.step = step /\ ui'.existing = existing /\ ui'.imported = imported
    BY <2>5 DEF IsImport, ImportRecord
  <2>7. ImportShape'
    BY <2>2, <2>3, <2>4, <2>5, <2>6, <1>0 DEF ImportShape, Untouched, Keeps
  <2>8. \A j \in 1 .. Len(sent') : ~Answered(j)'
    BY <2>3, <2>4
  <2>9. ok => ImportAnswer(i)
    BY <2>1, <1>0
  <2>10. ImportArchive'
    BY <2>2, <2>5, <2>6, <2>9, <1>0 DEF ImportArchive, ImportAnswer
  <2>11. Past'
    BY <2>4, <2>5, <2>6, <2>9, <1>0 DEF ImportAnswer, ImportShape, ImportSteps
  <2>12. ImportedIsOurs'
    <3>1. ASSUME step = "ready"
          PROVE  /\ imported \in there.sessions \ existing
                 /\ elsewhere = 0 => imported = "ours" /\ there.artifact = "parsed"
      <4>1. /\ sent[i].kind = "poll" /\ imported \in sent[i].said \ ui.existing /\ existing = ui.existing
            /\ sent[i].said \subseteq there.sessions /\ "old" \in ui.existing
        BY <2>4, <2>5, <2>9, <3>1, <1>0 DEF ImportAnswer
      <4>2. elsewhere = 0 => imported = "ours"
        BY <4>1, <1>0 DEF ImportArchive
      <4>3. QED
        BY <4>1, <4>2, <1>0 DEF ImportArchive
    <3>2. ASSUME step = "refused", losses = 0 PROVE there.artifact \in {"failed", "unknown"}
      <4>1. sent[i].state # "failed"
        BY <3>2, <1>0 DEF ImportShape
      <4>2. QED
        BY <2>1, <2>2, <2>5, <2>9, <3>2, <4>1 DEF ImportAnswer
    <3>3. QED
      BY <2>2, <2>6, <3>1, <3>2 DEF ImportedIsOurs
  <2>13. QED
    BY <2>7, <2>8, <2>10, <2>11, <2>12 DEF ImportInv
<1>9. QED
  BY <1>0, <1>1, <1>2, <1>3, <1>4, <1>5, <1>6, <1>7, <1>8, StepsOf

-----------------------------------------------------------------------------
(* The tiles.                                                               *)

TileRecord(id, x, y, width, height) == [id |-> id, x |-> x, y |-> y, width |-> width, height |-> height]

LEMMA TileFields ==
  ASSUME NEW id, NEW x, NEW y, NEW width, NEW height, NEW tile, tile = TileRecord(id, x, y, width, height)
  PROVE  tile.id = id /\ tile.x = x /\ tile.y = y /\ tile.width = width /\ tile.height = height
  BY DEF TileRecord

LEMMA TileOf ==
  ASSUME NEW tile \in Tile
  PROVE  /\ tile = TileRecord(tile.id, tile.x, tile.y, tile.width, tile.height)
         /\ tile.id \in Known /\ tile.x \in Int /\ tile.y \in Int /\ tile.width \in Int /\ tile.height \in Int
  BY DEF Tile, TileRecord

LEMMA TileIs ==
  ASSUME NEW id \in Known, NEW x \in Int, NEW y \in Int, NEW width \in Int, NEW height \in Int
  PROVE  TileRecord(id, x, y, width, height) \in Tile
  BY DEF Tile, TileRecord

Constants == MinWidth \in Nat \ {0} /\ MinHeight \in Nat \ {0} /\ Columns \in Nat \ {0} /\ MinWidth <= Columns

LEMMA ConstantsHold == Constants
  BY PagesAssumption DEF Constants

(* A tile is put on the grid, and stays where it is if it is there.         *)
LEMMA Clamped ==
  ASSUME NEW tile \in Tile
  PROVE  /\ ClampTile(tile) \in Tile /\ OnTheGrid(ClampTile(tile)) /\ ClampTile(tile).id = tile.id
         /\ OnTheGrid(tile) => ClampTile(tile) = tile
<1>0. tile = TileRecord(tile.id, tile.x, tile.y, tile.width, tile.height)
  BY TileOf
<1>1. PICK width : width = Largest(MinWidth, Smallest(Columns, tile.width))
  OBVIOUS
<1>2. PICK height : height = Largest(MinHeight, tile.height)
  OBVIOUS
<1>3. PICK x : x = Largest(1, Smallest(Columns - width + 1, tile.x))
  OBVIOUS
<1>4. PICK y : y = Largest(1, tile.y)
  OBVIOUS
<1>5. PICK clamped : clamped = ClampTile(tile)
  OBVIOUS
<1>6. clamped = [tile EXCEPT !.width = width, !.height = height, !.x = x, !.y = y]
  BY <1>1, <1>2, <1>3, <1>4, <1>5 DEF ClampTile
<1>7. clamped = TileRecord(tile.id, x, y, width, height)
  BY <1>0, <1>6 DEF TileRecord
<1>8. clamped.id = tile.id /\ clamped.x = x /\ clamped.y = y /\ clamped.width = width /\ clamped.height = height
  BY <1>7, TileFields
<1>9. width \in Int /\ MinWidth <= width /\ width <= Columns
  BY <1>1, TileOf, ConstantsHold DEF Largest, Smallest, Constants
<1>10. height \in Int /\ MinHeight <= height
  BY <1>2, TileOf, ConstantsHold DEF Largest, Constants
<1>11. x \in Int /\ 1 <= x /\ x + width - 1 <= Columns
  BY <1>3, <1>9, TileOf, ConstantsHold DEF Largest, Smallest, Constants
<1>12. y \in Int /\ 1 <= y
  BY <1>4, TileOf DEF Largest
<1>13. clamped \in Tile
  BY <1>7, <1>9, <1>10, <1>11, <1>12, TileOf, TileIs
<1>14. OnTheGrid(clamped)
  BY <1>8, <1>9, <1>10, <1>11, <1>12, ConstantsHold DEF OnTheGrid, Constants
<1>15. ASSUME OnTheGrid(tile) PROVE clamped = tile
  <2>1. width = tile.width
    BY <1>1, <1>15, TileOf, ConstantsHold DEF OnTheGrid, Largest, Smallest, Constants
  <2>2. height = tile.height
    BY <1>2, <1>15, TileOf, ConstantsHold DEF OnTheGrid, Largest, Constants
  <2>3. x = tile.x
    BY <1>3, <1>15, <2>1, TileOf, ConstantsHold DEF OnTheGrid, Largest, Smallest, Constants
  <2>4. y = tile.y
    BY <1>4, <1>15, TileOf DEF OnTheGrid, Largest
  <2>5. QED
    BY <1>7, <2>1, <2>2, <2>3, <2>4, TileOf
<1>16. QED
  BY <1>5, <1>8, <1>13, <1>14, <1>15

LEMMA ShiftedIs ==
  ASSUME NEW tile \in Tile, NEW mode, NEW dx \in Int, NEW dy \in Int
  PROVE  Shifted(tile, mode, dx, dy) \in Tile /\ OnTheGrid(Shifted(tile, mode, dx, dy))
<1>0. tile = TileRecord(tile.id, tile.x, tile.y, tile.width, tile.height)
  BY TileOf
<1>1. PICK right, down, wider, higher :
         /\ right = tile.x + dx /\ down = tile.y + dy
         /\ wider = tile.width + dx /\ higher = tile.height + dy
  OBVIOUS
<1>2. PICK moved, sized :
         /\ moved = [tile EXCEPT !.x = right, !.y = down]
         /\ sized = [tile EXCEPT !.width = wider, !.height = higher]
  OBVIOUS
<1>3. moved = TileRecord(tile.id, right, down, tile.width, tile.height)
  BY <1>0, <1>2 DEF TileRecord
<1>4. sized = TileRecord(tile.id, tile.x, tile.y, wider, higher)
  BY <1>0, <1>2 DEF TileRecord
<1>5. right \in Int /\ down \in Int /\ wider \in Int /\ higher \in Int
  BY <1>1, TileOf
<1>6. moved \in Tile /\ sized \in Tile
  BY <1>3, <1>4, <1>5, TileOf, TileIs
<1>7. Shifted(tile, mode, dx, dy) = ClampTile(IF mode = "move" THEN moved ELSE sized)
  BY <1>1, <1>2 DEF Shifted
<1>8. QED
  BY <1>6, <1>7, Clamped

(* The layout a build comes with is usable, and so is what is loaded of any *)
(* tiles that have an id each.                                              *)
LEMMA DefaultUsable == Usable(DefaultLayout)
<1>1. PICK recent : recent = TileRecord("recent", 1, 1, MinWidth, MinHeight)
  OBVIOUS
<1>2. PICK machines : machines = TileRecord("machines", Columns - MinWidth + 1, 1, MinWidth, MinHeight)
  OBVIOUS
<1>3. DefaultLayout = {recent, machines}
  BY <1>1, <1>2 DEF DefaultLayout, TileRecord
<1>4. recent \in Tile /\ machines \in Tile
  BY <1>1, <1>2, TileIs, ConstantsHold DEF Known, Constants
<1>5. recent.id = "recent" /\ machines.id = "machines"
  BY <1>1, <1>2, TileFields
<1>6. OnTheGrid(recent)
  BY <1>1, TileFields, ConstantsHold DEF OnTheGrid, Constants
<1>7. OnTheGrid(machines)
  BY <1>2, TileFields, ConstantsHold DEF OnTheGrid, Constants
<1>8. QED
  BY <1>3, <1>4, <1>5, <1>6, <1>7 DEF Usable, Known

LEMMA LoadedUsable ==
  ASSUME NEW stored,
         \A e \in stored : e.id \in Known => e \in Tile,
         \A e, other \in stored : e.id \in Known /\ other.id = e.id => other = e
  PROVE  Usable(LoadLayout(stored))
<1>1. PICK saved : saved = { ClampTile(e) : e \in {e \in stored : e.id \in Known} }
  OBVIOUS
<1>2. LoadLayout(stored) = saved \cup { e \in DefaultLayout : \A tile \in saved : tile.id # e.id }
  BY <1>1 DEF LoadLayout
<1>3. \A tile \in saved : \E e \in stored : e.id \in Known /\ e \in Tile /\ tile = ClampTile(e)
  BY <1>1
<1>4. \A tile \in saved : tile \in Tile /\ OnTheGrid(tile)
  BY <1>3, Clamped
<1>5. \A tile, other \in saved : other.id = tile.id => other = tile
  <2>1. SUFFICES ASSUME NEW tile \in saved, NEW other \in saved, other.id = tile.id PROVE other = tile
    OBVIOUS
  <2>2. PICK e \in stored : e.id \in Known /\ e \in Tile /\ tile = ClampTile(e)
    BY <1>3
  <2>3. PICK f \in stored : f.id \in Known /\ f \in Tile /\ other = ClampTile(f)
    BY <1>3
  <2>4. e.id = f.id
    BY <2>1, <2>2, <2>3, Clamped
  <2>5. QED
    BY <2>2, <2>3, <2>4
<1>6. QED
  BY <1>2, <1>4, <1>5, DefaultUsable DEF Usable

(* What was stored is what is loaded.                                       *)
LEMMA LoadedAgain ==
  ASSUME NEW layout, Usable(layout)
  PROVE  LoadLayout(layout) = layout
<1>1. PICK saved : saved = { ClampTile(e) : e \in {e \in layout : e.id \in Known} }
  OBVIOUS
<1>2. \A e \in layout : e.id \in Known /\ ClampTile(e) = e
  BY Clamped, TileOf DEF Usable
<1>3. saved = layout
  BY <1>1, <1>2
<1>4. \A e \in DefaultLayout : \E tile \in layout : tile.id = e.id
  BY DefaultUsable, TileOf DEF Usable
<1>5. LoadLayout(layout) = saved \cup { e \in DefaultLayout : \A tile \in saved : tile.id # e.id }
  BY <1>1 DEF LoadLayout
<1>6. QED
  BY <1>3, <1>4, <1>5

LEMMA LoadedNothing == LoadLayout({}) = DefaultLayout
  BY DEF LoadLayout

LEMMA ReplacedUsable ==
  ASSUME Usable(ui.layout), NEW tile \in Tile, OnTheGrid(tile)
  PROVE  Usable(Replaced(tile))
<1>1. \A e \in Replaced(tile) : e = tile \/ (e \in ui.layout /\ e.id # tile.id)
  BY DEF Replaced
<1>2. \A e \in ui.layout : e.id # tile.id => e \in Replaced(tile)
  BY DEF Replaced
<1>3. tile \in Replaced(tile)
  <2>1. PICK e \in ui.layout : e.id = tile.id
    BY TileOf DEF Usable
  <2>2. QED
    BY <2>1 DEF Replaced
<1>4. Replaced(tile) \subseteq Tile
  BY <1>1 DEF Usable
<1>5. \A id \in Known : \E e \in Replaced(tile) : e.id = id
  BY <1>2, <1>3 DEF Usable
<1>6. \A e \in Replaced(tile) : OnTheGrid(e)
  BY <1>1 DEF Usable
<1>7. \A e, other \in Replaced(tile) : other.id = e.id => other = e
  BY <1>1 DEF Usable
<1>8. QED
  BY <1>4, <1>5, <1>6, <1>7 DEF Usable

LEMMA TilesNext ==
  ASSUME RequestsInv, TilesInv, [PagesNext]_pagesVars, page = "tiles"
  PROVE  TilesInv'
<1>0. /\ page' = "tiles" /\ Len(sent) = 0 /\ IsTiles(ui) /\ Usable(ui.layout)
      /\ ui.drag # "none" => ui.origin \in Tile /\ ui.preview \in Tile /\ OnTheGrid(ui.preview)
      /\ losses = 0 => LoadLayout(there) = ui.layout
  BY PageStays DEF TilesInv
<1>1. ASSUME NEW layout, Usable(layout), NEW drag, NEW origin, NEW preview,
             ui' = TilesRecord(layout, drag, origin, preview),
             drag # "none" => origin \in Tile /\ preview \in Tile /\ OnTheGrid(preview),
             sent' = sent, losses' = losses, losses = 0 => LoadLayout(there') = layout
      PROVE  TilesInv'
  <2>1. IsTiles(ui') /\ ui'.layout = layout /\ ui'.drag = drag /\ ui'.origin = origin /\ ui'.preview = preview
    BY <1>1 DEF IsTiles, TilesRecord
  <2>2. Usable(ui.layout)' <=> Usable(layout)
    BY <2>1 DEF Usable
  <2>3. (ui.drag # "none" => ui.origin \in Tile /\ ui.preview \in Tile /\ OnTheGrid(ui.preview))'
    BY <1>1, <2>1 DEF OnTheGrid
  <2>4. (losses = 0 => LoadLayout(there) = ui.layout)'
    BY <1>1, <2>1 DEF LoadLayout
  <2>5. QED
    BY <1>0, <1>1, <2>1, <2>2, <2>3, <2>4 DEF TilesInv
<1>2. ASSUME NEW layout, Usable(layout), PersistLayout(layout)
      PROVE  losses' = losses /\ sent' = sent /\ (losses = 0 => LoadLayout(there') = layout)
  BY <1>2, LoadedAgain, CountersNext DEF PersistLayout, RequestsInv
<1>3. ui = TilesRecord(ui.layout, ui.drag, ui.origin, ui.preview)
  BY <1>0 DEF IsTiles
<1>4. \A tile \in Positioned : tile \in Tile /\ OnTheGrid(tile)
  BY <1>0, ReplacedUsable DEF Positioned, Usable
<1>5. CASE UNCHANGED pagesVars
  BY <1>0, <1>1, <1>3, <1>5
<1>6. ASSUME NEW tile \in Positioned, NEW mode \in {"move", "resize"}, TakeHold(tile, mode)
      PROVE  TilesInv'
  <2>1. /\ ui' = [ui EXCEPT !.drag = mode, !.origin = tile, !.preview = tile] /\ there' = there
        /\ sent' = sent /\ losses' = losses
    BY <1>6 DEF TakeHold, OnPage, Stays
  <2>2. ui' = TilesRecord(ui.layout, mode, tile, tile)
    BY <1>3, <2>1 DEF TilesRecord
  <2>3. QED
    BY <1>0, <1>1, <1>4, <2>1, <2>2
<1>7. ASSUME NEW tile \in Positioned, NEW mode \in {"move", "resize"}, NEW dx \in Int, NEW dy \in Int,
             OnTileKeyDown(tile, mode, dx, dy)
      PROVE  TilesInv'
  <2>1. PICK layout : layout = Replaced(Shifted(tile, mode, dx, dy))
    OBVIOUS
  <2>2. Usable(layout)
    BY <1>0, <1>4, <2>1, ShiftedIs, ReplacedUsable
  <2>3. ui' = [ui EXCEPT !.layout = layout] /\ PersistLayout(ui'.layout)
    BY <1>7, <2>1 DEF OnTileKeyDown
  <2>4. ui' = TilesRecord(layout, ui.drag, ui.origin, ui.preview)
    BY <1>3, <2>3 DEF TilesRecord
  <2>5. PersistLayout(layout)
    BY <2>3, <2>4 DEF TilesRecord
  <2>6. QED
    BY <1>0, <1>1, <1>2, <2>2, <2>4, <2>5
<1>8. ASSUME NEW dx \in Int, NEW dy \in Int, OnMove(dx, dy)
      PROVE  TilesInv'
  <2>1. PICK preview : preview = Shifted(ui.origin, ui.drag, dx, dy)
    OBVIOUS
  <2>2. /\ ui' = [ui EXCEPT !.preview = preview] /\ there' = there /\ sent' = sent /\ losses' = losses
        /\ ui.drag # "none"
    BY <1>8, <2>1 DEF OnMove, OnPage, Stays
  <2>3. preview \in Tile /\ OnTheGrid(preview)
    BY <1>0, <2>1, <2>2, ShiftedIs
  <2>4. ui' = TilesRecord(ui.layout, ui.drag, ui.origin, preview)
    BY <1>3, <2>2 DEF TilesRecord
  <2>5. QED
    BY <1>0, <1>1, <2>2, <2>3, <2>4
<1>9. CASE OnUp
  <2>1. PICK layout : layout = Replaced(ui.preview)
    OBVIOUS
  <2>2. /\ ui' = [ui EXCEPT !.drag = "none", !.layout = layout, !.origin = NoTile, !.preview = NoTile]
        /\ PersistLayout(ui'.layout) /\ ui.drag # "none"
    BY <1>9, <2>1 DEF OnUp
  <2>3. Usable(layout)
    BY <1>0, <2>1, <2>2, ReplacedUsable
  <2>4. ui' = TilesRecord(layout, "none", NoTile, NoTile)
    BY <1>3, <2>2 DEF TilesRecord
  <2>5. PersistLayout(layout)
    BY <2>2, <2>4 DEF TilesRecord
  <2>6. QED
    BY <1>0, <1>1, <1>2, <2>3, <2>4, <2>5
<1>10. CASE Reset
  <2>1. ui' = [ui EXCEPT !.layout = DefaultLayout] /\ PersistLayout({})
    BY <1>10 DEF Reset
  <2>2. ui' = TilesRecord(DefaultLayout, ui.drag, ui.origin, ui.preview)
    BY <1>3, <2>1 DEF TilesRecord
  <2>3. losses' = losses /\ sent' = sent /\ (losses = 0 => LoadLayout(there') = DefaultLayout)
    BY <2>1, LoadedNothing, CountersNext DEF PersistLayout, RequestsInv
  <2>4. QED
    BY <1>0, <1>1, <2>2, <2>3, DefaultUsable
<1>11. QED
  <2>1. 1 .. Len(sent) = {}
    BY <1>0
  <2>2. \A d \in {-2, -1, 0, 1} : d \in Int
    OBVIOUS
  <2>3. QED
    BY <1>0, <1>5, <1>6, <1>7, <1>8, <1>9, <1>10, <2>1, <2>2, StepsOf

-----------------------------------------------------------------------------
(* The memory files.                                                        *)

LEMMA MemoryFields ==
  ASSUME NEW u, NEW list, NEW asked, NEW selected, NEW document, NEW text, NEW reviewing,
         u = MemoryRecord(list, asked, selected, document, text, reviewing)
  PROVE  /\ IsMemory(u) /\ u.list = list /\ u.asked = asked /\ u.selected = selected
         /\ u.document = document /\ u.text = text /\ u.reviewing = reviewing
  BY DEF IsMemory, MemoryRecord

(* Which removals and reviews have been answered only changes with one.     *)
Same(kind) ==
    /\ \A j \in 1 .. Len(sent) : j \in 1 .. Len(sent') /\ Keeps(j)
    /\ \A j \in 1 .. Len(sent) : sent[j].kind = kind => (Answered(j)' <=> Answered(j))
    /\ \A j \in 1 .. Len(sent') : j \in 1 .. Len(sent) \/ sent'[j].state # "answered"

LEMMA RemovalsStay ==
  ASSUME Same("remove")
  PROVE  (SomeRemoved' <=> SomeRemoved) /\ \A d \in 1 .. 2 : Removed(d)' <=> Removed(d)
  BY DEF Same, SomeRemoved, Removed, Answered, Keeps, File

LEMMA ReviewsStay ==
  ASSUME Same("review")
  PROVE  \A d \in 1 .. 2 : ReviewAnswered(d)' <=> ReviewAnswered(d)
  BY DEF Same, ReviewAnswered, Answered, Keeps, File

LEMMA MemoryPosted ==
  ASSUME RequestsInv, MemoryInv, [PagesNext]_pagesVars, page = "memory",
         NEW kind \in {"open", "review", "remove"}, NEW arg, Posts(kind, arg), there' = there,
         kind = "open" => arg \in 1 .. 2,
         kind = "review" => arg[1] \in 1 .. 2 /\ arg[2] \in Nat /\ ~ui.reviewing,
         kind = "remove" => arg[1] \in 1 .. 2 /\ arg[2] \in 0 .. 2,
         NEW reviewing \in BOOLEAN, ui.reviewing => reviewing, kind = "review" => reviewing,
         ui' = MemoryRecord(ui.list, ui.asked, ui.selected, ui.document, ui.text, reviewing),
         ~untimely' =>
            /\ kind = "open" => ~InFlight("review") /\ ~InFlight("remove")
            /\ kind = "remove" => ~InFlight("open") /\ ~InFlight("review") /\ arg[2] = ui.selected
            /\ kind = "review" => AllQuiet /\ arg[1] = ui.selected /\ arg[2] = ui.document.version
  PROVE  MemoryInv'
<1> DEFINE n == Len(sent) + 1
<1>1. /\ page' = "memory" /\ Len(sent) \in Nat /\ (untimely => untimely')
      /\ MemoryShape /\ (\A i \in 1 .. Len(sent) : MemoryRequest(i)) /\ OneReview
  BY PageStays, Indices, CountersNext DEF MemoryInv
<1>2. PICK m : m = n
  OBVIOUS
<1>3. /\ Len(sent') = m /\ \A j \in 1 .. Len(sent) : Untouched(j)
      /\ sent'[m].kind = kind /\ sent'[m].arg = arg /\ sent'[m].state = "sent"
  BY <1>2, Posted DEF IsNew
<1>4. \A j \in 1 .. Len(sent') : j \in 1 .. Len(sent) \/ j = m
  BY <1>1, <1>2, <1>3
<1>5. m \notin 1 .. Len(sent) /\ m \in Nat /\ \A j \in 1 .. Len(sent) : j \in 1 .. Len(sent')
  BY <1>1, <1>2, <1>3
<1>6. /\ IsMemory(ui') /\ ui'.list = ui.list /\ ui'.asked = ui.asked /\ ui'.selected = ui.selected
      /\ ui'.document = ui.document /\ ui'.text = ui.text
  BY MemoryFields
<1>7. ui'.reviewing = reviewing
  BY MemoryFields
<1>8. ui'.reviewing \in BOOLEAN /\ (ui.reviewing => ui'.reviewing) /\ (kind = "review" => ui'.reviewing)
  BY <1>7
<1>9. MemoryShape'
  <2>1. (\A d \in 1 .. 2 : InArchive(d) \/ there[d] = Unread)'
    BY <1>1 DEF MemoryShape, InArchive
  <2>2. sent'[ui.asked].kind = "list" /\ ui.asked \in 1 .. Len(sent')
    BY <1>1, <1>3, <1>5 DEF MemoryShape, Untouched, Keeps
  <2>3. QED
    BY <1>1, <1>6, <1>8, <2>1, <2>2 DEF MemoryShape
<1>10. ASSUME NEW j \in 1 .. Len(sent') PROVE MemoryRequest(j)'
  <2>1. CASE j \in 1 .. Len(sent)
    BY <1>1, <1>3, <2>1 DEF MemoryRequest, Untouched, Keeps, Answered, File, Mark
  <2>2. CASE j = m
    BY <1>3, <2>2 DEF MemoryRequest, Answered, File, Mark
  <2>3. QED
    BY <1>4, <2>1, <2>2
<1>11. OneReview'
  BY <1>1, <1>3, <1>4, <1>8 DEF OneReview, Awaited, Untouched, Keeps
<1>12. ASSUME ~untimely' PROVE MemoryTurns'
  <2>1. MemoryTurns
    BY <1>1, <1>12 DEF MemoryInv
  <2>2. ASSUME NEW i \in 1 .. Len(sent'), NEW j \in 1 .. Len(sent'), Awaited(i)', Awaited(j)', i # j
        PROVE  Together(i, j)'
    <3>1. CASE i \in 1 .. Len(sent) /\ j \in 1 .. Len(sent)
      BY <2>1, <2>2, <3>1, <1>3 DEF MemoryTurns, Together, Awaited, Untouched, Keeps
    <3>2. CASE i = m /\ j \in 1 .. Len(sent)
      BY <1>12, <2>2, <3>2, <1>3 DEF Together, Awaited, Untouched, Keeps, InFlight, AllQuiet
    <3>3. CASE i \in 1 .. Len(sent) /\ j = m
      BY <1>12, <2>2, <3>3, <1>3 DEF Together, Awaited, Untouched, Keeps, InFlight, AllQuiet
    <3>4. QED
      BY <1>4, <2>2, <3>1, <3>2, <3>3
  <2>3. ASSUME NEW i \in 1 .. Len(sent'), Awaited(i)' PROVE MemoryTurn(i)'
    <3>1. CASE i \in 1 .. Len(sent)
      BY <2>1, <2>3, <3>1, <1>3, <1>6 DEF MemoryTurns, MemoryTurn, Awaited, Untouched, Keeps, File, Mark
    <3>2. CASE i = m
      BY <1>12, <3>2, <1>3, <1>6 DEF MemoryTurn, File, Mark
    <3>3. QED
      BY <1>4, <3>1, <3>2
  <2>4. QED
    BY <2>1, <2>2, <2>3, <1>6 DEF MemoryTurns
<1>13. ASSUME ~untimely', losses' + elsewhere' = 0 PROVE MemoryListed'
  <2>1. MemoryListed
    BY <1>1, <1>13, NothingMeanwhile DEF MemoryInv
  <2>2. /\ SomeRemoved' <=> SomeRemoved
        /\ \A d \in 1 .. 2 : (Removed(d)' <=> Removed(d)) /\ (ReviewAnswered(d)' <=> ReviewAnswered(d))
    <3>1. Same("remove") /\ Same("review")
      BY <1>3, <1>4, <1>5 DEF Same, Untouched, Keeps, Answered
    <3>2. QED
      BY <3>1, RemovalsStay, ReviewsStay
  <2>3. ASSUME NEW i \in 1 .. Len(sent'), Answered(i)' PROVE MemoryAnswer(i)'
    BY <2>1, <2>2, <2>3, <1>1, <1>3, <1>4, <1>6 DEF MemoryListed, MemoryAnswer, Answered, Untouched, Keeps, File, InArchive
  <2>4. Awaited(ui.asked)' <=> Awaited(ui.asked)
    BY <1>1, <1>3, <1>6 DEF Awaited, MemoryShape, Untouched
  <2>5. (ui.selected # 0 => InArchive(ui.selected) \/ Removed(ui.selected))'
    BY <2>1, <2>2, <1>1, <1>6 DEF MemoryListed, InArchive, MemoryShape
  <2>6. QED
    BY <2>1, <2>2, <2>3, <2>4, <2>5, <1>6 DEF MemoryListed
<1>14. QED
  BY <1>9, <1>10, <1>11, <1>12, <1>13 DEF MemoryInv

(* A request that is served or lost changes little but its answer.          *)
LEMMA MemoryTurned ==
  ASSUME RequestsInv, MemoryInv, [PagesNext]_pagesVars, page = "memory", ui' = ui,
         NEW i \in 1 .. Len(sent), Awaited(i),
         NEW state \in {"answered", "failed"}, NEW said, Turn(i, state, said),
         there' \in [1 .. 2 -> Doc], \A d \in 1 .. 2 : there'[d].version # 0 \/ there'[d] = Unread,
         state = "answered" =>
            /\ sent[i].kind = "list" => said \in [1 .. 2 -> Doc]
            /\ sent[i].kind = "open" => said \in Doc
            /\ sent[i].kind = "review" => said \in Doc /\ said.version = Mark(i),
         ~untimely' /\ sent[i].kind = "list" => state # "failed"
  PROVE  /\ MemoryShape' /\ (\A j \in 1 .. Len(sent') : MemoryRequest(j)') /\ OneReview'
         /\ ~untimely' => MemoryTurns'
<1>1. /\ page' = "memory" /\ Len(sent) \in Nat /\ (untimely => untimely')
      /\ MemoryShape /\ (\A j \in 1 .. Len(sent) : MemoryRequest(j)) /\ OneReview
  BY PageStays, Indices, CountersNext DEF MemoryInv
<1>2. /\ Len(sent') = Len(sent) /\ \A j \in 1 .. Len(sent) : j # i => Untouched(j)
      /\ Keeps(i) /\ sent'[i].state = state /\ sent'[i].said = said
  BY Turned
<1>3. \A j \in 1 .. Len(sent) : Keeps(j) /\ (Awaited(j)' <=> Awaited(j))
  BY <1>2 DEF Untouched, Awaited
<1>4. MemoryShape'
  BY <1>1, <1>2, <1>3 DEF MemoryShape, InArchive, Keeps
<1>5. ASSUME NEW j \in 1 .. Len(sent') PROVE MemoryRequest(j)'
  <2>1. CASE j # i
    BY <1>1, <1>2, <2>1 DEF MemoryRequest, Untouched, Keeps, Answered, File, Mark
  <2>2. CASE j = i
    BY <1>1, <1>2, <2>2 DEF MemoryRequest, Keeps, Answered, File, Mark
  <2>3. QED
    BY <2>1, <2>2
<1>6. OneReview'
  BY <1>1, <1>2, <1>3 DEF OneReview, Keeps
<1>7. ASSUME ~untimely' PROVE MemoryTurns'
  <2>1. MemoryTurns
    BY <1>1, <1>7 DEF MemoryInv
  <2>2. \A j, k \in 1 .. Len(sent') : Awaited(j)' /\ Awaited(k)' /\ j # k => Together(j, k)'
    BY <2>1, <1>2, <1>3 DEF MemoryTurns, Together, Keeps
  <2>3. ASSUME NEW j \in 1 .. Len(sent'), Awaited(j)' PROVE MemoryTurn(j)'
    <3>1. MemoryTurn(j)
      BY <2>1, <2>3, <1>2, <1>3 DEF MemoryTurns
    <3>2. sent'[j].kind = "list" => sent'[j].state # "failed"
      BY <3>1, <1>2, <1>7 DEF MemoryTurn, Untouched, Keeps
    <3>3. QED
      BY <3>1, <3>2, <1>2, <1>3 DEF MemoryTurn, Keeps, File, Mark
  <2>4. QED
    BY <2>1, <2>2, <2>3 DEF MemoryTurns
<1>8. QED
  BY <1>4, <1>5, <1>6, <1>7

LEMMA MemoryServed ==
  ASSUME RequestsInv, MemoryInv, [PagesNext]_pagesVars, page = "memory",
         NEW i \in 1 .. Len(sent), ServeSent(i)
  PROVE  MemoryInv'
<1>1. /\ page' = "memory" /\ Len(sent) \in Nat /\ untimely' = untimely
      /\ MemoryShape /\ (\A j \in 1 .. Len(sent) : MemoryRequest(j)) /\ OneReview
  BY PageStays, Indices DEF MemoryInv, ServeSent
<1>2. sent[i].state = "sent" /\ MemoryServes(i) /\ ui' = ui /\ Awaited(i) /\ ~Answered(i)
  BY <1>1, Indices DEF ServeSent, Awaited, Answered
<1>3. MemoryRequest(i)
  BY <1>1
<1>4. ASSUME ~untimely', losses' + elsewhere' = 0 PROVE MemoryTurns /\ MemoryListed
  BY <1>1, <1>4, NothingMeanwhile DEF MemoryInv
<1>5. ASSUME NEW state \in {"answered", "failed"}, NEW said, Turn(i, state, said)
      PROVE  /\ Len(sent') = Len(sent) /\ \A j \in 1 .. Len(sent) : j # i => Untouched(j)
             /\ Keeps(i) /\ sent'[i].state = state /\ sent'[i].said = said
             /\ \A j \in 1 .. Len(sent) : Awaited(j)' <=> Awaited(j)
             /\ sent[i].kind # "remove" \/ state = "failed" => Same("remove")
             /\ sent[i].kind # "review" \/ state = "failed" => Same("review")
  <2>1. /\ Len(sent') = Len(sent) /\ \A j \in 1 .. Len(sent) : j # i => Untouched(j)
        /\ Keeps(i) /\ sent'[i].state = state /\ sent'[i].said = said
    BY <1>5, Turned
  <2>2. QED
    BY <2>1, <1>2 DEF Same, Untouched, Keeps, Answered, Awaited
(* Nothing but a document or a list is said, or nothing at all.             *)
<1>6. ASSUME NEW state \in {"answered", "failed"}, NEW said, Turn(i, state, said), there' = there,
             sent[i].kind \in {"list", "open"} \/ state = "failed",
             state = "answered" =>
                /\ sent[i].kind = "list" => said = there
                /\ sent[i].kind = "open" => InArchive(sent[i].arg) /\ said \in Doc,
             sent[i].kind = "list" => state = "answered"
      PROVE  MemoryInv'
  <2>1. /\ MemoryShape' /\ (\A j \in 1 .. Len(sent') : MemoryRequest(j)') /\ OneReview'
        /\ ~untimely' => MemoryTurns'
    BY <1>1, <1>2, <1>6, MemoryTurned DEF MemoryShape, InArchive
  <2>2. ASSUME ~untimely', losses' + elsewhere' = 0 PROVE MemoryListed'
    <3>1. MemoryListed
      BY <1>4, <2>2
    <3>2. /\ SomeRemoved' <=> SomeRemoved
          /\ \A d \in 1 .. 2 : (Removed(d)' <=> Removed(d)) /\ (ReviewAnswered(d)' <=> ReviewAnswered(d))
      BY <1>5, <1>6, RemovalsStay, ReviewsStay
    <3>3. ASSUME NEW j \in 1 .. Len(sent'), Answered(j)' PROVE MemoryAnswer(j)'
      <4>1. CASE j # i
        BY <3>1, <3>2, <3>3, <4>1, <1>2, <1>5, <1>6 DEF MemoryListed, MemoryAnswer, Answered, Untouched, Keeps, File, InArchive
      <4>2. CASE j = i
        BY <3>3, <4>2, <1>2, <1>5, <1>6 DEF MemoryAnswer, Answered, Keeps, InArchive
      <4>3. QED
        BY <4>1, <4>2
    <3>4. Awaited(ui.asked)' <=> Awaited(ui.asked)
      BY <1>1, <1>2, <1>5, <1>6 DEF MemoryShape
    <3>5. (ui.selected # 0 => InArchive(ui.selected) \/ Removed(ui.selected))'
      BY <3>1, <3>2, <1>1, <1>2, <1>6 DEF MemoryListed, InArchive, MemoryShape
    <3>6. QED
      BY <3>1, <3>2, <3>3, <3>4, <3>5, <1>2, <1>6 DEF MemoryListed
  <2>3. QED
    BY <2>1, <2>2 DEF MemoryInv
<1>7. CASE sent[i].kind = "list"
  BY <1>2, <1>6, <1>7 DEF MemoryServes
<1>8. CASE sent[i].kind = "open"
  <2>1. there[sent[i].arg] \in Doc
    BY <1>1, <1>3, <1>8 DEF MemoryShape, MemoryRequest
  <2>2. CASE InArchive(sent[i].arg)
    <3>1. Turn(i, "answered", there[sent[i].arg]) /\ there' = there
      BY <1>2, <1>8, <2>2 DEF MemoryServes
    <3>2. QED
      BY <3>1, <2>1, <2>2, <1>6, <1>8
  <2>3. CASE ~InArchive(sent[i].arg)
    <3>1. Turn(i, "failed", 0) /\ there' = there
      BY <1>2, <1>8, <2>3 DEF MemoryServes
    <3>2. QED
      BY <3>1, <1>6, <1>8
  <2>4. QED
    BY <2>2, <2>3
<1>9. CASE sent[i].kind = "review"
  <2>1. PICK f : f = File(i)
    OBVIOUS
  <2>2. f \in 1 .. 2 /\ there[f] \in Doc /\ Mark(i) \in Nat
    BY <1>1, <1>3, <1>9, <2>1 DEF MemoryShape, MemoryRequest
  <2>3. CASE InArchive(f) /\ there[f].version = Mark(i)
    <3>1. there' = [there EXCEPT ![f].reviewed = Mark(i)] /\ Turn(i, "answered", there'[f])
      BY <1>2, <1>9, <2>1, <2>3 DEF MemoryServes, File, Mark
    <3>2. PICK said : said = there'[f]
      OBVIOUS
    <3>3. /\ there' \in [1 .. 2 -> Doc] /\ there'[f] = said /\ said.version = there[f].version
          /\ \A d \in 1 .. 2 : d # f => there'[d] = there[d]
      BY <1>1, <2>2, <3>1, <3>2 DEF MemoryShape, Doc
    <3>4. \A d \in 1 .. 2 : there'[d].version # 0 \/ there'[d] = Unread
      BY <1>1, <2>2, <2>3, <3>3 DEF MemoryShape, InArchive
    <3>5. said \in Doc /\ said.version = Mark(i)
      BY <2>2, <2>3, <3>3
    <3>6. Turn(i, "answered", said)
      BY <3>1, <3>2
    <3>7. /\ MemoryShape' /\ (\A j \in 1 .. Len(sent') : MemoryRequest(j)') /\ OneReview'
          /\ ~untimely' => MemoryTurns'
      BY <1>1, <1>2, <1>9, <3>3, <3>4, <3>5, <3>6, MemoryTurned
    <3>8. ASSUME ~untimely', losses' + elsewhere' = 0 PROVE MemoryListed'
      <4>1. MemoryListed /\ MemoryTurns
        BY <1>4, <3>8
      <4>2. \A j \in 1 .. Len(sent) : j # i => ~Awaited(j)
        BY <1>2, <1>9, <4>1 DEF MemoryTurns, Together
      <4>3. \A j \in 1 .. Len(sent) : ~Answered(j)
        BY <1>2, <4>2 DEF Awaited, Answered
      <4>4. ~SomeRemoved /\ \A d \in 1 .. 2 : ~Removed(d) /\ ~ReviewAnswered(d)
        BY <4>3 DEF SomeRemoved, Removed, ReviewAnswered
      <4>5. ui.asked # i /\ ui.asked \in 1 .. Len(sent)
        BY <1>1, <1>9 DEF MemoryShape
      <4>6. ~Awaited(ui.asked)
        BY <4>2, <4>5
      <4>7. \A d \in 1 .. 2 : ui.list[d] = there[d]
        BY <4>1, <4>4, <4>6 DEF MemoryListed
      <4>8. ui.list[f] # Unread
        BY <4>7, <2>2, <2>3 DEF InArchive, Unread
      <4>9. ASSUME NEW j \in 1 .. Len(sent'), Answered(j)' PROVE MemoryAnswer(j)'
        <5>1. j = i
          BY <4>3, <4>9, <3>6, <1>5 DEF Answered, Untouched
        <5>2. sent'[i].kind = "review" /\ File(i)' = f /\ sent'[i].said = said
          BY <3>6, <1>5, <1>9, <2>1 DEF Keeps, File
        <5>3. QED
          BY <5>1, <5>2, <4>8, <1>2, <3>3 DEF MemoryAnswer
      <4>10. ASSUME NEW d \in 1 .. 2 PROVE (ui.list[d] = there[d] \/ ReviewAnswered(d))'
        <5>1. CASE d # f
          BY <5>1, <4>7, <3>3, <1>2
        <5>2. CASE d = f
          <6>1. i \in 1 .. Len(sent') /\ sent'[i].kind = "review" /\ Answered(i)' /\ File(i)' = f
            BY <3>6, <1>5, <1>9, <2>1 DEF Keeps, File, Answered
          <6>2. QED
            BY <5>2, <6>1 DEF ReviewAnswered
        <5>3. QED
          BY <5>1, <5>2
      <4>11. (ui.selected # 0 => InArchive(ui.selected) \/ Removed(ui.selected))'
        BY <4>1, <4>4, <1>1, <1>2, <3>3 DEF MemoryListed, InArchive, MemoryShape
      <4>12. QED
        BY <4>9, <4>10, <4>11 DEF MemoryListed
    <3>9. QED
      BY <3>7, <3>8 DEF MemoryInv
  <2>4. CASE ~(InArchive(f) /\ there[f].version = Mark(i))
    <3>1. Turn(i, "failed", 0) /\ there' = there
      BY <1>2, <1>9, <2>1, <2>4 DEF MemoryServes, File, Mark
    <3>2. QED
      BY <3>1, <1>6, <1>9
  <2>5. QED
    BY <2>3, <2>4
<1>10. CASE sent[i].kind = "remove"
  <2>1. PICK f : f = File(i)
    OBVIOUS
  <2>2. f \in 1 .. 2 /\ there \in [1 .. 2 -> Doc] /\ Unread \in Doc
    BY <1>1, <1>3, <1>10, <2>1 DEF MemoryShape, MemoryRequest, Unread, Doc
  <2>3. there' = [there EXCEPT ![f] = Unread] /\ Turn(i, IF InArchive(f) THEN "answered" ELSE "failed", 0)
    BY <1>2, <1>10, <2>1 DEF MemoryServes, File
  <2>4. there' \in [1 .. 2 -> Doc] /\ there'[f] = Unread /\ \A d \in 1 .. 2 : d # f => there'[d] = there[d]
    BY <2>2, <2>3
  <2>5. CASE InArchive(f)
    <3>1. Turn(i, "answered", 0)
      BY <2>3, <2>5
    <3>2. \A d \in 1 .. 2 : there'[d].version # 0 \/ there'[d] = Unread
      BY <1>1, <2>4 DEF MemoryShape, InArchive
    <3>3. /\ MemoryShape' /\ (\A j \in 1 .. Len(sent') : MemoryRequest(j)') /\ OneReview'
          /\ ~untimely' => MemoryTurns'
      BY <1>1, <1>2, <1>10, <2>4, <3>1, <3>2, MemoryTurned
    <3>4. /\ i \in 1 .. Len(sent') /\ sent'[i].kind = "remove" /\ Answered(i)' /\ File(i)' = f
      BY <3>1, <1>5, <1>10, <2>1 DEF Keeps, File, Answered
    <3>5. ASSUME ~untimely', losses' + elsewhere' = 0 PROVE MemoryListed'
      <4>1. MemoryListed /\ MemoryTurns
        BY <1>4, <3>5
      <4>2. SomeRemoved' /\ Removed(f)'
        BY <3>4 DEF SomeRemoved, Removed
      <4>3. ASSUME NEW j \in 1 .. Len(sent'), Answered(j)' PROVE MemoryAnswer(j)'
        <5>1. CASE j = i
          BY <5>1, <3>4 DEF MemoryAnswer
        <5>2. CASE j # i
          <6>1. j \in 1 .. Len(sent) /\ Awaited(j) /\ Keeps(j)
            BY <5>2, <4>3, <3>1, <1>5 DEF Untouched, Answered, Awaited
          <6>2. Together(i, j) /\ Together(j, i)
            BY <6>1, <5>2, <4>1, <1>2 DEF MemoryTurns
          <6>3. sent'[j].kind \notin {"open", "review"}
            BY <6>1, <6>2, <1>10 DEF Together, Keeps
          <6>4. QED
            BY <6>3, <4>2 DEF MemoryAnswer
        <5>3. QED
          BY <5>1, <5>2
      <4>4. \A d \in 1 .. 2 : Removed(d) => Removed(d)'
        BY <3>1, <1>5, <1>2 DEF Removed, Answered, Untouched, Keeps, File
      <4>5. (ui.selected # 0 => InArchive(ui.selected) \/ Removed(ui.selected))'
        <5>1. CASE ui.selected = f
          BY <5>1, <4>2, <1>2
        <5>2. CASE ui.selected # f
          BY <5>2, <4>1, <4>4, <2>4, <1>1, <1>2 DEF MemoryListed, InArchive, MemoryShape
        <5>3. QED
          BY <5>1, <5>2
      <4>6. QED
        BY <4>2, <4>3, <4>5 DEF MemoryListed
    <3>6. QED
      BY <3>3, <3>5 DEF MemoryInv
  <2>6. CASE ~InArchive(f)
    <3>1. there' = there
      BY <2>2, <2>3, <2>6, <1>1 DEF MemoryShape
    <3>2. Turn(i, "failed", 0)
      BY <2>3, <2>6
    <3>3. QED
      BY <3>1, <3>2, <1>6, <1>10
  <2>7. QED
    BY <2>5, <2>6
<1>11. QED
  BY <1>3, <1>7, <1>8, <1>9, <1>10 DEF MemoryRequest

LEMMA MemoryLost ==
  ASSUME RequestsInv, MemoryInv, [PagesNext]_pagesVars, page = "memory",
         NEW i \in 1 .. Len(sent), Lose(i)
  PROVE  MemoryInv'
<1>1. /\ sent[i].state \in {"sent", "answered"} /\ Turn(i, "failed", 0) /\ ui' = ui /\ there' = there
      /\ losses' = losses + 1
      /\ untimely' = (untimely \/ sent[i].state = "answered" \/ sent[i].kind = "list")
  BY DEF Lose
<1>2. losses' + elsewhere' # 0
  BY <1>1, CountersNext DEF RequestsInv
<1>3. Awaited(i) /\ MemoryShape
  BY <1>1, Indices DEF Awaited, MemoryInv
<1>4. /\ MemoryShape' /\ (\A j \in 1 .. Len(sent') : MemoryRequest(j)') /\ OneReview'
      /\ ~untimely' => MemoryTurns'
  BY <1>1, <1>3, MemoryTurned DEF MemoryShape, InArchive
<1>5. QED
  BY <1>2, <1>4 DEF MemoryInv

(* What an answer shows.                                                    *)
ShowsAfter(i, list, asked, selected, document, text, reviewing) ==
    /\ IF sent[i].kind = "list" /\ Answered(i) /\ ui.asked = i THEN list = sent[i].said
       ELSE IF sent[i].kind = "review" /\ Answered(i) /\ ui.list[File(i)] # Unread
       THEN list = [ui.list EXCEPT ![File(i)] = sent[i].said] ELSE list = ui.list
    /\ IF ListAgain(i) THEN asked = Len(sent) + 1 ELSE asked = ui.asked
    /\ IF sent[i].kind = "open" /\ Answered(i)
       THEN selected = sent[i].arg /\ document = sent[i].said /\ text = sent[i].said.version
       ELSE /\ text = ui.text
            /\ IF ListAgain(i) /\ Mark(i) = File(i) THEN selected = 0 ELSE selected = ui.selected
            /\ IF sent[i].kind = "review" /\ Answered(i) /\ ui.selected = File(i)
               THEN document = sent[i].said ELSE document = ui.document
    /\ IF sent[i].kind = "review" THEN reviewing = FALSE ELSE reviewing = ui.reviewing

LEMMA MemoryTaken ==
  ASSUME MemoryShape, NEW i \in 1 .. Len(sent), MemoryRequest(i), Arrive(i), page = "memory"
  PROVE  \E list, asked, selected, document, text, reviewing :
            /\ ui' = MemoryRecord(list, asked, selected, document, text, reviewing)
            /\ ShowsAfter(i, list, asked, selected, document, text, reviewing)
<1> USE DEF ShowsAfter
<1> DEFINE ok == sent[i].state = "answered"
<1>1. /\ MemoryArrives(i, ok) /\ sent[i].kind \in {"list", "open", "review", "remove"}
      /\ ui = MemoryRecord(ui.list, ui.asked, ui.selected, ui.document, ui.text, ui.reviewing)
      /\ ListAgain(i) <=> sent[i].kind = "remove" /\ Answered(i)
  BY DEF Arrive, MemoryShape, IsMemory, MemoryRequest, ListAgain
<1>2. CASE sent[i].kind = "list"
  <2>1. CASE ui.asked = i /\ ok
    <3>1. ui' = [ui EXCEPT !.list = sent[i].said]
      BY <1>1, <1>2, <2>1 DEF MemoryArrives
    <3>2. ui' = MemoryRecord(sent[i].said, ui.asked, ui.selected, ui.document, ui.text, ui.reviewing)
      BY <1>1, <3>1 DEF MemoryRecord
    <3>3. QED
      BY <1>1, <1>2, <2>1, <3>2 DEF Answered
  <2>2. CASE ~(ui.asked = i /\ ok)
    <3>1. ui' = MemoryRecord(ui.list, ui.asked, ui.selected, ui.document, ui.text, ui.reviewing)
      BY <1>1, <1>2, <2>2 DEF MemoryArrives
    <3>2. QED
      BY <1>1, <1>2, <2>2, <3>1 DEF Answered
  <2>3. QED
    BY <2>1, <2>2
<1>3. CASE sent[i].kind = "open"
  <2>1. CASE ok
    <3>1. PICK version : version = sent[i].said.version
      OBVIOUS
    <3>2. ui' = [ui EXCEPT !.selected = sent[i].arg, !.document = sent[i].said, !.text = version]
      BY <1>1, <1>3, <2>1, <3>1 DEF MemoryArrives
    <3>3. ui' = MemoryRecord(ui.list, ui.asked, sent[i].arg, sent[i].said, version, ui.reviewing)
      BY <1>1, <3>2 DEF MemoryRecord
    <3>4. QED
      BY <1>1, <1>3, <2>1, <3>1, <3>3 DEF Answered
  <2>2. CASE ~ok
    <3>1. ui' = MemoryRecord(ui.list, ui.asked, ui.selected, ui.document, ui.text, ui.reviewing)
      BY <1>1, <1>3, <2>2 DEF MemoryArrives
    <3>2. QED
      BY <1>1, <1>3, <2>2, <3>1 DEF Answered
  <2>3. QED
    BY <2>1, <2>2
<1>4. CASE sent[i].kind = "review"
  <2>1. PICK f : f = File(i)
    OBVIOUS
  <2>2. PICK document : document = IF ok /\ ui.selected = f THEN sent[i].said ELSE ui.document
    OBVIOUS
  <2>3. PICK doc : doc = IF ok /\ ui.list[f] # Unread THEN sent[i].said ELSE ui.list[f]
    OBVIOUS
  <2>4. PICK list : list = [ui.list EXCEPT ![f] = doc]
    OBVIOUS
  <2>5. ui' = [ui EXCEPT !.reviewing = FALSE, !.document = document, !.list = list]
    BY <1>1, <1>4, <2>1, <2>2, <2>3, <2>4 DEF MemoryArrives, File
  <2>6. ui' = MemoryRecord(list, ui.asked, ui.selected, document, ui.text, FALSE)
    BY <1>1, <2>5 DEF MemoryRecord
  <2>7. IF ok /\ ui.list[f] # Unread THEN list = [ui.list EXCEPT ![f] = sent[i].said] ELSE list = ui.list
    BY <2>3, <2>4 DEF MemoryShape
  <2>8. IF ok /\ ui.selected = f THEN document = sent[i].said ELSE document = ui.document
    BY <2>2
  <2>9. QED
    BY <1>1, <1>4, <2>1, <2>6, <2>7, <2>8 DEF Answered
<1>5. CASE sent[i].kind = "remove"
  <2>1. CASE ok
    <3>1. PICK n : n = Len(sent) + 1
      OBVIOUS
    <3>2. PICK selected : selected = IF Mark(i) = File(i) THEN 0 ELSE ui.selected
      OBVIOUS
    <3>3. ui' = [ui EXCEPT !.asked = n, !.selected = selected]
      BY <1>1, <1>5, <2>1, <3>1, <3>2 DEF MemoryArrives, File, Mark
    <3>4. ui' = MemoryRecord(ui.list, n, selected, ui.document, ui.text, ui.reviewing)
      BY <1>1, <3>3 DEF MemoryRecord
    <3>5. IF Mark(i) = File(i) THEN selected = 0 ELSE selected = ui.selected
      BY <3>2
    <3>6. QED
      BY <1>1, <1>5, <2>1, <3>1, <3>4, <3>5 DEF Answered
  <2>2. CASE ~ok
    <3>1. ui' = MemoryRecord(ui.list, ui.asked, ui.selected, ui.document, ui.text, ui.reviewing)
      BY <1>1, <1>5, <2>2 DEF MemoryArrives
    <3>2. QED
      BY <1>1, <1>5, <2>2, <3>1 DEF Answered
  <2>3. QED
    BY <2>1, <2>2
<1>6. QED
  BY <1>1, <1>2, <1>3, <1>4, <1>5

LEMMA MemoryArrived ==
  ASSUME RequestsInv, MemoryInv, [PagesNext]_pagesVars, page = "memory",
         NEW i \in 1 .. Len(sent), Arrive(i), ~ListAgain(i)
  PROVE  MemoryInv'
<1>1. /\ page' = "memory" /\ Len(sent) \in Nat /\ untimely' = untimely /\ there' = there
      /\ MemoryShape /\ (\A j \in 1 .. Len(sent) : MemoryRequest(j)) /\ OneReview
      /\ sent[i].state \in {"answered", "failed"} /\ Awaited(i)
  <2>1. page' = "memory" /\ untimely' = untimely /\ there' = there
    BY PageStays DEF Arrive, OnPage
  <2>2. sent[i].state \in {"answered", "failed"} /\ i # 0
    BY DEF Arrive
  <2>3. QED
    BY <2>1, <2>2, Indices DEF MemoryInv, Awaited
<1>2. /\ MemoryRequest(i) /\ ~(sent[i].kind = "remove" /\ Answered(i))
  BY <1>1 DEF ListAgain
<1>3. /\ Len(sent') = Len(sent) /\ \A j \in 1 .. Len(sent) : j # i => Untouched(j)
      /\ Keeps(i) /\ sent'[i].state = "over"
  BY <1>1, Arrived DEF TeamsAgain
<1>4. PICK list, asked, selected, document, text, reviewing :
         /\ ui' = MemoryRecord(list, asked, selected, document, text, reviewing)
         /\ ShowsAfter(i, list, asked, selected, document, text, reviewing)
  BY <1>1, <1>2, MemoryTaken
<1> USE DEF ShowsAfter
<1>5. /\ IsMemory(ui') /\ ui'.list = list /\ ui'.asked = asked /\ ui'.selected = selected
      /\ ui'.document = document /\ ui'.text = text /\ ui'.reviewing = reviewing
  BY <1>4, MemoryFields
<1>6. \A j \in 1 .. Len(sent) : Keeps(j) /\ (Awaited(j)' <=> Awaited(j) /\ j # i) /\ (Answered(j)' <=> Answered(j) /\ j # i)
  BY <1>1, <1>3 DEF Untouched, Awaited, Answered
<1>7. list \in [1 .. 2 -> Doc] /\ selected \in 0 .. 2 /\ document \in Doc /\ text \in Nat
  <2>1. list \in [1 .. 2 -> Doc]
    BY <1>1, <1>2, <1>4 DEF MemoryShape, MemoryRequest
  <2>2. selected \in 0 .. 2 /\ document \in Doc
    BY <1>1, <1>2, <1>4 DEF MemoryShape, MemoryRequest
  <2>3. text \in Nat
    BY <1>1, <1>2, <1>4 DEF MemoryShape, MemoryRequest, Doc
  <2>4. QED
    BY <2>1, <2>2, <2>3
<1>8. reviewing \in BOOLEAN
  BY <1>1, <1>4 DEF MemoryShape
<1>9. MemoryShape'
  <2>1. ui'.reviewing \in BOOLEAN
    BY <1>5, <1>8
  <2>2. QED
    BY <1>1, <1>3, <1>4, <1>5, <1>6, <1>7, <2>1 DEF MemoryShape, InArchive, Keeps
<1>10. ASSUME NEW j \in 1 .. Len(sent') PROVE MemoryRequest(j)'
  <2>1. CASE j # i
    BY <1>1, <1>3, <2>1 DEF MemoryRequest, Untouched, Keeps, Answered, File, Mark
  <2>2. CASE j = i
    BY <1>1, <1>3, <2>2 DEF MemoryRequest, Keeps, Answered, File, Mark
  <2>3. QED
    BY <2>1, <2>2
<1>11. OneReview'
  <2>1. ASSUME NEW j \in 1 .. Len(sent'), Awaited(j)', sent'[j].kind = "review"
        PROVE  ui'.reviewing
    <3>1. j \in 1 .. Len(sent) /\ j # i /\ Awaited(j) /\ sent[j].kind = "review"
      BY <2>1, <1>3, <1>6 DEF Keeps
    <3>2. ui.reviewing /\ sent[i].kind # "review"
      BY <3>1, <1>1 DEF OneReview
    <3>3. QED
      BY <3>2, <1>4, <1>5
  <2>2. QED
    BY <2>1, <1>1, <1>3, <1>6 DEF OneReview, Keeps
(* Whatever is on its way with this one.                                    *)
<1>12. ASSUME ~untimely', NEW j \in 1 .. Len(sent), j # i, Awaited(j)
       PROVE  /\ sent[i].kind # "review" /\ sent[j].kind # "review"
              /\ sent[i].kind = "open" => sent[j].kind # "remove"
  BY <1>1, <1>12 DEF MemoryInv, MemoryTurns, Together
<1>13. ASSUME ~untimely' PROVE MemoryTurns'
  <2>1. MemoryTurns /\ MemoryTurn(i)
    BY <1>1, <1>13 DEF MemoryInv, MemoryTurns
  <2>2. ASSUME NEW j \in 1 .. Len(sent'), NEW k \in 1 .. Len(sent'), Awaited(j)', Awaited(k)', j # k
        PROVE  Together(j, k)'
    BY <2>1, <2>2, <1>3, <1>6 DEF MemoryTurns, Together, Keeps
  <2>3. ASSUME NEW j \in 1 .. Len(sent'), Awaited(j)' PROVE MemoryTurn(j)'
    <3>1. j \in 1 .. Len(sent) /\ j # i /\ Awaited(j) /\ Untouched(j)
      BY <2>3, <1>3, <1>6
    <3>2. MemoryTurn(j) /\ sent[j].kind # "review"
      BY <3>1, <2>1, <1>12, <1>13 DEF MemoryTurns
    <3>3. sent[j].kind = "remove" => selected = ui.selected
      BY <3>1, <1>12, <1>13, <1>4
    <3>4. QED
      BY <3>1, <3>2, <3>3, <1>5 DEF MemoryTurn, Untouched, Keeps, File, Mark
  <2>4. selected # 0 => text = document.version
    <3>1. CASE sent[i].kind = "review" /\ Answered(i)
      <4>1. sent[i].said.version = Mark(i) /\ File(i) = ui.selected /\ Mark(i) = ui.document.version
        BY <3>1, <2>1, <1>2 DEF MemoryTurn, MemoryRequest
      <4>2. QED
        BY <4>1, <3>1, <2>1, <1>4 DEF MemoryTurns
    <3>2. CASE ~(sent[i].kind = "review" /\ Answered(i))
      BY <3>2, <2>1, <1>4 DEF MemoryTurns
    <3>3. QED
      BY <3>1, <3>2
  <2>5. QED
    BY <2>2, <2>3, <2>4, <1>5 DEF MemoryTurns
<1>14. ASSUME ~untimely', losses' + elsewhere' = 0 PROVE MemoryListed'
  <2>1. MemoryTurns /\ MemoryListed /\ MemoryTurn(i) /\ (Answered(i) => MemoryAnswer(i))
    BY <1>1, <1>14, NothingMeanwhile DEF MemoryInv, MemoryTurns, MemoryListed
  <2>2. (SomeRemoved' <=> SomeRemoved) /\ \A d \in 1 .. 2 : Removed(d)' <=> Removed(d)
    <3>1. Same("remove")
      BY <1>2, <1>3, <1>6 DEF Same
    <3>2. QED
      BY <3>1, RemovalsStay
  <2>3. ASSUME NEW j \in 1 .. Len(sent'), Answered(j)' PROVE MemoryAnswer(j)'
    <3>1. j \in 1 .. Len(sent) /\ j # i /\ Answered(j) /\ Awaited(j) /\ Untouched(j) /\ MemoryAnswer(j)
      BY <2>1, <2>3, <1>1, <1>3, <1>6 DEF MemoryListed, Answered, Awaited
    <3>2. sent[j].kind # "review"
      BY <3>1, <1>12, <1>14
    <3>3. QED
      BY <3>1, <3>2, <2>2, <1>1, <1>4, <1>5 DEF MemoryAnswer, Untouched, Keeps, InArchive
  <2>4. ASSUME ~Awaited(ui.asked)', ~SomeRemoved', NEW d \in 1 .. 2
        PROVE  list[d] = there[d] \/ ReviewAnswered(d)'
    <3>1. ~SomeRemoved /\ ui.asked \in 1 .. Len(sent) /\ sent[ui.asked].kind = "list"
      BY <2>2, <2>4, <1>1 DEF MemoryShape
    <3>2. CASE sent[i].kind = "review"
      <4>1. \A j \in 1 .. Len(sent) : j # i => ~Awaited(j)
        BY <3>2, <1>12, <1>14
      <4>2. \A j \in 1 .. Len(sent) : j # i => ~Answered(j)
        BY <4>1, Indices DEF Awaited, Answered
      <4>3. ~Awaited(ui.asked)
        BY <3>1, <3>2, <4>1
      <4>4. ui.list[d] = there[d] \/ ReviewAnswered(d)
        BY <2>1, <3>1, <4>3 DEF MemoryListed
      <4>5. ReviewAnswered(d) => Answered(i) /\ File(i) = d
        BY <4>2 DEF ReviewAnswered
      <4>6. File(i) \in 1 .. 2 /\ ui.list \in [1 .. 2 -> Doc]
        BY <1>1, <1>2, <3>2 DEF MemoryRequest, MemoryShape
      <4>7. CASE Answered(i) /\ File(i) = d
        <5>1. ui.list[d] # Unread /\ sent[i].said = there[d]
          BY <4>7, <3>2, <2>1 DEF MemoryAnswer
        <5>2. list = [ui.list EXCEPT ![d] = there[d]]
          BY <5>1, <4>7, <3>2, <1>4
        <5>3. QED
          BY <5>2, <4>6
      <4>8. CASE ~(Answered(i) /\ File(i) = d)
        <5>1. list[d] = ui.list[d]
          BY <4>6, <4>8, <3>2, <1>4
        <5>2. QED
          BY <5>1, <4>4, <4>5, <4>8
      <4>9. QED
        BY <4>7, <4>8
    <3>3. CASE sent[i].kind # "review"
      <4>1. Same("review")
        BY <3>3, <1>3, <1>6 DEF Same
      <4>2. ReviewAnswered(d)' <=> ReviewAnswered(d)
        BY <4>1, ReviewsStay
      <4>3. CASE ui.asked = i
        <5>1. Answered(i)
          BY <4>3, <3>1, <2>1, <1>1 DEF MemoryTurn, Answered
        <5>2. sent[i].said = there
          BY <5>1, <4>3, <3>1, <2>1 DEF MemoryAnswer
        <5>3. QED
          BY <5>1, <5>2, <4>3, <3>1, <1>4
      <4>4. CASE ui.asked # i
        <5>1. ~Awaited(ui.asked)
          BY <4>4, <3>1, <2>4, <1>4, <1>5, <1>6
        <5>2. ui.list[d] = there[d] \/ ReviewAnswered(d)
          BY <5>1, <3>1, <2>1 DEF MemoryListed
        <5>3. list = ui.list
          BY <4>4, <3>3, <1>4
        <5>4. QED
          BY <5>2, <5>3, <4>2
      <4>5. QED
        BY <4>3, <4>4
    <3>4. QED
      BY <3>2, <3>3
  <2>5. selected # 0 => InArchive(selected) \/ Removed(selected)'
    <3>1. CASE sent[i].kind = "open" /\ Answered(i)
      BY <3>1, <2>1, <1>4 DEF MemoryAnswer
    <3>2. CASE ~(sent[i].kind = "open" /\ Answered(i))
      <4>1. selected = ui.selected
        BY <3>2, <1>4
      <4>2. QED
        BY <4>1, <2>1, <2>2, <1>7 DEF MemoryListed
    <3>3. QED
      BY <3>1, <3>2
  <2>6. (ui.selected # 0 => InArchive(ui.selected) \/ Removed(ui.selected))'
    <3>1. CASE selected = 0
      BY <3>1, <1>5
    <3>2. CASE InArchive(selected)
      BY <3>2, <1>1, <1>5 DEF InArchive
    <3>3. CASE Removed(selected)'
      BY <3>3, <1>5 DEF Removed
    <3>4. QED
      BY <3>1, <3>2, <3>3, <2>5
  <2>7. QED
    BY <2>3, <2>4, <2>6, <1>1, <1>5 DEF MemoryListed
<1>15. QED
  BY <1>9, <1>10, <1>11, <1>13, <1>14 DEF MemoryInv

(* A removal that succeeded makes the screen ask for the list again.        *)
LEMMA MemoryArrivedAgain ==
  ASSUME RequestsInv, MemoryInv, [PagesNext]_pagesVars, page = "memory",
         NEW i \in 1 .. Len(sent), Arrive(i), ListAgain(i)
  PROVE  MemoryInv'
<1>1. /\ page' = "memory" /\ Len(sent) \in Nat /\ untimely' = untimely /\ there' = there
      /\ MemoryShape /\ (\A j \in 1 .. Len(sent) : MemoryRequest(j)) /\ OneReview
      /\ sent[i].kind = "remove" /\ Answered(i) /\ Awaited(i)
  <2>1. page' = "memory" /\ untimely' = untimely /\ there' = there
    BY PageStays DEF Arrive, OnPage
  <2>2. sent[i].kind = "remove" /\ Answered(i) /\ sent[i].state \in {"answered", "failed"}
    BY DEF Arrive, ListAgain
  <2>3. QED
    BY <2>1, <2>2, Indices DEF MemoryInv, Awaited
<1>2. PICK n : n = Len(sent) + 1
  OBVIOUS
<1>3. /\ Len(sent') = n /\ \A j \in 1 .. Len(sent) : j # i => Untouched(j)
      /\ Keeps(i) /\ sent'[i].state = "over"
      /\ sent'[n].kind = "list" /\ sent'[n].state = "sent"
  BY <1>2, ArrivedAndListed DEF IsNew
<1>4. PICK selected :
         /\ ui' = MemoryRecord(ui.list, n, selected, ui.document, ui.text, ui.reviewing)
         /\ IF Mark(i) = File(i) THEN selected = 0 ELSE selected = ui.selected
  <2>1. PICK list, asked, selected, document, text, reviewing :
           /\ ui' = MemoryRecord(list, asked, selected, document, text, reviewing)
           /\ ShowsAfter(i, list, asked, selected, document, text, reviewing)
    BY <1>1, MemoryTaken
  <2>2. /\ list = ui.list /\ asked = n /\ document = ui.document /\ text = ui.text /\ reviewing = ui.reviewing
        /\ IF Mark(i) = File(i) THEN selected = 0 ELSE selected = ui.selected
    BY <2>1, <1>1, <1>2 DEF ShowsAfter
  <2>3. QED
    BY <2>1, <2>2
<1>5. /\ IsMemory(ui') /\ ui'.list = ui.list /\ ui'.asked = n /\ ui'.selected = selected
      /\ ui'.document = ui.document /\ ui'.text = ui.text /\ ui'.reviewing = ui.reviewing
  BY <1>4, MemoryFields
<1>6. \A j \in 1 .. Len(sent') : j \in 1 .. Len(sent) \/ j = n
  BY <1>1, <1>2, <1>3
<1>7. n \notin 1 .. Len(sent) /\ n \in 1 .. Len(sent') /\ \A j \in 1 .. Len(sent) : j \in 1 .. Len(sent')
  BY <1>1, <1>2, <1>3
<1>8. \A j \in 1 .. Len(sent) : Keeps(j) /\ (Awaited(j)' <=> Awaited(j) /\ j # i) /\ (Answered(j)' <=> Answered(j) /\ j # i)
  BY <1>1, <1>3 DEF Untouched, Awaited, Answered
<1>9. MemoryShape'
  <2>1. ui'.reviewing \in BOOLEAN
    BY <1>1, <1>5 DEF MemoryShape
  <2>2. selected \in 0 .. 2
    BY <1>1, <1>4 DEF MemoryShape
  <2>3. QED
    BY <1>1, <1>3, <1>5, <1>7, <2>1, <2>2 DEF MemoryShape, InArchive
<1>10. ASSUME NEW j \in 1 .. Len(sent') PROVE MemoryRequest(j)'
  <2>1. CASE j \in 1 .. Len(sent) /\ j # i
    BY <1>1, <1>3, <2>1 DEF MemoryRequest, Untouched, Keeps, Answered, File, Mark
  <2>2. CASE j = i
    BY <1>1, <1>3, <2>2 DEF MemoryRequest, Keeps, Answered, File, Mark
  <2>3. CASE j = n
    BY <1>3, <2>3 DEF MemoryRequest, Answered
  <2>4. QED
    BY <1>6, <2>1, <2>2, <2>3
<1>11. OneReview'
  <2>1. \A j \in 1 .. Len(sent') : Awaited(j)' /\ sent'[j].kind = "review" =>
           j \in 1 .. Len(sent) /\ Awaited(j) /\ sent[j].kind = "review"
    BY <1>3, <1>6, <1>8 DEF Keeps
  <2>2. ui'.reviewing <=> ui.reviewing
    BY <1>5
  <2>3. QED
    BY <2>1, <2>2, <1>1 DEF OneReview
<1>12. ASSUME ~untimely', NEW j \in 1 .. Len(sent), Awaited(j)
       PROVE  sent[j].kind \notin {"review", "open"}
  BY <1>1, <1>12 DEF MemoryInv, MemoryTurns, Together
<1>13. ASSUME ~untimely' PROVE MemoryTurns'
  <2>1. MemoryTurns
    BY <1>1, <1>13 DEF MemoryInv
  <2>2. ASSUME NEW j \in 1 .. Len(sent'), Awaited(j)' PROVE sent'[j].kind \notin {"review", "open"} /\ MemoryTurn(j)'
    <3>1. CASE j \in 1 .. Len(sent)
      <4>1. j # i /\ Awaited(j) /\ Untouched(j) /\ MemoryTurn(j) /\ sent[j].kind \notin {"review", "open"}
        BY <3>1, <2>1, <2>2, <1>3, <1>8, <1>12, <1>13 DEF MemoryTurns
      <4>2. QED
        BY <4>1, <1>4, <1>5 DEF MemoryTurn, Untouched, Keeps, File, Mark
    <3>2. CASE j = n
      BY <3>2, <1>3 DEF MemoryTurn
    <3>3. QED
      BY <1>6, <3>1, <3>2
  <2>3. selected # 0 => ui.text = ui.document.version
    BY <2>1, <1>4 DEF MemoryTurns
  <2>4. QED
    BY <2>2, <2>3, <1>5 DEF MemoryTurns, Together
<1>14. ASSUME ~untimely', losses' + elsewhere' = 0 PROVE MemoryListed'
  <2>1. MemoryListed /\ MemoryTurn(i)
    BY <1>1, <1>14, NothingMeanwhile DEF MemoryInv, MemoryTurns
  <2>2. ASSUME NEW j \in 1 .. Len(sent'), Answered(j)' PROVE MemoryAnswer(j)'
    <3>1. j \in 1 .. Len(sent) /\ Awaited(j)
      BY <2>2, <1>1, <1>3, <1>6, <1>8 DEF Answered, Awaited
    <3>2. sent'[j].kind \notin {"review", "open"} /\ j # n
      BY <3>1, <1>7, <1>8, <1>12, <1>14 DEF Keeps
    <3>3. QED
      BY <3>2, <1>5 DEF MemoryAnswer
  <2>3. Awaited(ui.asked)'
    BY <1>1, <1>2, <1>3, <1>5 DEF Awaited
  <2>4. ASSUME selected # 0 PROVE InArchive(selected) \/ Removed(selected)'
    <3>1. selected = ui.selected /\ File(i) # selected
      BY <2>1, <2>4, <1>1, <1>4 DEF MemoryTurn
    <3>2. ASSUME Removed(selected) PROVE Removed(selected)'
      <4>1. PICK j \in 1 .. Len(sent) : sent[j].kind = "remove" /\ Answered(j) /\ File(j) = selected
        BY <3>2 DEF Removed
      <4>2. j \in 1 .. Len(sent') /\ sent'[j].kind = "remove" /\ Answered(j)' /\ File(j)' = selected
        BY <4>1, <3>1, <1>7, <1>8 DEF Keeps, File
      <4>3. QED
        BY <4>2 DEF Removed
    <3>3. QED
      BY <3>1, <3>2, <2>1, <2>4 DEF MemoryListed
  <2>5. (ui.selected # 0 => InArchive(ui.selected) \/ Removed(ui.selected))'
    <3>1. CASE selected = 0
      BY <3>1, <1>5
    <3>2. CASE InArchive(selected)
      BY <3>2, <1>1, <1>5 DEF InArchive
    <3>3. CASE Removed(selected)'
      BY <3>3, <1>5 DEF Removed
    <3>4. QED
      BY <3>1, <3>2, <3>3, <2>4
  <2>6. QED
    BY <2>2, <2>3, <2>5 DEF MemoryListed
<1>15. QED
  BY <1>9, <1>10, <1>11, <1>13, <1>14 DEF MemoryInv

LEMMA MemoryNext ==
  ASSUME RequestsInv, MemoryInv, [PagesNext]_pagesVars, page = "memory"
  PROVE  MemoryInv'
<1>0. page' = "memory" /\ MemoryShape /\ OneReview /\ (\A i \in 1 .. Len(sent) : MemoryRequest(i))
  BY PageStays DEF MemoryInv
<1>1. CASE UNCHANGED pagesVars
  BY <1>1 DEF MemoryInv, MemoryShape, MemoryRequest, OneReview, MemoryTurns, MemoryTurn, Together,
     MemoryListed, MemoryAnswer, SomeRemoved, Removed, ReviewAnswered, Answered, Awaited, InArchive, File, Mark
<1>2. ui = MemoryRecord(ui.list, ui.asked, ui.selected, ui.document, ui.text, ui.reviewing)
  BY <1>0 DEF MemoryShape, IsMemory
<1>3. ASSUME NEW d \in 1 .. 2, OpenDocument(d)
      PROVE  MemoryInv'
  <2>1. /\ Posts("open", d) /\ ui' = ui /\ there' = there
        /\ untimely' = (untimely \/ InFlight("review") \/ InFlight("remove"))
    BY <1>3 DEF OpenDocument, OnPage
  <2>2. ui.reviewing \in BOOLEAN
    BY <1>0 DEF MemoryShape
  <2>3. QED
    BY <1>2, <2>1, <2>2, MemoryPosted
<1>4. CASE ReviewDocument
  <2>1. PICK arg : arg = <<ui.selected, ui.document.version>>
    OBVIOUS
  <2>2. /\ Posts("review", arg) /\ ui' = [ui EXCEPT !.reviewing = TRUE] /\ there' = there
        /\ untimely' = (untimely \/ InFlight("open") \/ InFlight("list") \/ InFlight("remove"))
        /\ ui.selected # 0 /\ ~ui.reviewing
    BY <1>4, <2>1 DEF ReviewDocument, OffersReview, OnPage
  <2>3. ui' = MemoryRecord(ui.list, ui.asked, ui.selected, ui.document, ui.text, TRUE)
    BY <1>2, <2>2 DEF MemoryRecord
  <2>4. arg[1] = ui.selected /\ arg[2] = ui.document.version /\ arg[1] \in 1 .. 2 /\ arg[2] \in Nat
    BY <2>1, <2>2, <1>0 DEF MemoryShape, Doc
  <2>5. ASSUME ~untimely' PROVE AllQuiet
    BY <2>2, <2>5, <1>0 DEF OneReview, MemoryRequest, AllQuiet, InFlight
  <2>6. QED
    BY <2>2, <2>3, <2>4, <2>5, MemoryPosted
<1>5. ASSUME NEW d \in 1 .. 2, RemoveMemory(d)
      PROVE  MemoryInv'
  <2>1. PICK arg : arg = <<d, ui.selected>>
    OBVIOUS
  <2>2. /\ Posts("remove", arg) /\ ui' = ui /\ there' = there
        /\ untimely' = (untimely \/ InFlight("open") \/ InFlight("review"))
    BY <1>5, <2>1 DEF RemoveMemory, OnPage
  <2>3. arg[1] \in 1 .. 2 /\ arg[2] \in 0 .. 2 /\ arg[2] = ui.selected
    BY <2>1, <1>0 DEF MemoryShape
  <2>4. ui.reviewing \in BOOLEAN
    BY <1>0 DEF MemoryShape
  <2>5. QED
    BY <1>2, <2>2, <2>3, <2>4, MemoryPosted
<1>6. CASE Elsewhere /\ CapturedAgain(1)
  <2>1. /\ sent' = sent /\ elsewhere' = elsewhere + 1 /\ ui' = ui
        /\ there' = [there EXCEPT ![1].version = @ + 1] /\ there[1].version # 0
    BY <1>6 DEF Elsewhere, CapturedAgain, InArchive
  <2>2. untimely' = untimely
    BY <1>6 DEF Elsewhere
  <2>3. losses' + elsewhere' # 0
    BY <2>1, CountersNext DEF RequestsInv
  <2>4. there' \in [1 .. 2 -> Doc] /\ there'[1].version = there[1].version + 1 /\ there'[2] = there[2]
    <3>1. there \in [1 .. 2 -> Doc] /\ there[1] \in Doc
      BY <1>0 DEF MemoryShape
    <3>2. PICK doc : doc = [there[1] EXCEPT !.version = there[1].version + 1]
      OBVIOUS
    <3>3. doc \in Doc /\ doc.version = there[1].version + 1
      BY <3>1, <3>2 DEF Doc
    <3>4. there' = [there EXCEPT ![1] = doc]
      BY <2>1, <3>1, <3>2
    <3>5. QED
      BY <3>1, <3>3, <3>4
  <2>5. there[1].version \in Nat
    BY <1>0 DEF MemoryShape, Doc
  <2>6. (\A d \in 1 .. 2 : InArchive(d) \/ there[d] = Unread)'
    <3>1. (InArchive(1) /\ (InArchive(2) \/ there[2] = Unread))'
      BY <2>1, <2>4, <2>5, <1>0 DEF MemoryShape, InArchive
    <3>2. QED
      BY <3>1
  <2>7. MemoryShape'
    BY <2>1, <2>4, <2>6, <1>0 DEF MemoryShape
  <2>8. OneReview' /\ \A i \in 1 .. Len(sent') : MemoryRequest(i)'
    BY <2>1, <1>0 DEF OneReview, MemoryRequest, Awaited, Answered, File, Mark
  <2>9. MemoryTurns' <=> MemoryTurns
    BY <2>1 DEF MemoryTurns, MemoryTurn, Together, Awaited, File, Mark
  <2>10. QED
    BY <2>2, <2>3, <2>7, <2>8, <2>9, <1>0 DEF MemoryInv
<1>7. QED
  BY <1>0, <1>1, <1>3, <1>4, <1>5, <1>6, StepsOf, MemoryServed, MemoryLost, MemoryArrived, MemoryArrivedAgain

-----------------------------------------------------------------------------
(* All the screens.                                                         *)

LEMMA OneSent ==
  ASSUME NEW kind, NEW arg, sent = <<Request(kind, arg)>>
  PROVE  /\ Len(sent) = 1 /\ IsSequence(sent) /\ IsRequest(sent[1])
         /\ sent[1].kind = kind /\ sent[1].arg = arg /\ sent[1].state = "sent" /\ sent[1].said = 0
<1>1. PICK r : r = Record(kind, arg, "sent", 0)
  OBVIOUS
<1>2. sent = <<r>>
  BY <1>1 DEF Request, Record
<1>3. Len(sent) = 1 /\ sent[1] = r /\ sent \in Seq({r})
  BY <1>2
<1>4. r.kind = kind /\ r.arg = arg /\ r.state = "sent" /\ r.said = 0
  BY <1>1, RecordFields
<1>5. IsRequest(r)
  BY <1>1, <1>4 DEF IsRequest
<1>6. QED
  BY <1>3, <1>4, <1>5, IsSequenceOf

LEMMA NoneSent ==
  ASSUME sent = <<>>
  PROVE  Len(sent) = 0 /\ IsSequence(sent) /\ \A i \in 1 .. Len(sent) : FALSE
<1>1. Len(sent) = 0 /\ sent \in Seq({})
  OBVIOUS
<1>2. IsSequence(sent)
  BY <1>1 DEF IsSequence
<1>3. 1 .. Len(sent) = {}
  BY <1>1
<1>4. QED
  BY <1>1, <1>2, <1>3

LEMMA OlderUsable ==
  ASSUME NEW stored \in OlderLayouts
  PROVE  Usable(LoadLayout(stored))
<1>1. CASE stored = {}
  BY <1>1, LoadedUsable
<1>2. CASE stored # {}
  <2>1. PICK x \in {0, 1, Columns + 1}, w \in {1, MinWidth, Columns + 1}, h \in {0, MinHeight} :
           stored = {[id |-> "gone", x |-> 1, y |-> 1, width |-> 1, height |-> 1],
                     [id |-> "machines", x |-> x, y |-> 1, width |-> w, height |-> h]}
    BY <1>2 DEF OlderLayouts
  <2>2. PICK tile, gone : tile = [id |-> "machines", x |-> x, y |-> 1, width |-> w, height |-> h]
                          /\ gone = [id |-> "gone", x |-> 1, y |-> 1, width |-> 1, height |-> 1]
    OBVIOUS
  <2>3. stored = {gone, tile} /\ tile.id = "machines" /\ gone.id = "gone"
    BY <2>1, <2>2
  <2>4. x \in Int /\ w \in Int /\ h \in Int
    BY ConstantsHold DEF Constants
  <2>5. tile \in Tile
    BY <2>2, <2>4 DEF Tile, Known
  <2>6. QED
    BY <2>3, <2>5, LoadedUsable DEF Known
<1>3. QED
  BY <1>1, <1>2

LEMMA PagesInitInv ==
  ASSUME PagesInit
  PROVE  PagesInv
<1> USE DEF Awaited, Answered, AllQuiet, AtMostOneAwaited
<1>1. losses \in Nat /\ elsewhere \in Nat /\ untimely \in BOOLEAN
  <2>1. losses \in Nat /\ elsewhere \in Nat
    BY PagesAssumption DEF PagesInit
  <2>2. untimely \in BOOLEAN
    BY Zenon DEF PagesInit
  <2>3. QED
    BY <2>1, <2>2
<1>2. ASSUME page = "search" PROVE PagesInv
  <2>1. ui = SearchStart /\ sent = <<>>
    BY <1>2 DEF PagesInit
  <2>2. ui = SearchRecord("none", FALSE, "none", FALSE, 0)
    BY <2>1 DEF SearchStart, SearchRecord
  <2>3. SearchInv
    BY <2>1, <2>2, NoneSent DEF SearchInv, IsSearch, SearchRecord, SearchIsOfThePhrase, OnScreen
  <2>4. RequestsInv
    BY <1>1, <2>1, NoneSent DEF RequestsInv
  <2>5. QED
    BY <1>2, <2>3, <2>4 DEF PagesInv, PinInv, ShareInv, ConvertInv, MemoryInv, TeamsInv, SettingsInv, ImportInv, TilesInv
<1>3. ASSUME page = "pin" PROVE PagesInv
  <2>1. ui = PinStart /\ sent = <<Request("list", 0)>> /\ \E p \in {{}, {1}} : there = [pins |-> p, next |-> 2]
    BY <1>3 DEF PagesInit
  <2>2. /\ ui = PinRecord(0, FALSE) /\ \E p \in {{}, {1}} : there = PinsRecord(p, 2)
    BY <2>1 DEF PinStart, PinRecord, PinsRecord
  <2>3. /\ Len(sent) = 1 /\ IsSequence(sent) /\ IsRequest(sent[1])
        /\ sent[1].kind = "list" /\ sent[1].state = "sent"
    BY <2>1, OneSent
  <2>4. IsPin(ui) /\ ui.busy \in BOOLEAN /\ ui.pin = 0
    BY <2>2 DEF IsPin, PinRecord
  <2>5. IsPins(there) /\ there.next = 2 /\ there.pins \in {{}, {1}}
    BY <2>2 DEF IsPins, PinsRecord
  <2>6. PinInv
    BY <2>3, <2>4, <2>5 DEF PinInv, PinShape, PinAgrees, PinUnanswered
  <2>7. RequestsInv
    BY <1>1, <2>3 DEF RequestsInv
  <2>8. QED
    BY <1>3, <2>6, <2>7 DEF PagesInv, SearchInv, ShareInv, ConvertInv, MemoryInv, TeamsInv, SettingsInv, ImportInv, TilesInv
<1>4. ASSUME page = "share" PROVE PagesInv
  <2>1. ui = ShareStart /\ sent = <<>>
    BY <1>4 DEF PagesInit
  <2>2. ui = ShareRecord(FALSE, 0, 0, FALSE, 0)
    BY <2>1 DEF ShareStart, ShareRecord
  <2>3. /\ IsShare(ui) /\ ui.open \in BOOLEAN /\ ~ui.open
        /\ ui.review = 0 /\ ui.link = 0 /\ ui.opening = 0
    BY <2>2 DEF IsShare, ShareRecord
  <2>4. ShareInv
    BY <2>1, <2>3, NoneSent DEF ShareInv, ShareShape, ShareAgrees
  <2>5. RequestsInv
    BY <1>1, <2>1, NoneSent DEF RequestsInv
  <2>6. QED
    BY <1>4, <2>4, <2>5 DEF PagesInv, SearchInv, PinInv, ConvertInv, MemoryInv, TeamsInv, SettingsInv, ImportInv, TilesInv
<1>5. ASSUME page = "convert" PROVE PagesInv
  <2>1. ui = ConvertStart /\ sent = <<>> /\ there = <<>>
    BY <1>5 DEF PagesInit
  <2>2. ui = ConvertRecord(0, "none", FALSE, 0, FALSE)
    BY <2>1 DEF ConvertStart, ConvertRecord
  <2>3. /\ IsConvert(ui) /\ ui.job = 0 /\ ui.status = "none" /\ ui.active = 0
        /\ ui.timer \in BOOLEAN /\ ~ui.timer
    BY <2>2 DEF IsConvert, ConvertRecord
  <2>4. there \in Seq(JobStatus) /\ Len(there) = 0
    BY <2>1
  <2>5. ConvertShape
    BY <2>1, <2>3, <2>4, NoneSent DEF ConvertShape
  <2>6. ConvertInv
    BY <2>1, <2>3, <2>5, NoneSent DEF ConvertInv, JobsDiffer, StillFollowed, Unsettled
  <2>7. RequestsInv
    BY <1>1, <2>1, NoneSent DEF RequestsInv
  <2>8. QED
    BY <1>5, <2>6, <2>7 DEF PagesInv, SearchInv, PinInv, ShareInv, MemoryInv, TeamsInv, SettingsInv, ImportInv, TilesInv
<1>6. ASSUME page = "memory" PROVE PagesInv
  <2>1. /\ ui = MemoryStart /\ sent = <<Request("list", 0)>>
        /\ there = <<[version |-> 1, reviewed |-> 0], [version |-> 1, reviewed |-> 1]>>
    BY <1>6 DEF PagesInit
  <2>2. PICK list : list = NotListed
    OBVIOUS
  <2>3. ui = MemoryRecord(list, 1, 0, Unread, 0, FALSE)
    BY <2>1, <2>2 DEF MemoryStart, MemoryRecord
  <2>4. /\ IsMemory(ui) /\ ui.list = list /\ ui.asked = 1 /\ ui.selected = 0 /\ ui.document = Unread
        /\ ui.text = 0 /\ ui.reviewing \in BOOLEAN
    BY <2>3 DEF IsMemory, MemoryRecord
  <2>5. Unread \in Doc /\ [version |-> 1, reviewed |-> 0] \in Doc /\ [version |-> 1, reviewed |-> 1] \in Doc
    BY DEF Unread, Doc
  <2>6. list \in [1 .. 2 -> Doc] /\ there \in [1 .. 2 -> Doc]
    BY <2>1, <2>2, <2>5 DEF NotListed
  <2>7. \A d \in 1 .. 2 : there[d].version = 1
    BY <2>1
  <2>8. /\ Len(sent) = 1 /\ IsSequence(sent) /\ IsRequest(sent[1])
        /\ sent[1].kind = "list" /\ sent[1].state = "sent"
    BY <2>1, OneSent
  <2>9. MemoryShape
    BY <2>4, <2>5, <2>6, <2>7, <2>8 DEF MemoryShape, InArchive
  <2>10. (\A i \in 1 .. Len(sent) : MemoryRequest(i)) /\ OneReview /\ MemoryTurns
    BY <2>4, <2>8 DEF MemoryRequest, OneReview, MemoryTurns, MemoryTurn, Together
  <2>11. MemoryListed
    BY <2>4, <2>8 DEF MemoryListed
  <2>12. MemoryInv
    BY <2>9, <2>10, <2>11 DEF MemoryInv
  <2>13. RequestsInv
    BY <1>1, <2>8 DEF RequestsInv
  <2>14. QED
    BY <1>6, <2>12, <2>13 DEF PagesInv, SearchInv, PinInv, ShareInv, ConvertInv, TeamsInv, SettingsInv, ImportInv, TilesInv
<1>7. ASSUME page = "teams" PROVE PagesInv
  <2>1. ui = TeamsStart /\ sent = <<Request("invitations", 0), Request("teams", 0)>>
    BY <1>7 DEF PagesInit
  <2>2. PICK r, s : r = Record("invitations", 0, "sent", 0) /\ s = Record("teams", 0, "sent", 0)
    OBVIOUS
  <2>3. sent = <<r, s>>
    BY <2>1, <2>2 DEF Request, Record
  <2>4. Len(sent) = 2 /\ sent[1] = r /\ sent[2] = s /\ sent \in Seq({r, s})
    BY <2>3
  <2>5. /\ r.kind = "invitations" /\ r.arg = 0 /\ r.state = "sent" /\ r.said = 0
        /\ s.kind = "teams" /\ s.arg = 0 /\ s.state = "sent" /\ s.said = 0
    BY <2>2, RecordFields
  <2>6. IsRequest(r) /\ IsRequest(s)
    BY <2>2, <2>5 DEF IsRequest
  <2>7. ui = TeamsRecord({}, {}, <<1, 2>>, FALSE)
    BY <2>1 DEF TeamsStart, TeamsRecord
  <2>8. IsTeams(ui) /\ ui.asked = <<1, 2>>
    BY <2>7 DEF IsTeams, TeamsRecord
  <2>9. ui.asked[1] = 1 /\ ui.asked[2] = 2 /\ ui.asked \in (1 .. Len(sent)) \X (1 .. Len(sent))
    BY <2>4, <2>8
  <2>10. TeamsInv
    BY <2>4, <2>5, <2>8, <2>9 DEF TeamsInv, TeamsShape, TeamsAgree, ListTrue
  <2>11. RequestsInv
    BY <1>1, <2>4, <2>6, IsSequenceOf DEF RequestsInv
  <2>12. QED
    BY <1>7, <2>10, <2>11 DEF PagesInv, SearchInv, PinInv, ShareInv, ConvertInv, MemoryInv, SettingsInv, ImportInv, TilesInv
<1>8. ASSUME page = "settings" PROVE PagesInv
  <2>1. ui = SettingsStart /\ sent = <<Request("load", 0)>>
    BY <1>8 DEF PagesInit
  <2>2. ui = SettingsRecord(<<>>, FALSE)
    BY <2>1 DEF SettingsStart, SettingsRecord
  <2>3. IsSettings(ui) /\ ui.shown = <<>>
    BY <2>2 DEF IsSettings, SettingsRecord
  <2>4. /\ Len(sent) = 1 /\ IsSequence(sent) /\ IsRequest(sent[1])
        /\ sent[1].kind = "load" /\ sent[1].state = "sent"
    BY <2>1, OneSent
  <2>5. SettingsInv
    BY <2>3, <2>4 DEF SettingsInv, SettingsShape, SettingsAgree
  <2>6. RequestsInv
    BY <1>1, <2>4 DEF RequestsInv
  <2>7. QED
    BY <1>8, <2>5, <2>6 DEF PagesInv, SearchInv, PinInv, ShareInv, ConvertInv, MemoryInv, TeamsInv, ImportInv, TilesInv
<1>9. ASSUME page = "import" PROVE PagesInv
  <2>1. /\ ui = ImportStart /\ sent = <<>>
        /\ there \in {[artifact |-> "none", sessions |-> {"old"}], [artifact |-> "parsed", sessions |-> {"old", "ours"}]}
    BY <1>9 DEF PagesInit
  <2>2. ui = ImportRecord("idle", {}, 0, "none")
    BY <2>1 DEF ImportStart, ImportRecord
  <2>3. IsImport(ui) /\ ui.step = "idle"
    BY <2>2 DEF IsImport, ImportRecord
  <2>4. there \in {ArchiveRecord("none", {"old"}), ArchiveRecord("parsed", {"old", "ours"})}
    BY <2>1 DEF ArchiveRecord
  <2>5. /\ IsArchive(there)
        /\ \/ there.artifact = "none" /\ there.sessions = {"old"}
           \/ there.artifact = "parsed" /\ there.sessions = {"old", "ours"}
    BY <2>4 DEF IsArchive, ArchiveRecord
  <2>6. ImportShape /\ ImportArchive
    BY <2>1, <2>3, <2>5, NoneSent DEF ImportShape, ImportArchive
  <2>7. ImportInv
    BY <2>1, <2>3, <2>6, NoneSent DEF ImportInv, ImportedIsOurs
  <2>8. RequestsInv
    BY <1>1, <2>1, NoneSent DEF RequestsInv
  <2>9. QED
    BY <1>9, <2>7, <2>8 DEF PagesInv, SearchInv, PinInv, ShareInv, ConvertInv, MemoryInv, TeamsInv, SettingsInv, TilesInv
<1>10. ASSUME page = "tiles" PROVE PagesInv
  <2>1. sent = <<>> /\ \E stored \in IF losses = 0 THEN OlderLayouts ELSE {{}} : there = stored /\ ui = TilesStart(stored)
    BY <1>10 DEF PagesInit
  <2>2. {} \in OlderLayouts
    BY DEF OlderLayouts
  <2>3. PICK stored \in OlderLayouts : there = stored /\ ui = TilesStart(stored)
    BY <2>1, <2>2
  <2>4. PICK layout : layout = LoadLayout(stored)
    OBVIOUS
  <2>5. ui = TilesRecord(layout, "none", NoTile, NoTile)
    BY <2>3, <2>4 DEF TilesStart, TilesRecord
  <2>6. IsTiles(ui) /\ ui.layout = layout /\ ui.drag = "none"
    BY <2>5 DEF IsTiles, TilesRecord
  <2>7. TilesInv
    BY <2>1, <2>3, <2>4, <2>6, NoneSent, OlderUsable DEF TilesInv
  <2>8. RequestsInv
    BY <1>1, <2>1, NoneSent DEF RequestsInv
  <2>9. QED
    BY <1>10, <2>7, <2>8 DEF PagesInv, SearchInv, PinInv, ShareInv, ConvertInv, MemoryInv, TeamsInv, SettingsInv, ImportInv
<1>11. QED
  BY <1>2, <1>3, <1>4, <1>5, <1>6, <1>7, <1>8, <1>9, <1>10 DEF PagesInit

LEMMA PagesNextInv ==
  ASSUME PagesInv, [PagesNext]_pagesVars
  PROVE  PagesInv'
<1> USE DEF PagesInv
<1>0. RequestsInv' /\ page' = page
  BY RequestsNext, PageStays
<1>1. SearchInv'
  BY <1>0, SearchNext DEF SearchInv
<1>2. PinInv'
  BY <1>0, PinNext DEF PinInv
<1>3. ShareInv'
  BY <1>0, ShareNext DEF ShareInv
<1>4. ConvertInv'
  BY <1>0, ConvertNext DEF ConvertInv
<1>5. MemoryInv'
  BY <1>0, MemoryNext DEF MemoryInv
<1>6. TeamsInv'
  BY <1>0, TeamsNext DEF TeamsInv
<1>7. SettingsInv'
  BY <1>0, SettingsNext DEF SettingsInv
<1>8. ImportInv'
  BY <1>0, ImportNext DEF ImportInv
<1>9. TilesInv'
  BY <1>0, TilesNext DEF TilesInv
<1>10. QED
  BY <1>0, <1>1, <1>2, <1>3, <1>4, <1>5, <1>6, <1>7, <1>8, <1>9

ScreenTrue ==
    SearchIsOfThePhrase /\ PinIsTrue /\ ApprovedInThisOpening /\ StillFollowed
    /\ ReviewedTextIsShown /\ MemoryListIsTrue /\ TeamIsInOneList /\ SettingsAreTrue
    /\ ImportedIsOurs /\ EveryTileIsUsable /\ LayoutIsRemembered

LEMMA PagesInvTrue ==
  ASSUME PagesInv
  PROVE  ScreenTrue
<1> USE DEF PagesInv
<1>1. SearchIsOfThePhrase /\ StillFollowed /\ ImportedIsOurs
  BY DEF SearchInv, SearchIsOfThePhrase, ConvertInv, StillFollowed, ImportInv, ImportedIsOurs
<1>2. PinIsTrue
  BY DEF PinInv, PinAgrees, PinIsTrue, Held
<1>3. ApprovedInThisOpening
  BY DEF ShareInv, ShareShape, ShareAgrees, ApprovedInThisOpening
<1>4. ReviewedTextIsShown
  BY DEF MemoryInv, MemoryTurns, ReviewedTextIsShown, IsReviewed
<1>5. MemoryListIsTrue
  <2>1. SUFFICES ASSUME page = "memory", AllQuiet, ~untimely, losses + elsewhere = 0
                 PROVE  ui.list = there /\ (ui.selected # 0 => InArchive(ui.selected))
    BY DEF MemoryListIsTrue
  <2>2. MemoryShape /\ MemoryListed
    BY <2>1 DEF MemoryInv
  <2>3. \A i \in 1 .. Len(sent) : ~Awaited(i) /\ ~Answered(i)
    BY <2>1, Indices DEF AllQuiet, Awaited, Answered
  <2>4. /\ ~SomeRemoved /\ \A d \in 1 .. 2 : ~Removed(d) /\ ~ReviewAnswered(d)
    BY <2>3 DEF SomeRemoved, Removed, ReviewAnswered
  <2>5. \A d \in 1 .. 2 : ui.list[d] = there[d]
    BY <2>2, <2>3, <2>4 DEF MemoryShape, MemoryListed
  <2>6. ui.list = there
    BY <2>2, <2>5 DEF MemoryShape
  <2>7. ui.selected # 0 => InArchive(ui.selected)
    BY <2>2, <2>4 DEF MemoryShape, MemoryListed
  <2>8. QED
    BY <2>6, <2>7
<1>6. TeamIsInOneList
  <2>1. SUFFICES ASSUME page = "teams", AllQuiet, losses + elsewhere = 0
                 PROVE  ui.invitations = TeamIn("invited") /\ ui.teams = TeamIn("member")
    BY DEF TeamIsInOneList, TeamIn
  <2>2. TeamsShape /\ TeamsAgree
    BY <2>1 DEF TeamsInv
  <2>3. \A i \in 1 .. Len(sent) : ~Awaited(i) /\ ~Answered(i)
    BY <2>1, Indices DEF AllQuiet, Awaited, Answered
  <2>4. ~ActionTaken
    BY <2>3 DEF ActionTaken
  <2>5. ui.asked[1] \in 1 .. Len(sent) /\ ui.asked[2] \in 1 .. Len(sent)
    BY <2>2 DEF TeamsShape
  <2>6. QED
    BY <2>2, <2>3, <2>4, <2>5 DEF TeamsAgree, ListTrue
<1>7. SettingsAreTrue
  BY DEF SettingsInv, SettingsAgree, SettingsAreTrue
<1>8. EveryTileIsUsable /\ LayoutIsRemembered
  <2>1. SUFFICES ASSUME page = "tiles"
                 PROVE  EveryTileIsUsable /\ LayoutIsRemembered
    BY DEF EveryTileIsUsable, LayoutIsRemembered
  <2>2. /\ Usable(ui.layout) /\ (ui.drag # "none" => OnTheGrid(ui.preview))
        /\ losses = 0 => LoadLayout(there) = ui.layout
    BY <2>1 DEF TilesInv
  <2>3. \A tile \in ui.layout : tile.id \in Known
    BY <2>2, TileOf DEF Usable
  <2>4. QED
    BY <2>2, <2>3 DEF EveryTileIsUsable, LayoutIsRemembered, Usable
<1>9. QED
  BY <1>1, <1>2, <1>3, <1>4, <1>5, <1>6, <1>7, <1>8 DEF ScreenTrue

(* Whatever a visit does and however its requests are served, answered,     *)
(* lost or overtaken, each screen of views/ and the tiles of TileGrid.tsx   *)
(* say what is so, in the sense of its part of PagesHold.                   *)
THEOREM ScreensAreTrue == PagesSpec => PagesHold
<1>1. PagesInit => PagesInv
  BY PagesInitInv
<1>2. PagesInv /\ [PagesNext]_pagesVars => PagesInv'
  BY PagesNextInv
<1>3. PagesInv => ScreenTrue
  BY PagesInvTrue
<1>4. PagesInv /\ [PagesNext]_pagesVars =>
         [page = "convert" /\ ui'.job = ui.job => StatusRank[ui'.status] >= StatusRank[ui.status]]_pagesVars
  BY ConvertNext DEF PagesInv, ConvertForward, Behind
<1>5. QED
  BY <1>1, <1>2, <1>3, <1>4, PTL DEF PagesSpec, PagesHold, NeverGoesBack, ScreenTrue
=============================================================================
