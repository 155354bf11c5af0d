-------------------------------- MODULE Pages --------------------------------
(* The screens of the web application that keep state of their own while       *)
(* requests are on their way: the search box, a session's pin, share dialog    *)
(* and conversion, the memory files, the settings, an import and the tiles of  *)
(* the overview (src/web/src/views, components/TileGrid.tsx,                   *)
(* lib/api/client-packs.ts).  A behaviour is one visit of one of them: `ui` is *)
(* its React state, `there` what the archive (or the browser's storage) holds, *)
(* and requests are sent, served and answered in three steps.                  *)
EXTENDS Integers, Sequences, FiniteSets

CONSTANTS
    Pages,        \* the screens explored
    MaxAsked,     \* bound: requests of one visit, of each screen
    MaxLosses,    \* bound: requests or answers lost
    MaxElsewhere, \* bound: changes made by something else meanwhile
    Rounds,       \* how often an import polls
    Columns, MinWidth, MinHeight   \* the grid of the overview

ASSUME PagesAssumption ==
    /\ MaxAsked \in [Pages -> Nat] /\ {MaxLosses, MaxElsewhere} \subseteq Nat
    /\ {Rounds, MinWidth, MinHeight, Columns} \subseteq Nat \ {0} /\ MinWidth <= Columns

VARIABLES
    page,      \* the screen that is open
    ui,        \* its state
    there,     \* what the archive or the storage holds
    sent,      \* its requests
    losses, elsewhere,   \* counters
    untimely \* an answer met a state it was not asked from

pagesVars == <<page, ui, there, sent, losses, elsewhere, untimely>>

Request(kind, arg) == [kind |-> kind, arg |-> arg, state |-> "sent", said |-> 0]
Posts(kind, arg) == Len(sent) < MaxAsked[page] /\ sent' = Append(sent, Request(kind, arg))
Awaited(i) == i # 0 /\ sent[i].state # "over"
AllQuiet == \A i \in 1 .. Len(sent) : ~Awaited(i)
InFlight(kind) == \E i \in 1 .. Len(sent) : sent[i].kind = kind /\ Awaited(i)
Turn(i, state, said) == sent' = [sent EXCEPT ![i].state = state, ![i].said = said]
Stays == UNCHANGED <<page, losses, elsewhere>>
OnPage == UNCHANGED <<there>> /\ Stays
Lesser(S) == CHOOSE m \in S : \A n \in S : m <= n

-----------------------------------------------------------------------------
(* The search box (views/Search.tsx).  A phrase waits 140 ms; the effect of an *)
(* earlier phrase takes no answer any more.  An empty box is "none".           *)

SearchStart == [phrase |-> "none", timer |-> FALSE, shown |-> "none", loading |-> FALSE, active |-> 0]

UpdateQuery(p) ==
    /\ page = "search" /\ p # ui.phrase
    /\ ui' = IF p = "none" THEN SearchStart ELSE [ui EXCEPT !.phrase = p, !.timer = TRUE, !.active = 0]
    /\ UNCHANGED <<sent, untimely>> /\ OnPage

DebounceEnds ==
    /\ page = "search" /\ ui.timer
    /\ Posts("search", ui.phrase)
    /\ ui' = [ui EXCEPT !.timer = FALSE, !.loading = TRUE, !.active = Len(sent) + 1]
    /\ UNCHANGED untimely /\ OnPage

(* Mutant: the answer of any phrase is shown.                                  *)
AnySearchArrives(i, ok) ==
    ui' = [ui EXCEPT !.loading = FALSE, !.shown = IF ok THEN sent[i].arg ELSE "none"]

SearchArrives(i, ok) ==
    ui' = IF ui.active # i THEN ui
          ELSE [ui EXCEPT !.loading = FALSE, !.shown = IF ok THEN sent[i].arg ELSE "none"]

(* No result is on screen while a search runs.                                 *)
OnScreen == IF ui.loading THEN "none" ELSE ui.shown

(* The results on screen are those of the phrase in the box, and a search that *)
(* is said to run does run.                                                    *)
SearchIsOfThePhrase ==
    page = "search" =>
        /\ ~ui.timer => OnScreen \in {"none", ui.phrase}
        /\ ui.loading => ui.timer \/ Awaited(ui.active)

-----------------------------------------------------------------------------
(* The pin of a session (views/SessionDetail.tsx): an annotation, listed when  *)
(* the session is shown and created or deleted by one button.                  *)

PinStart == [pin |-> 0, busy |-> FALSE]

OffersPin == page = "pin" /\ ~ui.busy

TogglePin ==
    /\ OffersPin
    /\ Posts(IF ui.pin # 0 THEN "unpin" ELSE "pin", ui.pin)
    /\ ui' = [ui EXCEPT !.busy = TRUE]
    /\ untimely' = (untimely \/ InFlight("list"))
    /\ OnPage

PinServes(i) ==
    \/ /\ sent[i].kind = "list" /\ Turn(i, "answered", IF there.pins = {} THEN 0 ELSE Lesser(there.pins))
       /\ UNCHANGED there
    \/ /\ sent[i].kind = "pin" /\ there' = [pins |-> there.pins \cup {there.next}, next |-> there.next + 1]
       /\ Turn(i, "answered", there.next)
    \/ /\ sent[i].kind = "unpin" /\ there' = [there EXCEPT !.pins = @ \ {sent[i].arg}]
       /\ Turn(i, "answered", 0)

PinArrives(i, ok) ==
    ui' = IF sent[i].kind = "list" THEN [ui EXCEPT !.pin = IF ok THEN sent[i].said ELSE 0]
          ELSE [ui EXCEPT !.busy = FALSE, !.pin = IF ok THEN sent[i].said ELSE @]

(* Once everything is answered the button says what the archive holds, unless  *)
(* it was pressed before the list arrived or an answer was lost.               *)
PinIsTrue ==
    page = "pin" /\ AllQuiet /\ ~untimely =>
        IF there.pins = {} THEN ui.pin = 0 ELSE ui.pin \in there.pins

-----------------------------------------------------------------------------
(* The share dialog (views/SessionDetail.tsx, session-detail/ShareReviewModal):*)
(* a review is approved, a link is made from it and shown.                     *)

ShareStart == [open |-> FALSE, review |-> 0, link |-> 0, busy |-> FALSE, opening |-> 0]

OpenShare ==
    /\ page = "share" /\ ~ui.open
    /\ Posts("findings", 0)
    /\ ui' = [ui EXCEPT !.open = TRUE, !.opening = @ + 1]
    /\ UNCHANGED untimely /\ OnPage

(* The dialog asks for an approval, then for a link, then shows the link.      *)
OffersApproval == page = "share" /\ ui.open /\ ui.review = 0
OffersLink == page = "share" /\ ui.open /\ ui.review # 0 /\ ui.link = 0 /\ ~ui.busy

OnApprove ==
    /\ OffersApproval
    /\ Posts("review", ui.opening)
    /\ UNCHANGED <<ui, untimely>> /\ OnPage

OnCreate ==
    /\ OffersLink
    /\ Posts("link", ui.opening)
    /\ ui' = [ui EXCEPT !.busy = TRUE]
    /\ UNCHANGED untimely /\ OnPage

OnClose ==
    /\ page = "share" /\ ui.open
    /\ ui' = [ui EXCEPT !.open = FALSE, !.review = 0, !.link = 0]
    /\ untimely' = (untimely \/ InFlight("review") \/ InFlight("link"))
    /\ UNCHANGED sent /\ OnPage

ShareServes(i) ==
    /\ there' = IF sent[i].kind = "link" THEN there + 1 ELSE there
    /\ Turn(i, "answered", sent[i].arg)

ShareArrives(i, ok) ==
    ui' = IF sent[i].kind = "link"
          THEN [ui EXCEPT !.busy = FALSE, !.link = IF ok THEN sent[i].said ELSE @]
          ELSE IF sent[i].kind = "review" /\ ok THEN [ui EXCEPT !.review = sent[i].said] ELSE ui

(* A link is offered, and the review step passed over, only on the strength of *)
(* an approval given since the dialog was opened, unless it was closed while   *)
(* one of them was under way.                                                  *)
ApprovedInThisOpening ==
    page = "share" /\ ui.open /\ ~untimely =>
        ui.review \in {0, ui.opening} /\ ui.link \in {0, ui.opening}

-----------------------------------------------------------------------------
(* Following a conversion (views/SessionDetail.tsx): the status is asked for   *)
(* 700 ms after the last one arrived, until the job has settled.               *)

ConvertStart == [job |-> 0, status |-> "none", timer |-> FALSE, active |-> 0, error |-> FALSE]
Unsettled == {"queued", "running"}

Follow(job, status) ==
    [ui EXCEPT !.job = job, !.status = status, !.timer = status \in Unsettled, !.active = 0]

QueueConversion ==
    /\ page = "convert"
    /\ Posts("convert", 0) /\ ui' = [ui EXCEPT !.error = FALSE]
    /\ UNCHANGED untimely /\ OnPage

AskStatus ==
    /\ page = "convert" /\ ui.timer
    /\ Posts("status", ui.job)
    /\ ui' = [ui EXCEPT !.timer = FALSE, !.active = Len(sent) + 1]
    /\ UNCHANGED untimely /\ OnPage

JobMoves(j) ==
    /\ page = "convert" /\ j \in DOMAIN there /\ there[j] \in Unsettled
    /\ there' = [there EXCEPT ![j] = IF @ = "queued" THEN "running" ELSE "completed"]
    /\ UNCHANGED <<ui, sent, untimely>> /\ Stays

ConvertServes(i) ==
    \/ /\ sent[i].kind = "convert"
       /\ there' = Append(there, "queued") /\ Turn(i, "answered", <<Len(there) + 1, "queued">>)
    \/ /\ sent[i].kind = "status"
       /\ UNCHANGED there /\ Turn(i, "answered", <<sent[i].arg, there[sent[i].arg]>>)

ConvertArrives(i, ok) ==
    ui' = IF sent[i].kind = "convert" THEN IF ok THEN Follow(sent[i].said[1], sent[i].said[2]) ELSE [ui EXCEPT !.error = TRUE]
          ELSE IF ui.active # i THEN ui
          ELSE IF ok THEN Follow(sent[i].said[1], sent[i].said[2]) ELSE [ui EXCEPT !.error = TRUE]

(* The effect depends on a function the application makes anew whenever it is  *)
(* rendered: an answer on its way is dropped and the wait starts over.         *)
ApplicationRenders ==
    /\ page = "convert" /\ ui.status \in Unsettled /\ elsewhere < MaxElsewhere
    /\ ui' = Follow(ui.job, ui.status) /\ elsewhere' = elsewhere + 1
    /\ UNCHANGED <<page, there, sent, losses, untimely>>

(* A job that is shown as unfinished is still being asked about, unless asking *)
(* failed, and what is shown of a job never goes back.                         *)
StillFollowed ==
    page = "convert" /\ ui.status \in Unsettled =>
        ui.timer \/ Awaited(ui.active) \/ losses > 0
StatusRank == [s \in {"none", "queued", "running", "completed"} |->
    CASE s = "none" -> 0 [] s = "queued" -> 1 [] s = "running" -> 2 [] OTHER -> 3]
NeverGoesBack ==
    [][page = "convert" /\ ui'.job = ui.job => StatusRank[ui'.status] >= StatusRank[ui.status]]_pagesVars
-----------------------------------------------------------------------------
(* The memory files (views/Memory.tsx): a list, one file opened beside it, and *)
(* the review and the removal of a file.  A version is the number of its text. *)

Unread == [version |-> 0, reviewed |-> 0]
NotListed == <<Unread, Unread>>
MemoryStart == [list |-> NotListed, asked |-> 1, selected |-> 0, document |-> Unread, text |-> 0, reviewing |-> FALSE]
InArchive(d) == there[d].version # 0
IsReviewed(doc) == doc.version # 0 /\ doc.reviewed = doc.version

Listed(d) == page = "memory" /\ ui.list[d] # Unread

OpenDocument(d) ==
    /\ Listed(d) /\ Posts("open", d)
    /\ untimely' = (untimely \/ InFlight("review") \/ InFlight("remove"))
    /\ UNCHANGED ui /\ OnPage

OffersReview == page = "memory" /\ ui.selected # 0 /\ ~ui.reviewing /\ ~IsReviewed(ui.document)

ReviewDocument ==
    /\ OffersReview
    /\ Posts("review", <<ui.selected, ui.document.version>>)
    /\ ui' = [ui EXCEPT !.reviewing = TRUE]
    /\ untimely' = (untimely \/ InFlight("open") \/ InFlight("list") \/ InFlight("remove"))
    /\ OnPage

RemoveMemory(d) ==
    /\ Listed(d) /\ Posts("remove", <<d, ui.selected>>)
    /\ untimely' = (untimely \/ InFlight("open") \/ InFlight("review"))
    /\ UNCHANGED ui /\ OnPage

CapturedAgain(d) ==
    /\ page = "memory" /\ InArchive(d)
    /\ there' = [there EXCEPT ![d].version = @ + 1] /\ UNCHANGED ui

MemoryServes(i) ==
    LET a == sent[i].arg IN
    \/ sent[i].kind = "list" /\ Turn(i, "answered", there) /\ UNCHANGED there
    \/ /\ sent[i].kind = "open" /\ UNCHANGED there
       /\ IF InArchive(a) THEN Turn(i, "answered", there[a]) ELSE Turn(i, "failed", 0)
    \/ /\ sent[i].kind = "review"
       /\ IF InArchive(a[1]) /\ there[a[1]].version = a[2]
          THEN /\ there' = [there EXCEPT ![a[1]].reviewed = a[2]]
               /\ Turn(i, "answered", there'[a[1]])
          ELSE Turn(i, "failed", 0) /\ UNCHANGED there
    \/ /\ sent[i].kind = "remove" /\ there' = [there EXCEPT ![a[1]] = Unread]
       /\ Turn(i, IF InArchive(a[1]) THEN "answered" ELSE "failed", 0)

MemoryArrives(i, ok) ==
    LET a == sent[i].arg IN
    ui' = CASE sent[i].kind = "list" ->
                  IF ui.asked = i /\ ok THEN [ui EXCEPT !.list = sent[i].said] ELSE ui
            [] sent[i].kind = "open" ->
                  IF ok THEN [ui EXCEPT !.selected = a, !.document = sent[i].said, !.text = sent[i].said.version]
                  ELSE ui
            [] sent[i].kind = "review" ->
                  [ui EXCEPT !.reviewing = FALSE,
                             !.document = IF ok /\ ui.selected = a[1] THEN sent[i].said ELSE @,
                             !.list[a[1]] = IF ok /\ @ # Unread THEN sent[i].said ELSE @]
            [] OTHER ->
                  IF ok THEN [ui EXCEPT !.asked = Len(sent) + 1, !.selected = IF a[2] = a[1] THEN 0 ELSE @] ELSE ui

(* A text under the badge of a review is the text somebody reviewed, and once  *)
(* everything is answered the list is the archive's and no removed file is     *)
(* shown; unless requests overtook each other, one was lost or the file was    *)
(* captured or removed meanwhile.                                              *)
ReviewedTextIsShown ==
    page = "memory" /\ ui.selected # 0 /\ IsReviewed(ui.document) /\ ~untimely =>
        ui.text = ui.document.reviewed
MemoryListIsTrue ==
    page = "memory" /\ AllQuiet /\ ~untimely /\ losses + elsewhere = 0 =>
        ui.list = there /\ (ui.selected # 0 => InArchive(ui.selected))

-----------------------------------------------------------------------------
(* The teams (views/Teams.tsx): two lists from two routes, loaded again after  *)
(* every action; a load that has been replaced is not taken.                   *)

TeamsStart == [invitations |-> {}, teams |-> {}, asked |-> <<1, 2>>, busy |-> FALSE]

OffersToLeave == page = "teams" /\ ~ui.busy /\ ui.teams # {}
OffersToAnswer == page = "teams" /\ ~ui.busy /\ ui.invitations # {}

RunOnTeam(action) ==
    /\ IF action = "leave" THEN OffersToLeave ELSE OffersToAnswer
    /\ Posts(action, 0)
    /\ ui' = [ui EXCEPT !.busy = TRUE]
    /\ UNCHANGED untimely /\ OnPage

InvitedAgain ==
    /\ page = "teams" /\ there = "none" /\ there' = "invited" /\ UNCHANGED ui

TeamsServes(i) ==
    \/ /\ sent[i].kind \in {"invitations", "teams"} /\ UNCHANGED there
       /\ Turn(i, "answered", IF there = (IF sent[i].kind = "teams" THEN "member" ELSE "invited") THEN {"t"} ELSE {})
    \/ /\ sent[i].kind \in {"accept", "decline", "leave"}
       /\ IF there = (IF sent[i].kind = "leave" THEN "member" ELSE "invited")
          THEN there' = (IF sent[i].kind = "accept" THEN "member" ELSE "none") /\ Turn(i, "answered", 0)
          ELSE UNCHANGED there /\ Turn(i, "failed", 0)

TeamsArrives(i, ok) ==
    LET current == \E k \in DOMAIN ui.asked : ui.asked[k] = i
        said == IF ok THEN sent[i].said ELSE {}
    IN  ui' = CASE sent[i].kind = "invitations" -> IF current THEN [ui EXCEPT !.invitations = said] ELSE ui
                [] sent[i].kind = "teams" -> IF current THEN [ui EXCEPT !.teams = said] ELSE ui
                [] OTHER -> [ui EXCEPT !.busy = FALSE, !.asked = IF ok THEN <<Len(sent) + 1, Len(sent) + 2>> ELSE @]

(* A team is shown where it belongs once everything is answered, and never in  *)
(* both lists after that; unless an answer was lost or somebody else changed   *)
(* the membership.                                                             *)
TeamIsInOneList ==
    page = "teams" /\ AllQuiet /\ losses + elsewhere = 0 =>
        /\ ui.invitations = (IF there = "invited" THEN {"t"} ELSE {})
        /\ ui.teams = (IF there = "member" THEN {"t"} ELSE {})

-----------------------------------------------------------------------------
(* The settings (views/Settings.tsx): a change is shown at once, all of them   *)
(* are sent together, and a refused one puts back what was shown before it.    *)

SettingsStart == [shown |-> <<>>, saving |-> FALSE]

(* The retention policy waits for a save, the toggles of redaction do not.     *)
OffersChange(k) == page = "settings" /\ ui.shown # <<>> /\ (k = 2 => ~ui.saving)

Persist(k) ==
    /\ OffersChange(k)
    /\ LET next == [ui.shown EXCEPT ![k] = ~@] IN
       /\ Posts("save", [next |-> next, previous |-> ui.shown])
       /\ ui' = [ui EXCEPT !.shown = next, !.saving = TRUE]
    /\ untimely' = (untimely \/ InFlight("save") \/ InFlight("load"))
    /\ OnPage

SettingsServes(i) ==
    /\ there' = IF sent[i].kind = "save" THEN sent[i].arg.next ELSE there
    /\ Turn(i, "answered", there')

SettingsArrives(i, ok) ==
    ui' = IF sent[i].kind = "load" THEN IF ok THEN [ui EXCEPT !.shown = sent[i].said] ELSE ui
          ELSE [shown |-> IF ok THEN sent[i].said ELSE sent[i].arg.previous, saving |-> FALSE]

(* The screen shows the settings the archive holds once everything is          *)
(* answered, refused changes included, unless two saves overlapped.                *)
SettingsAreTrue ==
    page = "settings" /\ AllQuiet /\ ui.shown # <<>> /\ ~untimely => ui.shown = there

-----------------------------------------------------------------------------
(* An import (lib/api/client-packs.ts, views/Import.tsx): what is archived is  *)
(* listed, the bytes are sent if they are missing, a manifest names them, and  *)
(* the sessions are listed until one of the source appears that was not there. *)

ImportStart == [step |-> "idle", existing |-> {}, round |-> 0, imported |-> "none"]
StepAfter == [s \in {"before", "token", "delta", "upload", "manifest"} |->
    CASE s = "before" -> "token" [] s = "token" -> "delta" [] s = "delta" -> "upload"
      [] s = "upload" -> "manifest" [] OTHER -> "poll"]

OffersImport == page = "import" /\ ui.step = "idle"

Submit ==
    /\ OffersImport
    /\ Posts("before", 0) /\ ui' = [ui EXCEPT !.step = "before"]
    /\ UNCHANGED untimely /\ OnPage

ImportProceeds ==
    /\ page = "import" /\ AllQuiet /\ ui.step \notin {"idle", "ready", "refused", "timeout"}
    /\ IF ui.step = "poll" /\ ui.round > Rounds
       THEN ui' = [ui EXCEPT !.step = "timeout"] /\ UNCHANGED sent
       ELSE Posts(ui.step, 0) /\ UNCHANGED ui
    /\ UNCHANGED untimely /\ OnPage

ParseOfTheImport(outcome) ==
    /\ page = "import" /\ there.artifact = "queued"
    /\ there' = [artifact |-> outcome, sessions |-> IF outcome = "parsed" THEN there.sessions \cup {"ours"} ELSE there.sessions]
    /\ UNCHANGED <<ui, sent, untimely>> /\ Stays

CapturedElsewhere ==
    /\ page = "import" /\ "theirs" \notin there.sessions
    /\ there' = [there EXCEPT !.sessions = @ \cup {"theirs"}] /\ UNCHANGED ui

ImportServes(i) ==
    \/ /\ sent[i].kind \in {"before", "poll"} /\ Turn(i, "answered", there.sessions) /\ UNCHANGED there
    \/ /\ sent[i].kind \in {"delta", "status", "token"} /\ Turn(i, "answered", there.artifact) /\ UNCHANGED there
    \/ /\ sent[i].kind \in {"upload", "manifest"} /\ Turn(i, "answered", 0)
       /\ there' = [there EXCEPT !.artifact =
             IF sent[i].kind = "upload" THEN "stored" ELSE IF @ = "stored" THEN "queued" ELSE @]

ImportArrives(i, ok) ==
    LET kind == sent[i].kind
        said == sent[i].said
        goes(step) == [ui EXCEPT !.step = step]
        nextRound == [ui EXCEPT !.step = "poll", !.round = @ + 1]
    IN  CASE kind = "status" -> ui' = IF ok /\ said \in {"failed", "unknown"} THEN goes("refused") ELSE nextRound
          [] ~ok /\ kind # "status" -> ui' = goes("refused")
          [] ok /\ kind = "before" -> ui' = [goes("token") EXCEPT !.existing = said]
          [] ok /\ kind = "delta" -> ui' = goes(IF said = "none" THEN "upload" ELSE "manifest")
          [] ok /\ kind = "poll" ->
                 IF said \subseteq ui.existing THEN ui' = goes("status")
                 ELSE \E s \in said \ ui.existing : ui' = [goes("ready") EXCEPT !.imported = s]
          [] OTHER -> ui' = [goes(StepAfter[kind]) EXCEPT !.round = 1]

(* The session an import presents as imported is of the file that was chosen,  *)
(* unless another of that tool was captured meanwhile; and a file that nothing *)
(* refused, and the server read in time, is not reported as refused.           *)
ImportedIsOurs ==
    page = "import" =>
        /\ ui.step = "ready" => ui.imported \in there.sessions \ ui.existing
        /\ ui.step = "ready" /\ elsewhere = 0 => ui.imported = "ours" /\ there.artifact = "parsed"
        /\ ui.step = "refused" /\ losses = 0 => there.artifact \in {"failed", "unknown"}

-----------------------------------------------------------------------------
(* The overview (components/TileGrid.tsx, views/Workspace.tsx): tiles on a     *)
(* grid, moved by a pointer or by keys, kept in the storage of the browser.    *)
(* A layout is a set: the order of its entries only orders the markup.         *)

Known == {"recent", "machines"}
DefaultLayout == {[id |-> "recent", x |-> 1, y |-> 1, width |-> MinWidth, height |-> MinHeight],
                  [id |-> "machines", x |-> Columns - MinWidth + 1, y |-> 1, width |-> MinWidth, height |-> MinHeight]}
NoTile == [id |-> "none", x |-> 1, y |-> 1, width |-> MinWidth, height |-> MinHeight]
LastRow == MinHeight + 2   \* bound: the grid has no last row
Largest(m, n) == IF m > n THEN m ELSE n
Smallest(m, n) == IF m < n THEN m ELSE n

ClampTile(tile) ==
    LET width == Largest(MinWidth, Smallest(Columns, tile.width))
    IN  [tile EXCEPT !.width = width, !.height = Largest(MinHeight, @),
                     !.x = Largest(1, Smallest(Columns - width + 1, @)), !.y = Largest(1, @)]

(* With nothing saved every tile is missing.                                   *)
LoadLayout(stored) ==
    LET saved == { ClampTile(e) : e \in {e \in stored : e.id \in Known} }
    IN  saved \cup { e \in DefaultLayout : \A tile \in saved : tile.id # e.id }

TilesStart(stored) == [layout |-> LoadLayout(stored), drag |-> "none", origin |-> NoTile, preview |-> NoTile]

(* A layout of an older build: sizes of another grid, a tile that is gone and  *)
(* one that is missing.                                                        *)
OlderLayouts ==
    {{}} \cup { {[id |-> "gone", x |-> 1, y |-> 1, width |-> 1, height |-> 1],
                 [id |-> "machines", x |-> x, y |-> 1, width |-> w, height |-> h]} :
               x \in {0, 1, Columns + 1}, w \in {1, MinWidth, Columns + 1}, h \in {0, MinHeight} }

Shifted(tile, mode, dx, dy) ==
    ClampTile(IF mode = "move" THEN [tile EXCEPT !.x = @ + dx, !.y = @ + dy]
              ELSE [tile EXCEPT !.width = @ + dx, !.height = @ + dy])
Replaced(tile) == { IF e.id = tile.id THEN tile ELSE e : e \in ui.layout }

(* The tile under a pointer is drawn where it would be put down.               *)
Positioned == IF ui.drag = "none" THEN ui.layout ELSE Replaced(ui.preview)

(* A storage that is blocked takes nothing: then only the screen changes.      *)
PersistLayout(next) ==
    /\ there' = IF losses > 0 THEN there ELSE next
    /\ UNCHANGED <<page, sent, losses, elsewhere, untimely>>

OffersTiles == page = "tiles" /\ ui.drag = "none"

TakeHold(tile, mode) ==
    /\ OffersTiles
    /\ ui' = [ui EXCEPT !.drag = mode, !.origin = tile, !.preview = tile]
    /\ UNCHANGED <<sent, untimely>> /\ OnPage

OnMove(dx, dy) ==
    /\ page = "tiles" /\ ui.drag # "none"
    /\ ui' = [ui EXCEPT !.preview = Shifted(ui.origin, ui.drag, dx, dy)]
    /\ ui'.preview.y + ui'.preview.height <= LastRow
    /\ UNCHANGED <<sent, untimely>> /\ OnPage

(* The pointer is lifted, or the browser cancels the gesture.                  *)
OnUp ==
    /\ page = "tiles" /\ ui.drag # "none"
    /\ ui' = [ui EXCEPT !.drag = "none", !.layout = Replaced(ui.preview),
                        !.origin = NoTile, !.preview = NoTile]
    /\ PersistLayout(ui'.layout)

OnTileKeyDown(tile, mode, dx, dy) ==
    /\ page = "tiles"
    /\ LET next == Shifted(tile, mode, dx, dy) IN
       /\ next.y + next.height <= LastRow
       /\ ui' = [ui EXCEPT !.layout = Replaced(next)]
    /\ PersistLayout(ui'.layout)

Reset ==
    /\ page = "tiles"
    /\ ui' = [ui EXCEPT !.layout = DefaultLayout]
    /\ PersistLayout({})

(* Every tile there is has one place, inside the grid and large enough to be   *)
(* used, whatever was stored and however gestures, keys and a reset meet; and  *)
(* the arrangement on screen is the one the next visit finds.                  *)
OnTheGrid(tile) ==
    /\ tile.x >= 1 /\ tile.x + tile.width - 1 <= Columns /\ tile.y >= 1
    /\ tile.width >= MinWidth /\ tile.height >= MinHeight
EveryTileIsUsable ==
    page = "tiles" =>
        /\ \A id \in Known : \E tile \in ui.layout : tile.id = id
        /\ \A tile \in ui.layout :
              /\ tile.id \in Known /\ OnTheGrid(tile)
              /\ \A other \in ui.layout : other.id = tile.id => other = tile
        /\ ui.drag # "none" => OnTheGrid(ui.preview)
LayoutIsRemembered == page = "tiles" /\ losses = 0 => LoadLayout(there) = ui.layout

-----------------------------------------------------------------------------
(* What every screen's requests have in common.                                *)

ServeSent(i) ==
    /\ sent[i].state = "sent"
    /\ \/ page = "search" /\ Turn(i, "answered", 0) /\ UNCHANGED there
       \/ page = "pin" /\ PinServes(i)
       \/ page = "share" /\ ShareServes(i)
       \/ page = "convert" /\ ConvertServes(i)
       \/ page = "memory" /\ MemoryServes(i)
       \/ page = "teams" /\ TeamsServes(i)
       \/ page = "settings" /\ SettingsServes(i)
       \/ page = "import" /\ ImportServes(i)
    /\ UNCHANGED <<page, ui, losses, elsewhere, untimely>>

(* A request fails before it reached the server, or its answer is lost.        *)
Lose(i) ==
    /\ sent[i].state \in {"sent", "answered"} /\ losses < MaxLosses
    /\ Turn(i, "failed", 0) /\ losses' = losses + 1
    /\ untimely' = (untimely \/ sent[i].state = "answered" \/ sent[i].kind = "list")
    /\ UNCHANGED <<page, ui, there, elsewhere>>

(* What an answer makes the screen load again at once.                         *)
Reloads(i) ==
    IF page = "memory" /\ sent[i].kind = "remove" THEN <<Request("list", 0)>>
    ELSE IF page = "teams" /\ sent[i].kind \notin {"invitations", "teams"}
         THEN <<Request("invitations", 0), Request("teams", 0)>> ELSE <<>>

Arrive(i) ==
    /\ sent[i].state \in {"answered", "failed"}
    /\ sent' = [sent EXCEPT ![i].state = "over"] \o (IF sent[i].state = "answered" THEN Reloads(i) ELSE <<>>)
    /\ LET ok == sent[i].state = "answered" IN
       \/ page = "search" /\ SearchArrives(i, ok)
       \/ page = "pin" /\ PinArrives(i, ok)
       \/ page = "share" /\ ShareArrives(i, ok)
       \/ page = "convert" /\ ConvertArrives(i, ok)
       \/ page = "memory" /\ MemoryArrives(i, ok)
       \/ page = "teams" /\ TeamsArrives(i, ok)
       \/ page = "settings" /\ SettingsArrives(i, ok)
       \/ page = "import" /\ ImportArrives(i, ok)
    /\ UNCHANGED untimely /\ OnPage

Elsewhere ==
    /\ elsewhere < MaxElsewhere /\ elsewhere' = elsewhere + 1
    /\ CapturedAgain(1) \/ InvitedAgain \/ CapturedElsewhere
    /\ UNCHANGED <<page, sent, losses, untimely>>

PagesInit ==
    /\ page \in Pages
    /\ elsewhere = 0 /\ untimely = FALSE /\ (losses = 0 \/ (page = "tiles" /\ losses = MaxLosses))
    /\ \/ page = "search" /\ ui = SearchStart /\ there = 0 /\ sent = <<>>
       \/ page = "pin" /\ ui = PinStart /\ sent = <<Request("list", 0)>>
          /\ \E p \in {{}, {1}} : there = [pins |-> p, next |-> 2]
       \/ page = "share" /\ ui = ShareStart /\ there = 0 /\ sent = <<>>
       \/ page = "convert" /\ ui = ConvertStart /\ there = <<>> /\ sent = <<>>
       \/ page = "memory" /\ ui = MemoryStart /\ sent = <<Request("list", 0)>>
          /\ there = <<[version |-> 1, reviewed |-> 0], [version |-> 1, reviewed |-> 1]>>
       \/ page = "teams" /\ ui = TeamsStart /\ there \in {"invited", "member"}
          /\ sent = <<Request("invitations", 0), Request("teams", 0)>>
       \/ page = "settings" /\ ui = SettingsStart /\ there = <<TRUE, FALSE>> /\ sent = <<Request("load", 0)>>
       \/ page = "import" /\ ui = ImportStart /\ sent = <<>>
          /\ there \in {[artifact |-> "none", sessions |-> {"old"}], [artifact |-> "parsed", sessions |-> {"old", "ours"}]}
       \/ page = "tiles" /\ sent = <<>> /\ \E stored \in IF losses = 0 THEN OlderLayouts ELSE {{}} : there = stored /\ ui = TilesStart(stored)

PagesNext ==
    \/ \E p \in {"none", "a", "b"} : UpdateQuery(p)
    \/ DebounceEnds \/ TogglePin
    \/ OpenShare \/ OnApprove \/ OnCreate \/ OnClose
    \/ QueueConversion \/ AskStatus \/ ApplicationRenders \/ (page = "convert" /\ \E j \in DOMAIN there : JobMoves(j))
    \/ \E d \in 1 .. 2 : OpenDocument(d) \/ RemoveMemory(d)
    \/ ReviewDocument
    \/ \E action \in {"accept", "decline", "leave"} : RunOnTeam(action)
    \/ \E k \in 1 .. 2 : Persist(k)
    \/ Submit \/ ImportProceeds \/ \E outcome \in {"parsed", "failed", "unknown"} : ParseOfTheImport(outcome)
    \/ page = "tiles" /\ \E tile \in Positioned, mode \in {"move", "resize"} :
          \/ TakeHold(tile, mode)
          \/ \E d \in {-1, 1} : OnTileKeyDown(tile, mode, d, 0) \/ OnTileKeyDown(tile, mode, 0, d)
    \/ \E dx, dy \in {-2, 0, 1} : OnMove(dx, dy)
    \/ OnUp \/ Reset \/ Elsewhere
    \/ \E i \in DOMAIN sent : ServeSent(i) \/ Lose(i) \/ Arrive(i)

PagesSpec == PagesInit /\ [][PagesNext]_pagesVars

(* Each screen tells the truth of the archive in its own way: see the parts.   *)
PagesHold ==
    /\ [](SearchIsOfThePhrase /\ PinIsTrue /\ ApprovedInThisOpening /\ StillFollowed
          /\ ReviewedTextIsShown /\ MemoryListIsTrue /\ TeamIsInOneList /\ SettingsAreTrue
          /\ ImportedIsOurs /\ EveryTileIsUsable /\ LayoutIsRemembered)
    /\ NeverGoesBack
=============================================================================
