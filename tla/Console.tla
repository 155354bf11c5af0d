------------------------------- MODULE Console -------------------------------
(* The web application: where it is, who is signed in, and what it holds of    *)
(* the archive, while the answers to its requests arrive in any order          *)
(* (src/web/src/App.tsx, app/bootstrap.ts, lib/routes.ts, lib/api/client-core, *)
(* lib/api/client-sessions, views/Collections.tsx).                            *)
(*                                                                             *)
(* A request is sent, served by the archive, and its answer applied, three     *)
(* steps with anything in between.  A row of the timeline is a session with    *)
(* the moment of its last capture; every moment is a day of its own.  Four errands *)
(* explore the page separately: moving between screens, signing in again,      *)
(* scrolling through the timeline, and writing a collection.                   *)
EXTENDS Integers, Sequences, FiniteSets

CONSTANTS
    Errands,        \* those explored, of "moving", "returning", "scrolling", "curating"
    History,        \* the sessions of the account, newest first
    PageSize,       \* rows of one page of the timeline
    MaxAsks,        \* bound: requests in one life of the tab, of each errand
    MaxCaptures,    \* bound: captures while the tab is open
    MaxSignIns,     \* bound: tokens granted
    MaxUpsets       \* bound: requests that fail or time out, and times the tab is reloaded

Conversation == {History[i] : i \in 1 .. Len(History)}

(* An identifier of a session is no word of the router.                        *)
ASSUME ConsoleAssumption ==
    /\ Errands \subseteq {"moving", "returning", "scrolling", "curating"}
    /\ PageSize \in Nat \ {0} /\ Len(History) \in Nat
    /\ \A i, j \in 1 .. Len(History) : History[i] = History[j] => i = j
    /\ Conversation \cap {"timeline", "search", "collections", "signin", "nowhere"} = {}
    /\ MaxAsks \in [Errands -> Nat] /\ {MaxCaptures, MaxSignIns, MaxUpsets} \subseteq Nat

VARIABLES
    errand,      \* what is explored
    place,       \* the route: a screen, or the session whose screen it is
    intended,    \* where a sign-in goes
    bearer,      \* the stored browser session, 0 when there is none
    lapsed,      \* the browser's clock is beyond the token's expiry
    accepted,    \* the token the archive accepts
    granted,     \* tokens granted so far
    asks,        \* the requests, in the order they were sent
    opening,     \* the request of the session effect that is still active
    entering,    \* the dashboard load a sign-in waits for, and where it goes then
    detail,      \* the session last loaded
    listing, cursor, shelf,   \* the dashboard: timeline, next page, collections
    loadingMore, failed,   \* a page is being fetched; connectionError is set
    form, draft,           \* the create form, and what the tab's storage keeps of it
    archive, library,      \* the archive's own: timeline, and how many collections
    serves, drops, opens,  \* counters
    left,        \* the screen the reader was on when first asked to sign in
    behind, seen, torn     \* what the order of the answers spoilt

consoleVars == <<errand, place, intended, bearer, lapsed, accepted, granted, asks, opening, entering,
    detail, listing, cursor, shelf, loadingMore, failed, form, draft, archive, library,
    serves, drops, opens, left, behind, seen, torn>>

serverVars == <<archive, library, accepted, granted>>
dashVars == <<listing, cursor, shelf, behind, seen, torn>>
formVars == <<form, draft>>

Nowhere == "nowhere"
Screens == [e \in Errands |->
    IF e = "moving" THEN {"timeline"} \cup Conversation
    ELSE IF e = "returning" THEN {"timeline", "search"}
    ELSE IF e = "scrolling" THEN {"timeline"} ELSE {"timeline", "collections"}]
SessionOf(p) == IF p \in Conversation THEN p ELSE Nowhere
Shut == [open |-> FALSE, words |-> 0, saving |-> 0, emptied |-> FALSE]

-----------------------------------------------------------------------------
(* The archive's answers.                                                      *)

(* The rows of s at the positions in K, in their order.                        *)
Nth(K, n) == CHOOSE k \in K : Cardinality({j \in K : j <= k}) = n
RowsAt(s, K) == [n \in 1 .. Cardinality(K) |-> s[Nth(K, n)]]

Older(c) == RowsAt(archive, {i \in 1 .. Len(archive) : c = 0 \/ archive[i][2] < c})
Page(c) ==
    LET found == Older(c) IN
    [listing |-> SubSeq(found, 1, IF Len(found) < PageSize THEN Len(found) ELSE PageSize),
     next |-> IF Len(found) > PageSize THEN found[PageSize][2] ELSE 0]

Ids(s) == {s[i] : i \in 1 .. Len(s)}
Asked(kind, arg, key) ==
    [kind |-> kind, arg |-> arg, bearer |-> key, state |-> "sent", said |-> <<>>, at |-> 0, fresh |-> TRUE]
Over == [kind |-> "none", state |-> "done"]
Closed(i) == [asks EXCEPT ![i] = Over]

(* Once a token is past its expiry it is dropped by whoever asks for it, with     *)
(* nothing said: the request goes out without one.                             *)
Authenticated == bearer # 0 /\ ~lapsed
ReadToken == IF lapsed THEN 0 ELSE bearer
Asks(queue, kind, arg) ==
    /\ Len(queue) < MaxAsks[errand]
    /\ asks' = Append(queue, Asked(kind, arg, ReadToken))
    /\ bearer' = ReadToken /\ lapsed' = FALSE

-----------------------------------------------------------------------------
(* The screen.  The session effect fetches the session the address names, and  *)
(* only then; without a token it fetches nothing.                               *)
Moves(p, queue, signed) ==
    /\ place' = p
    /\ IF SessionOf(p) = SessionOf(place) THEN asks' = queue /\ UNCHANGED opening
       ELSE IF SessionOf(p) = Nowhere \/ ~signed THEN asks' = queue /\ opening' = 0
       ELSE /\ Len(queue) < MaxAsks[errand]
            /\ asks' = Append(queue, Asked("session", p, bearer))
            /\ opening' = Len(queue) + 1

OpenDetail == IF detail # Nowhere /\ detail = SessionOf(place) THEN detail ELSE Nowhere

OnCollections(p, err) == p = "collections" /\ ~err
FormFollows ==
    form' = IF ~OnCollections(place', failed') THEN Shut
            ELSE IF OnCollections(place, failed) THEN form
            ELSE [open |-> draft' # 0, words |-> draft', saving |-> 0, emptied |-> FALSE]

PlaceToReturnTo(p) == IF p = "signin" THEN Nowhere ELSE p

AskToSignIn ==
    /\ intended' = IF intended # Nowhere THEN intended ELSE PlaceToReturnTo(place)
    /\ left' = IF errand # "returning" \/ place = "signin" THEN left
               ELSE IF intended = Nowhere THEN place ELSE Nowhere

(* The tab is opened at p, signed in or not.                                   *)
InitialLocation(p, signed) ==
    /\ place' = IF signed THEN p ELSE "signin"
    /\ intended' = IF signed THEN Nowhere ELSE PlaceToReturnTo(p)
    /\ left' = IF signed \/ errand # "returning" THEN Nowhere ELSE PlaceToReturnTo(p)

(* The effects of the first render: load the dashboard, and the session named. *)
Booted(p, key) ==
    IF key = 0 THEN <<>>
    ELSE IF p \in Conversation THEN <<Asked("dashboard", 0, key), Asked("session", p, key)>>
    ELSE <<Asked("dashboard", 0, key)>>

(* The shell stands around every screen but the sign-in.                       *)
LeadsTo(p) == place # "signin" /\ p \in Screens[errand] /\ p # place

NavigateTo(p) ==
    /\ LeadsTo(p)
    /\ Moves(p, asks, Authenticated)
    /\ bearer' = IF SessionOf(p) \notin {Nowhere, SessionOf(place)} THEN ReadToken ELSE bearer
    /\ lapsed' = (lapsed /\ bearer' # 0)
    /\ UNCHANGED <<failed, draft>> /\ FormFollows
    /\ UNCHANGED <<errand, intended, serverVars, entering, detail, dashVars, loadingMore,
                   serves, drops, opens, left>>

(* The shell's account button leads to the sign-in screen and remembers        *)
(* nothing.                                                                    *)
SwitchUser ==
    /\ errand = "moving" /\ place # "signin" /\ left' = Nowhere
    /\ Moves("signin", asks, TRUE)
    /\ UNCHANGED <<failed, draft>> /\ FormFollows
    /\ UNCHANGED <<errand, intended, bearer, lapsed, serverVars, entering, detail, dashVars,
                   loadingMore, serves, drops, opens>>

(* The banner of a session's last minutes.                                     *)
SignInAgain ==
    /\ place # "signin" /\ bearer # 0 /\ ~lapsed
    /\ AskToSignIn /\ Moves("signin", asks, TRUE)
    /\ UNCHANGED <<failed, draft>> /\ FormFollows
    /\ UNCHANGED <<errand, bearer, lapsed, serverVars, entering, detail, dashVars,
                   loadingMore, serves, drops, opens>>

(* Back and forward: the tab's history may hold any of them.                   *)
Back(p) ==
    /\ errand = "moving" /\ p \in Screens[errand] \cup {"signin"} /\ p # place
    /\ Moves(p, asks, Authenticated)
    /\ bearer' = IF SessionOf(p) # Nowhere THEN ReadToken ELSE bearer
    /\ lapsed' = (lapsed /\ bearer' # 0)
    /\ UNCHANGED <<failed, draft>> /\ FormFollows
    /\ UNCHANGED <<errand, intended, serverVars, entering, detail, dashVars, loadingMore,
                   serves, drops, opens, left>>

OpenAddress(p) ==
    /\ errand = "curating" /\ opens + drops < MaxUpsets /\ opens' = opens + 1
    /\ p \in Screens[errand]
    /\ bearer' = ReadToken /\ lapsed' = FALSE
    /\ InitialLocation(p, bearer' # 0)
    /\ asks' = Booted(p, bearer') /\ opening' = IF Len(asks') = 2 THEN 2 ELSE 0
    /\ entering' = [ask |-> 0, goal |-> Nowhere] /\ detail' = Nowhere
    /\ listing' = <<>> /\ cursor' = 0 /\ shelf' = <<>>
    /\ behind' = TRUE /\ seen' = 0 /\ torn' = FALSE
    /\ loadingMore' = FALSE /\ failed' = FALSE
    /\ form' = IF place' = "collections" THEN [open |-> draft # 0, words |-> draft, saving |-> 0, emptied |-> FALSE] ELSE Shut
    /\ serves' = 0
    /\ UNCHANGED <<errand, serverVars, draft, drops>>

-----------------------------------------------------------------------------
(* What the reader does on a screen.                                           *)

Shown(p) == place = p /\ ~failed

(* After a change the page has made, and from the error screen: load it again. *)
LoadDashboard ==
    /\ place # "signin" /\ (errand = "moving" => failed)
    /\ Asks(asks, "dashboard", 0)
    /\ failed' = FALSE /\ UNCHANGED <<place, draft>> /\ FormFollows
    /\ UNCHANGED <<errand, intended, serverVars, opening, entering, detail, dashVars, loadingMore,
                   serves, drops, opens, left>>

(* The end of the list is near, or its button is pressed.                      *)
OffersOlder == Shown("timeline") /\ cursor # 0 /\ ~loadingMore

LoadMoreTimeline ==
    /\ errand = "scrolling" /\ OffersOlder
    /\ Asks(asks, "page", cursor)
    /\ loadingMore' = TRUE
    /\ UNCHANGED <<errand, place, intended, serverVars, opening, entering, detail, dashVars, failed,
                   formVars, serves, drops, opens, left>>

(* Every keystroke is kept in the tab's storage as well as in the form.        *)
Edit(w) ==
    /\ Shown("collections") /\ w # form.words
    /\ form' = [form EXCEPT !.open = TRUE, !.words = w, !.emptied = FALSE] /\ draft' = w
    /\ UNCHANGED <<errand, place, intended, bearer, lapsed, serverVars, asks, opening, entering, detail,
                   dashVars, loadingMore, failed, serves, drops, opens, left>>

CloseCreate ==
    /\ Shown("collections") /\ form.open
    /\ form' = [form EXCEPT !.open = FALSE, !.words = 0, !.emptied = FALSE] /\ draft' = 0
    /\ UNCHANGED <<errand, place, intended, bearer, lapsed, serverVars, asks, opening, entering, detail,
                   dashVars, loadingMore, failed, serves, drops, opens, left>>

OffersToCreate == Shown("collections") /\ form.open /\ form.words # 0 /\ form.saving = 0

SubmitCollection ==
    /\ OffersToCreate
    /\ Asks(asks, "collection", form.words)
    /\ form' = [form EXCEPT !.saving = Len(asks) + 1]
    /\ UNCHANGED <<errand, place, intended, serverVars, opening, entering, detail, dashVars,
                   loadingMore, failed, draft, serves, drops, opens, left>>

(* Signing in: the dashboard is loaded before the page moves on, to the place  *)
(* that was intended when the form was sent.                                   *)
SubmitSignIn ==
    /\ place = "signin" /\ entering.ask = 0 /\ granted < MaxSignIns
    /\ Asks(asks, "login", 0)
    /\ entering' = [ask |-> Len(asks) + 1, goal |-> IF intended = Nowhere THEN "timeline" ELSE intended]
    /\ UNCHANGED <<errand, place, intended, serverVars, opening, detail, dashVars, loadingMore, failed,
                   formVars, serves, drops, opens, left>>

-----------------------------------------------------------------------------
(* The archive.                                                                *)

Served(i, answer) ==
    asks' = [asks EXCEPT ![i] = [@ EXCEPT !.state = "answered", !.said = answer, !.at = serves']]

ServeAsk(i) ==
    /\ i \in 1 .. Len(asks) /\ asks[i].state = "sent"
    /\ serves' = IF errand = "curating" /\ asks[i].kind \in {"dashboard", "collection"} THEN serves + 1 ELSE serves
    /\ IF asks[i].kind = "login"
       THEN /\ granted' = granted + 1 /\ accepted' = granted + 1
            /\ Served(i, granted + 1) /\ UNCHANGED <<archive, library>>
       ELSE IF asks[i].bearer = 0 \/ asks[i].bearer # accepted
       THEN /\ asks' = [asks EXCEPT ![i] = [@ EXCEPT !.state = "refused"]]
            /\ UNCHANGED serverVars
       ELSE \/ /\ asks[i].kind = "dashboard"
               /\ Served(i, [page |-> Page(0), shelf |-> [k \in 1 .. library |-> library + 1 - k]]) /\ UNCHANGED serverVars
            \/ asks[i].kind = "page" /\ Served(i, Page(asks[i].arg)) /\ UNCHANGED serverVars
            \/ /\ asks[i].kind = "session"
               /\ \/ Served(i, asks[i].arg)
                  \/ asks' = [asks EXCEPT ![i] = [@ EXCEPT !.state = "dropped"]]
               /\ UNCHANGED serverVars
            \/ /\ asks[i].kind = "collection"
               /\ library' = library + 1
               /\ Served(i, library + 1) /\ UNCHANGED <<archive, accepted, granted>>
    /\ UNCHANGED <<errand, place, intended, bearer, lapsed, opening, entering, detail, dashVars,
                   loadingMore, failed, formVars, drops, opens, left>>

(* A request or its answer is lost, or ten seconds pass.                       *)
Drop(i) ==
    /\ i \in 1 .. Len(asks)
    /\ asks[i].state = "sent" \/ (asks[i].state = "answered" /\ asks[i].kind = "collection")
    /\ errand = "curating" => asks[i].kind = "collection"
    /\ drops + opens < MaxUpsets /\ drops' = drops + 1
    /\ asks' = [asks EXCEPT ![i].state = "dropped"]
    /\ UNCHANGED <<errand, place, intended, bearer, lapsed, serverVars, opening, entering, detail,
                   dashVars, loadingMore, failed, formVars, serves, opens, left>>

Capture(s) ==
    /\ errand = "scrolling" /\ s \in Conversation
    /\ LET newest == archive[1][2] IN
       /\ newest < Len(History) + MaxCaptures
       /\ \E k \in 1 .. Len(archive) :
            /\ archive[k][1] = s
            /\ archive' = [i \in 1 .. Len(archive) |->
                   IF i = 1 THEN <<s, newest + 1>> ELSE archive[IF i <= k THEN i - 1 ELSE i]]
    /\ UNCHANGED <<errand, place, intended, bearer, lapsed, library, accepted, granted, asks, opening,
                   entering, detail, dashVars, loadingMore, failed, formVars, serves, drops, opens, left>>

(* A token ends: the archive stops accepting it, and the browser's own clock    *)
(* finds it expired, in either order, or only the first when it was revoked.   *)
EndToken ==
    /\ errand # "scrolling"
    /\ \/ accepted # 0 /\ accepted' = 0 /\ UNCHANGED lapsed
       \/ bearer # 0 /\ ~lapsed /\ lapsed' = TRUE /\ UNCHANGED accepted
    /\ UNCHANGED <<errand, place, intended, bearer, archive, library, granted, asks, opening, entering,
                   detail, dashVars, loadingMore, failed, formVars, serves, drops, opens, left>>

-----------------------------------------------------------------------------
(* An answer reaches the page.                                                 *)

(* The load a sign-in waited for is over, one way or the other: move on.       *)
Enters(i) == entering.ask = i /\ asks[i].kind = "dashboard"
Unawaited == [ask |-> 0, goal |-> Nowhere]
GoesOn(i, signed) ==
    IF Enters(i) THEN Moves(entering.goal, Closed(i), signed) /\ entering' = Unawaited
    ELSE asks' = Closed(i) /\ UNCHANGED <<place, opening, entering>>

ArriveDashboard(i) ==
    /\ asks[i].kind = "dashboard" /\ asks[i].state = "answered"
    /\ listing' = asks[i].said.page.listing /\ cursor' = asks[i].said.page.next /\ shelf' = asks[i].said.shelf
    /\ behind' = (asks[i].at < seen) /\ seen' = IF asks[i].at > seen THEN asks[i].at ELSE seen
    /\ torn' = FALSE
    /\ LET rest == [j \in 1 .. Len(asks) |->
               IF j = i THEN Over ELSE IF asks[j].kind = "page" THEN [asks[j] EXCEPT !.fresh = FALSE] ELSE asks[j]]
       IN IF Enters(i) THEN Moves(entering.goal, rest, Authenticated) /\ entering' = Unawaited
          ELSE asks' = rest /\ UNCHANGED <<place, opening, entering>>
    /\ UNCHANGED <<failed, draft>> /\ FormFollows
    /\ UNCHANGED <<errand, intended, bearer, lapsed, serverVars, detail, loadingMore, serves, drops, opens, left>>

MergeTimelinePage(current, page) ==
    current \o RowsAt(page, {k \in 1 .. Len(page) : page[k] \notin Ids(current)})

ArrivePage(i) ==
    /\ asks[i].kind = "page" /\ asks[i].state = "answered"
    /\ listing' = MergeTimelinePage(listing, asks[i].said.listing) /\ cursor' = asks[i].said.next
    /\ torn' = (torn \/ ~asks[i].fresh)
    /\ loadingMore' = FALSE /\ asks' = Closed(i)
    /\ UNCHANGED <<errand, place, intended, bearer, lapsed, serverVars, opening, entering, detail, shelf,
                   behind, seen, failed, formVars, serves, drops, opens, left>>

(* Mutant: whatever session arrives is shown.                                  *)
ArriveAnySession(i) ==
    /\ asks[i].kind = "session" /\ asks[i].state = "answered"
    /\ detail' = asks[i].said
    /\ asks' = Closed(i)
    /\ UNCHANGED <<errand, place, intended, bearer, lapsed, serverVars, opening, entering, dashVars,
                   loadingMore, failed, formVars, serves, drops, opens, left>>

(* Only the session the effect still asks for is taken.                        *)
ArriveSession(i) ==
    /\ asks[i].kind = "session" /\ asks[i].state = "answered"
    /\ detail' = IF opening = i THEN asks[i].said ELSE detail
    /\ asks' = Closed(i)
    /\ UNCHANGED <<errand, place, intended, bearer, lapsed, serverVars, opening, entering, dashVars,
                   loadingMore, failed, formVars, serves, drops, opens, left>>

(* The form that sent it closes, if it is still there; the stored draft goes   *)
(* either way.                                                                 *)
ArriveCollection(i) ==
    /\ asks[i].kind = "collection" /\ asks[i].state = "answered"
    /\ shelf' = <<asks[i].said>> \o shelf
    /\ behind' = (behind \/ asks[i].at < seen) /\ seen' = IF asks[i].at > seen THEN asks[i].at ELSE seen
    /\ form' = IF form.saving = i THEN Shut ELSE [form EXCEPT !.emptied = @ \/ form.words # 0]
    /\ draft' = 0
    /\ asks' = Closed(i)
    /\ UNCHANGED <<errand, place, intended, bearer, lapsed, serverVars, opening, entering, detail, listing,
                   cursor, torn, loadingMore, failed, serves, drops, opens, left>>

(* The token is stored, and the dashboard loaded.                               *)
ArriveLogin(i) ==
    /\ asks[i].kind = "login" /\ asks[i].state = "answered" /\ Len(asks) < MaxAsks[errand]
    /\ bearer' = asks[i].said /\ lapsed' = FALSE /\ failed' = FALSE
    /\ asks' = Append(Closed(i), Asked("dashboard", 0, bearer'))
    /\ entering' = [entering EXCEPT !.ask = Len(asks) + 1]
    /\ UNCHANGED <<place, draft>> /\ FormFollows
    /\ UNCHANGED <<errand, intended, serverVars, opening, detail, dashVars, loadingMore, serves,
                   drops, opens, left>>

(* What a request that did not work leaves: the error screen for the           *)
(* dashboard, for a page of it, and for the session still asked for.           *)
Fails(i) ==
    /\ failed' = (failed \/ asks[i].kind \in {"dashboard", "page"}
                         \/ (asks[i].kind = "session" /\ opening = i))
    /\ loadingMore' = (loadingMore /\ asks[i].kind # "page")
    /\ behind' = (behind \/ asks[i].kind = "collection")
    /\ seen' = IF asks[i].at > seen THEN asks[i].at ELSE seen

ArriveNothing(i) ==
    /\ asks[i].state = "dropped"
    /\ Fails(i)
    /\ IF asks[i].kind = "login" /\ entering.ask = i
       THEN asks' = Closed(i) /\ entering' = Unawaited /\ UNCHANGED <<place, opening>>
       ELSE GoesOn(i, Authenticated)
    /\ UNCHANGED draft /\ FormFollows
    /\ UNCHANGED <<errand, intended, bearer, lapsed, serverVars, detail, listing, cursor, shelf, torn,
                   serves, drops, opens, left>>

(* 401: whatever token is stored is cleared, whichever one was refused, and     *)
(* the reader is asked to sign in.                                             *)
ArriveRefused(i) ==
    /\ asks[i].state = "refused"
    /\ bearer' = 0 /\ lapsed' = FALSE
    /\ AskToSignIn /\ Fails(i)
    /\ IF Enters(i) THEN GoesOn(i, FALSE) ELSE Moves("signin", Closed(i), FALSE) /\ UNCHANGED entering
    /\ UNCHANGED draft /\ FormFollows
    /\ UNCHANGED <<errand, serverVars, detail, listing, cursor, shelf, torn, serves, drops, opens>>

ArriveAnswer(i) ==
    /\ i \in 1 .. Len(asks)
    /\ \/ ArriveDashboard(i) \/ ArrivePage(i) \/ ArriveSession(i) \/ ArriveCollection(i)
       \/ ArriveLogin(i) \/ ArriveNothing(i) \/ ArriveRefused(i)

-----------------------------------------------------------------------------
(* The tab is open at p, with a token that is still good, one that is not any   *)
(* more, or none.                                                              *)
ConsoleInit ==
    /\ errand \in Errands
    /\ bearer \in {0, 1} /\ accepted \in {0, 1} /\ granted = 1 /\ lapsed = FALSE
    /\ \E p \in Screens[errand] :
         /\ place = IF bearer = 1 THEN p ELSE "signin"
         /\ intended = IF bearer = 1 THEN Nowhere ELSE p
         /\ left = IF errand = "returning" THEN intended ELSE Nowhere
         /\ asks = Booted(p, bearer) /\ opening = IF Len(asks) = 2 THEN 2 ELSE 0
    /\ entering = Unawaited /\ detail = Nowhere
    /\ listing = <<>> /\ cursor = 0 /\ shelf = <<>>
    /\ loadingMore = FALSE /\ failed = FALSE
    /\ form = Shut /\ draft = 0
    /\ archive = [i \in 1 .. Len(History) |-> <<History[i], Len(History) + 1 - i>>] /\ library = 0
    /\ serves = 0 /\ drops = 0 /\ opens = 0
    /\ behind = TRUE /\ seen = 0 /\ torn = FALSE

ConsoleNext ==
    \/ \E p \in Screens[errand] : NavigateTo(p) \/ OpenAddress(p)
    \/ \E p \in Screens[errand] \cup {"signin"} : Back(p)
    \/ SwitchUser \/ SignInAgain \/ SubmitSignIn \/ LoadDashboard \/ LoadMoreTimeline
    \/ \E w \in {0, 1} : Edit(w)
    \/ CloseCreate \/ SubmitCollection
    \/ \E i \in 1 .. Len(asks) : ServeAsk(i) \/ Drop(i) \/ ArriveAnswer(i)
    \/ \E s \in Conversation : Capture(s)
    \/ EndToken

ConsoleSpec == ConsoleInit /\ [][ConsoleNext]_consoleVars

-----------------------------------------------------------------------------
(* Properties.                                                                 *)

AllAnswered == \A i \in 1 .. Len(asks) : asks[i].state = "done"

(* When nothing is on its way and no answer overtook another, the collections  *)
(* on screen are those of the archive, each once: what App.tsx prepends and    *)
(* what it reloads agree.                                                      *)
UndisturbedDashboardIsTrue ==
    AllAnswered /\ ~behind => shelf = [k \in 1 .. library |-> library + 1 - k]

(* Unless a page fetched for an earlier dashboard was merged into a later one, *)
(* the timeline has no hole and no session twice, and when there is no further *)
(* page it reaches the oldest session (bootstrap.ts, mergeTimelinePage).       *)
TimelineIsWhole ==
    ~torn /\ listing # <<>> =>
        /\ \A i, j \in 1 .. Len(listing) : i < j => listing[j][1] # listing[i][1] /\ listing[j][2] < listing[i][2]
        /\ \A r \in Ids(archive) :
             r[2] <= listing[1][2] /\ (cursor = 0 \/ r[2] >= listing[Len(listing)][2]) => r \in Ids(listing)

(* What is typed in the open form is what the tab keeps of it, so that being   *)
(* asked to sign in does not lose it, unless the form the reader left has      *)
(* meanwhile been saved and took the draft with it (Collections.tsx).          *)
WordsAreKept == form.open /\ ~form.emptied => draft = form.words

(* A session whose request the page waited for is shown or reported, and one   *)
(* that is shown stays until the reader moves: no answer for another session   *)
(* takes its place (App.tsx, the session effect).                              *)
ShownStays == [][opens' = opens /\ place' = place /\ OpenDetail # Nowhere
                 => detail' = detail]_consoleVars
AnsweredIsShown == [][\A i \in 1 .. Len(asks) :
    /\ opens' = opens /\ opening = i /\ opening' = i
    /\ asks[i].state # "done" /\ asks'[i].state = "done"
    => failed' \/ detail' = SessionOf(place)]_consoleVars

(* "Signing in again brings you back to this screen"                           *)
(* (SessionExpiryBanner.tsx:26): a reader who was asked to sign in is back     *)
(* after it where they were when they were asked.  Only the first time in a    *)
(* tab: the place is not forgotten once it was returned to, and the next       *)
(* sign-in leads there again (App.tsx:88-97, 177-181).                         *)
SigningInBringsYouBack ==
    [][entering.ask # 0 /\ entering'.ask = 0 /\ opens' = opens /\ place = "signin" /\ place' # "signin"
       /\ left # Nowhere => place' = left]_consoleVars

(* The console as a whole.                                                     *)
ConsoleHolds ==
    /\ [](UndisturbedDashboardIsTrue /\ TimelineIsWhole /\ WordsAreKept)
    /\ ShownStays /\ AnsweredIsShown /\ SigningInBringsYouBack
=============================================================================
