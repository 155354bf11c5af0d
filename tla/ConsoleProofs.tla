---------------------------- MODULE ConsoleProofs ----------------------------
(***************************************************************************)
(* Theorems about Console for every account, page size and bound.          *)
(*                                                                         *)
(* The requests on their way are one part of the state and what the page   *)
(* holds another; the invariant relates the two, subject by subject: the   *)
(* session shown, the sign-in, the create form, the collections and the    *)
(* timeline.                                                               *)
(***************************************************************************)
EXTENDS Console, FiniteSetTheorems, SequenceTheorems, WellFoundedInduction, TLAPS

USE DEF consoleVars, serverVars, dashVars, formVars

-----------------------------------------------------------------------------
(* The inductive invariant.                                                 *)

AskRecord(kind, arg, key, state, said, at, fresh) ==
    [kind |-> kind, arg |-> arg, bearer |-> key, state |-> state, said |-> said, at |-> at, fresh |-> fresh]
Kinds == {"dashboard", "page", "session", "collection", "login"}
IsSequence(s) == Len(s) \in Nat /\ s = [i \in 1 .. Len(s) |-> s[i]]
IsAsk(a) ==
    /\ a = AskRecord(a.kind, a.arg, a.bearer, a.state, a.said, a.at, a.fresh)
    /\ a.kind \in Kinds /\ a.state \in {"sent", "answered", "refused", "dropped"}
    /\ a.at \in Nat /\ a.fresh \in BOOLEAN
    /\ a.state = "sent" \/ a.state = "refused" \/ (a.state = "dropped" /\ a.kind # "collection") => a.at = 0

(* Requests are kept in the order they were sent, and are over once they    *)
(* were applied.                                                            *)
Awaited(i) == asks[i].kind # "none"
AsksInv ==
    /\ IsSequence(asks) /\ \A i \in 1 .. Len(asks) : asks[i] = Over \/ IsAsk(asks[i])
    /\ serves \in Nat /\ seen \in Nat /\ opens \in Nat /\ drops \in Nat
    /\ behind \in BOOLEAN /\ torn \in BOOLEAN /\ failed \in BOOLEAN

(* The session effect's request is for the session on screen.               *)
OpeningInv ==
    /\ opening \in 0 .. Len(asks)
    /\ opening # 0 => /\ SessionOf(place) # Nowhere
                      /\ asks[opening] = Over \/ (asks[opening].kind = "session" /\ asks[opening].arg = SessionOf(place))
SaidInv == \A i \in 1 .. Len(asks) :
    asks[i].kind = "session" /\ asks[i].state = "answered" => asks[i].said = asks[i].arg
SessionInv == OpeningInv /\ SaidInv

(* A sign-in that is under way leads to where the reader was first asked.   *)
IsEntering(e) == e = [ask |-> e.ask, goal |-> e.goal]
SignInInv ==
    /\ IsEntering(entering)
    /\ left # Nowhere => errand = "returning" /\ left = intended
    /\ \A i \in 1 .. Len(asks) : asks[i].kind = "login" => entering.ask = i
    /\ errand = "returning" /\ entering.ask # 0 => place = "signin" /\ (left # Nowhere => entering.goal = left)

(* Collections are written in one of the errands only.                      *)
CuratingInv ==
    /\ errand \in Errands
    /\ place = "collections" \/ intended = "collections" \/ entering.goal = "collections" => errand = "curating"
    /\ errand # "curating" => library = 0 /\ serves = 0 /\ \A i \in 1 .. Len(asks) : asks[i].kind # "collection"

IsForm(f) == f = [open |-> f.open, words |-> f.words, saving |-> f.saving, emptied |-> f.emptied]
FormInv ==
    /\ IsForm(form) /\ form.open \in BOOLEAN /\ form.emptied \in BOOLEAN
    /\ WordsAreKept

(* A collection that was made and not yet answered for, and the shelf with  *)
(* n collections.  A list that was true when the archive served its t-th    *)
(* answer lacks those made after it; unless a later answer was applied      *)
(* meanwhile, every one it lacks is still to arrive.                        *)
Made(i) == asks[i].kind = "collection" /\ asks[i].at > 0
Shelf(n) == [k \in 1 .. n |-> n + 1 - k]
AsOf(n, t) ==
    /\ n \in 0 .. library
    /\ \A i \in 1 .. Len(asks) : Made(i) => (asks[i].said > n <=> asks[i].at > t)
    /\ t >= seen => \A k \in n + 1 .. library : \E i \in 1 .. Len(asks) : Made(i) /\ asks[i].said = k
Timed(i) == asks[i].kind \in {"dashboard", "collection"} /\ asks[i].at > 0
TimesInv ==
    /\ seen <= serves
    /\ \A i \in 1 .. Len(asks) : Timed(i) => asks[i].at <= serves /\ asks[i].at # seen
    /\ \A i, j \in 1 .. Len(asks) : Timed(i) /\ Timed(j) /\ asks[i].at = asks[j].at => i = j
    /\ \A i \in 1 .. Len(asks) : asks[i].kind = "collection" /\ asks[i].state = "answered" => asks[i].at > 0
Spoiling(i) == Made(i) /\ asks[i].at < seen
CarriedInv ==
    /\ library \in Nat /\ TimesInv
    /\ \A i \in 1 .. Len(asks) : Made(i) => asks[i].said \in 1 .. library
    /\ \A i, j \in 1 .. Len(asks) : Made(i) /\ Made(j) => (asks[i].at < asks[j].at <=> asks[i].said < asks[j].said)
    /\ \A i \in 1 .. Len(asks) : asks[i].kind = "dashboard" /\ asks[i].state = "answered" =>
          \E n \in 0 .. library : asks[i].said.shelf = Shelf(n) /\ AsOf(n, asks[i].at)
OnShelfInv ==
    ~behind /\ (\A i \in 1 .. Len(asks) : ~Spoiling(i)) =>
        \E n \in 0 .. library : shelf = Shelf(n) /\ AsOf(n, seen)
ShelfInv == CarriedInv /\ OnShelfInv

(* Rows of the timeline, newest first, each of a session of its own; none   *)
(* is newer than the archive's of the same session.                         *)
IsRow(r) == r = <<r[1], r[2]>> /\ r[2] \in Nat \ {0}
IsRows(s) == IsSequence(s) /\ \A i \in 1 .. Len(s) : IsRow(s[i])
NewestFirst(s) == \A i, j \in 1 .. Len(s) : i < j => s[j][2] < s[i][2] /\ s[j][1] # s[i][1]
Earlier(s) == \A i \in 1 .. Len(s), k \in 1 .. Len(archive) : archive[k][1] = s[i][1] => s[i][2] <= archive[k][2]

(* A stretch of the timeline below a moment, down to the cursor: every row  *)
(* the archive has there is in it.                                          *)
Fills(s, next, top) == \A k \in 1 .. Len(archive) :
    archive[k][2] < top /\ (next = 0 \/ archive[k][2] >= next) => \E i \in 1 .. Len(s) : s[i] = archive[k]
Stretch(s, next, top) ==
    /\ IsRows(s) /\ NewestFirst(s) /\ Earlier(s) /\ Fills(s, next, top)
    /\ next \in Nat /\ (next # 0 => Len(s) # 0 /\ next = s[Len(s)][2])
    /\ top \in Nat /\ (Len(archive) # 0 => top <= archive[1][2] + 1) /\ \A i \in 1 .. Len(s) : s[i][2] < top
Whole(s, next) ==
    IF Len(s) = 0 THEN s = << >> /\ next = 0 ELSE Stretch(s, next, s[1][2] + 1)

Apart(s, t) == \A i \in 1 .. Len(s), j \in 1 .. Len(t) : s[i][1] # t[j][1]
PagesAreApart ==
    /\ \A i \in 1 .. Len(asks) : asks[i].kind = "page" => loadingMore
    /\ \A i, j \in 1 .. Len(asks) : asks[i].kind = "page" /\ asks[j].kind = "page" => i = j
PageInv(i) ==
    asks[i].kind = "page" /\ asks[i].fresh /\ ~torn =>
        /\ asks[i].arg = cursor /\ cursor # 0
        /\ asks[i].state = "answered" =>
              Stretch(asks[i].said.listing, asks[i].said.next, cursor) /\ Apart(asks[i].said.listing, listing)
TimelineInv ==
    /\ IsRows(archive) /\ NewestFirst(archive)
    /\ ~torn => Whole(listing, cursor)
    /\ \A i \in 1 .. Len(asks) : asks[i].kind = "dashboard" /\ asks[i].state = "answered" =>
          Whole(asks[i].said.page.listing, asks[i].said.page.next)
    /\ PagesAreApart /\ \A i \in 1 .. Len(asks) : PageInv(i)

ConsoleInv ==
    AsksInv /\ SessionInv /\ SignInInv /\ CuratingInv /\ FormInv /\ ShelfInv /\ TimelineInv

-----------------------------------------------------------------------------
(* Sequences and requests.                                                  *)

LEMMA SequenceOf ==
  ASSUME NEW s, IsSequence(s)
  PROVE  \E S : s \in Seq(S)
<1> DEFINE S == {s[i] : i \in 1 .. Len(s)}
<1>1. s \in [1 .. Len(s) -> S]
  BY DEF IsSequence
<1>2. s \in Seq(S)
  BY <1>1, SeqDef DEF IsSequence
<1>3. QED
  BY <1>2

LEMMA IsSequenceOf ==
  ASSUME NEW S, NEW s \in Seq(S)
  PROVE  IsSequence(s)
  BY DEF IsSequence

(* A sequence with one element more, one element replaced, or another       *)
(* sequence after it.                                                       *)
Extends(r, q, x) ==
    /\ IsSequence(r) /\ Len(r) = Len(q) + 1 /\ r[Len(q) + 1] = x
    /\ \A i \in 1 .. Len(q) : r[i] = q[i]
Replaces(r, q, i, x) ==
    /\ IsSequence(r) /\ Len(r) = Len(q) /\ r[i] = x
    /\ \A j \in 1 .. Len(q) : j # i => r[j] = q[j]
Joins(r, q, s) ==
    /\ IsSequence(r) /\ Len(r) = Len(q) + Len(s)
    /\ \A i \in 1 .. Len(q) : r[i] = q[i]
    /\ \A i \in 1 .. Len(s) : r[Len(q) + i] = s[i]

LEMMA AppendExtends ==
  ASSUME NEW q, IsSequence(q), NEW x
  PROVE  Extends(Append(q, x), q, x)
<1> SUFFICES ASSUME NEW r, r = Append(q, x)
             PROVE  Extends(r, q, x)
  OBVIOUS
<1>1. PICK S : q \in Seq(S)
  BY SequenceOf
<1> DEFINE T == S \cup {x}
<1>2. q \in Seq(T) /\ x \in T
  BY <1>1
<1> HIDE DEF T
<1>3. r \in Seq(T) /\ Len(r) = Len(q) + 1
  BY <1>2
<1>4. (\A i \in 1 .. Len(q) : r[i] = q[i]) /\ r[Len(q) + 1] = x
  BY <1>2
<1>5. QED
  BY <1>3, <1>4, IsSequenceOf DEF Extends

LEMMA ExceptReplaces ==
  ASSUME NEW q, IsSequence(q), NEW i \in 1 .. Len(q), NEW x
  PROVE  Replaces([q EXCEPT ![i] = x], q, i, x)
<1> SUFFICES ASSUME NEW r, r = [q EXCEPT ![i] = x]
             PROVE  Replaces(r, q, i, x)
  OBVIOUS
<1>1. PICK S : q \in Seq(S)
  BY SequenceOf
<1> DEFINE T == S \cup {x}
<1>2. q \in Seq(T) /\ x \in T
  BY <1>1
<1> HIDE DEF T
<1>3. r \in Seq(T) /\ Len(r) = Len(q)
  BY <1>2
<1>4. (\A j \in 1 .. Len(q) : j # i => r[j] = q[j]) /\ r[i] = x
  BY <1>2
<1>5. QED
  BY <1>3, <1>4, IsSequenceOf DEF Replaces

LEMMA ConcatJoins ==
  ASSUME NEW q, IsSequence(q), NEW s, IsSequence(s)
  PROVE  Joins(q \o s, q, s)
<1> SUFFICES ASSUME NEW r, r = q \o s
             PROVE  Joins(r, q, s)
  OBVIOUS
<1>1. PICK S : q \in Seq(S)
  BY SequenceOf
<1>2. PICK T : s \in Seq(T)
  BY SequenceOf
<1> DEFINE U == S \cup T
<1>3. q \in Seq(U) /\ s \in Seq(U)
  BY <1>1, <1>2
<1> HIDE DEF U
<1>4. r \in Seq(U) /\ Len(r) = Len(q) + Len(s)
  BY <1>3
<1>5. \A i \in 1 .. Len(q) : r[i] = q[i]
  BY <1>3
<1>6. ASSUME NEW i \in 1 .. Len(s) PROVE r[Len(q) + i] = s[i]
  BY <1>3
<1>7. QED
  BY <1>4, <1>5, <1>6, IsSequenceOf DEF Joins

LEMMA AskFields ==
  ASSUME NEW kind, NEW arg, NEW key, NEW state, NEW said, NEW at, NEW fresh, NEW a,
         a = AskRecord(kind, arg, key, state, said, at, fresh)
  PROVE  /\ a.kind = kind /\ a.arg = arg /\ a.bearer = key /\ a.state = state
         /\ a.said = said /\ a.at = at /\ a.fresh = fresh
  BY DEF AskRecord

Says(a, state, said, at) == [a EXCEPT !.state = state, !.said = said, !.at = at]

LEMMA AskSays ==
  ASSUME NEW kind, NEW arg, NEW key, NEW state, NEW said, NEW at, NEW fresh \in BOOLEAN, NEW a,
         a = AskRecord(kind, arg, key, state, said, at, fresh), NEW other, NEW said2, NEW at2
  PROVE  Says(a, other, said2, at2) = AskRecord(kind, arg, key, other, said2, at2, fresh)
<1>1. Says(a, other, said2, at2) = [[[a EXCEPT !.state = other] EXCEPT !.said = said2] EXCEPT !.at = at2]
  BY DEF Says
<1>2. [a EXCEPT !.state = other] = AskRecord(kind, arg, key, other, said, at, fresh)
  BY DEF AskRecord
<1>3. [AskRecord(kind, arg, key, other, said, at, fresh) EXCEPT !.said = said2]
      = AskRecord(kind, arg, key, other, said2, at, fresh)
  BY DEF AskRecord
<1>4. [AskRecord(kind, arg, key, other, said2, at, fresh) EXCEPT !.at = at2]
      = AskRecord(kind, arg, key, other, said2, at2, fresh)
  BY DEF AskRecord
<1>5. QED
  BY <1>1, <1>2, <1>3, <1>4

LEMMA OverFields == Over.kind = "none" /\ Over.state = "done"
  BY DEF Over

LEMMA AskedFields ==
  ASSUME NEW kind \in Kinds, NEW arg, NEW key, NEW a, a = Asked(kind, arg, key)
  PROVE  /\ IsAsk(a) /\ a.kind = kind /\ a.arg = arg /\ a.state = "sent"
         /\ a.at = 0 /\ a.fresh
<1>1. PICK none, yes : /\ a = AskRecord(kind, arg, key, "sent", none, 0, yes)
                       /\ yes \in BOOLEAN /\ yes
  BY DEF Asked, AskRecord
<1>2. /\ a.kind = kind /\ a.arg = arg /\ a.bearer = key /\ a.state = "sent"
      /\ a.said = none /\ a.at = 0 /\ a.fresh = yes
  BY <1>1 DEF AskRecord
<1>3. a = AskRecord(a.kind, a.arg, a.bearer, a.state, a.said, a.at, a.fresh)
  BY <1>1, <1>2
<1>4. a.fresh \in BOOLEAN /\ a.fresh
  BY <1>1, <1>2
<1>5. IsAsk(a)
  BY <1>2, <1>3, <1>4 DEF IsAsk
<1>6. QED
  BY <1>2, <1>4, <1>5

-----------------------------------------------------------------------------
(* What a step does to the requests: one of them may be over, the others    *)
(* stand, and one may be sent.                                              *)
Stands(j) ==
    /\ asks'[j].kind = asks[j].kind /\ asks'[j].arg = asks[j].arg /\ asks'[j].state = asks[j].state
    /\ asks'[j].said = asks[j].said /\ asks'[j].at = asks[j].at
    /\ asks'[j] = asks[j] \/ (asks[j].kind = "page" /\ asks'[j].fresh = FALSE)
IsNew(j, kind, arg) ==
    /\ IsAsk(asks'[j]) /\ asks'[j].kind = kind /\ asks'[j].arg = arg /\ asks'[j].state = "sent"
    /\ asks'[j].at = 0 /\ asks'[j].fresh = TRUE
Goes(i, kinds) ==
    /\ IsSequence(asks') /\ Len(asks) <= Len(asks')
    /\ \A j \in 1 .. Len(asks') : asks'[j] = Over \/ IsAsk(asks'[j])
    /\ \A j \in 1 .. Len(asks) : IF j = i THEN asks'[j] = Over ELSE Stands(j)
    /\ \A j \in 1 .. Len(asks') : j \notin 1 .. Len(asks) =>
          j = Len(asks) + 1 /\ \E kind, arg : kind \in kinds /\ IsNew(j, kind, arg)

LEMMA Indices ==
  ASSUME AsksInv
  PROVE  Len(asks) \in Nat
  BY DEF AsksInv, IsSequence

LEMMA Quiet ==
  ASSUME AsksInv, asks' = asks
  PROVE  Goes(0, {})
  BY Indices DEF AsksInv, Goes, Stands

(* The reader sends a request.                                              *)
LEMMA Sends ==
  ASSUME AsksInv, NEW kind \in Kinds, NEW arg, Asks(asks, kind, arg)
  PROVE  /\ Goes(0, {kind}) /\ Len(asks') = Len(asks) + 1 /\ IsNew(Len(asks) + 1, kind, arg)
         /\ \A j \in 1 .. Len(asks) : asks'[j] = asks[j]
<1>1. PICK a : a = Asked(kind, arg, ReadToken) /\ asks' = Append(asks, a)
  BY DEF Asks
<1>2. IsSequence(asks)
  BY DEF AsksInv
<1>3. /\ IsSequence(asks') /\ Len(asks') = Len(asks) + 1 /\ asks'[Len(asks) + 1] = a
      /\ \A j \in 1 .. Len(asks) : asks'[j] = asks[j]
  BY <1>1, <1>2, AppendExtends DEF Extends
<1>4. IsAsk(a) /\ a.kind = kind /\ a.arg = arg /\ a.state = "sent" /\ a.at = 0 /\ a.fresh
  BY <1>1, AskedFields
<1>5. a.fresh = TRUE
  BY <1>4 DEF IsAsk
<1>6. IsNew(Len(asks) + 1, kind, arg)
  BY <1>3, <1>4, <1>5 DEF IsNew
<1>7. \A j \in 1 .. Len(asks') : j \in 1 .. Len(asks) \/ j = Len(asks) + 1
  BY <1>3, Indices
<1>8. \A j \in 1 .. Len(asks') : asks'[j] = Over \/ IsAsk(asks'[j])
  BY <1>3, <1>4, <1>7 DEF AsksInv
<1>9. \A j \in 1 .. Len(asks) : j # 0 /\ Stands(j)
  BY <1>3 DEF Stands
<1>10. QED
  BY <1>3, <1>6, <1>7, <1>8, <1>9, Indices DEF Goes

(* The page moves, and asks for the session whose screen it comes to.       *)
LEMMA Moved ==
  ASSUME NEW p, NEW q, IsSequence(q), NEW signed, Moves(p, q, signed)
  PROVE  /\ place' = p /\ IsSequence(asks') /\ \A j \in 1 .. Len(q) : asks'[j] = q[j]
         /\ \/ Len(asks') = Len(q) /\ (opening' = 0 \/ (opening' = opening /\ SessionOf(p) = SessionOf(place)))
            \/ /\ Len(asks') = Len(q) + 1 /\ opening' = Len(q) + 1
               /\ SessionOf(p) = p /\ p # Nowhere /\ IsNew(Len(q) + 1, "session", p)
<1>1. place' = p
  BY DEF Moves
<1>2. CASE asks' = q
  <2>1. opening' = 0 \/ (opening' = opening /\ SessionOf(p) = SessionOf(place))
    <3>1. CASE Len(q) < MaxAsks[errand] /\ asks' = Append(q, Asked("session", p, bearer))
      <4>1. PICK a : asks' = Append(q, a)
        BY <3>1
      <4>2. Len(asks') = Len(q) + 1 /\ Len(q) \in Nat
        BY <4>1, AppendExtends DEF Extends, IsSequence
      <4>3. QED
        BY <4>2, <1>2
    <3>2. QED
      BY <3>1 DEF Moves
  <2>2. QED
    BY <1>1, <1>2, <2>1
<1>3. CASE /\ SessionOf(p) # Nowhere /\ opening' = Len(q) + 1
           /\ asks' = Append(q, Asked("session", p, bearer))
  <2>1. PICK a : a = Asked("session", p, bearer) /\ asks' = Append(q, a)
    BY <1>3
  <2>2. /\ IsSequence(asks') /\ Len(asks') = Len(q) + 1 /\ asks'[Len(q) + 1] = a
        /\ \A j \in 1 .. Len(q) : asks'[j] = q[j]
    BY <2>1, AppendExtends DEF Extends
  <2>3. IsAsk(a) /\ a.kind = "session" /\ a.arg = p /\ a.state = "sent" /\ a.at = 0 /\ a.fresh
    BY <2>1, AskedFields DEF Kinds
  <2>4. a.fresh = TRUE
    BY <2>3 DEF IsAsk
  <2>5. IsNew(Len(q) + 1, "session", p)
    BY <2>2, <2>3, <2>4 DEF IsNew
  <2>6. SessionOf(p) = p /\ p # Nowhere
    BY <1>3 DEF SessionOf
  <2>7. QED
    BY <1>1, <1>3, <2>2, <2>5, <2>6
<1>4. QED
  BY <1>2, <1>3 DEF Moves

LEMMA MovesOn ==
  ASSUME AsksInv, NEW p, NEW signed, Moves(p, asks, signed)
  PROVE  Goes(0, {"session"})
<1>1. /\ IsSequence(asks') /\ \A j \in 1 .. Len(asks) : asks'[j] = asks[j]
      /\ Len(asks') = Len(asks) \/ (Len(asks') = Len(asks) + 1 /\ IsNew(Len(asks) + 1, "session", p))
  BY Moved DEF AsksInv
<1>2. \A j \in 1 .. Len(asks') : j \notin 1 .. Len(asks) => j = Len(asks) + 1 /\ IsNew(j, "session", p)
  BY <1>1, Indices
<1>3. \A j \in 1 .. Len(asks') : asks'[j] = Over \/ IsAsk(asks'[j])
  BY <1>1, <1>2 DEF AsksInv, IsNew
<1>4. \A j \in 1 .. Len(asks) : j # 0 /\ Stands(j)
  BY <1>1 DEF Stands
<1>5. QED
  BY <1>1, <1>2, <1>3, <1>4, Indices DEF Goes

(* An answer is applied: its request is over, and for a new dashboard the   *)
(* pages that are on their way are of an earlier one.                       *)
Ended(q, i) ==
    /\ IsSequence(q) /\ Len(q) = Len(asks) /\ q[i] = Over
    /\ \A j \in 1 .. Len(asks) : j # i =>
          \/ q[j] = asks[j]
          \/ /\ asks[j].kind = "page" /\ IsAsk(q[j]) /\ q[j].fresh = FALSE
             /\ q[j].kind = asks[j].kind /\ q[j].arg = asks[j].arg /\ q[j].state = asks[j].state
             /\ q[j].said = asks[j].said /\ q[j].at = asks[j].at

LEMMA ClosedEnds ==
  ASSUME AsksInv, NEW i \in 1 .. Len(asks)
  PROVE  Ended(Closed(i), i)
<1>1. Replaces(Closed(i), asks, i, Over)
  BY ExceptReplaces DEF Closed, AsksInv
<1>2. QED
  BY <1>1 DEF Replaces, Ended

Ageing(i) == [j \in 1 .. Len(asks) |->
    IF j = i THEN Over ELSE IF asks[j].kind = "page" THEN [asks[j] EXCEPT !.fresh = FALSE] ELSE asks[j]]

LEMMA AgeingEnds ==
  ASSUME AsksInv, NEW i \in 1 .. Len(asks)
  PROVE  Ended(Ageing(i), i) /\ \A j \in 1 .. Len(asks) : Ageing(i)[j].kind = "page" => Ageing(i)[j].fresh = FALSE
<1> SUFFICES ASSUME NEW q, q = Ageing(i)
             PROVE  Ended(q, i) /\ \A j \in 1 .. Len(asks) : q[j].kind = "page" => q[j].fresh = FALSE
  OBVIOUS
<1> DEFINE S == {q[j] : j \in 1 .. Len(asks)}
<1>1. q \in [1 .. Len(asks) -> S] /\ Len(asks) \in Nat
  BY Indices DEF Ageing
<1>2. q \in Seq(S) /\ Len(q) = Len(asks)
  BY <1>1, IsASeq
<1>3. IsSequence(q)
  BY <1>2, IsSequenceOf
<1>4. q[i] = Over
  BY DEF Ageing
<1>5. ASSUME NEW j \in 1 .. Len(asks), j # i, asks[j].kind = "page"
      PROVE  /\ IsAsk(q[j]) /\ q[j].fresh = FALSE
             /\ q[j].kind = asks[j].kind /\ q[j].arg = asks[j].arg /\ q[j].state = asks[j].state
             /\ q[j].said = asks[j].said /\ q[j].at = asks[j].at
  <2>1. PICK a : a = asks[j]
    OBVIOUS
  <2>2. IsAsk(a) /\ a = AskRecord(a.kind, a.arg, a.bearer, a.state, a.said, a.at, a.fresh)
    BY <2>1, <1>5, OverFields DEF AsksInv, IsAsk
  <2>3. PICK no : no \in BOOLEAN /\ no = FALSE
    OBVIOUS
  <2>4. q[j] = [a EXCEPT !.fresh = no]
    BY <1>5, <2>1, <2>3 DEF Ageing
  <2>5. q[j] = AskRecord(a.kind, a.arg, a.bearer, a.state, a.said, a.at, no)
    BY <2>2, <2>4 DEF AskRecord
  <2>6. PICK b : b = q[j]
    OBVIOUS
  <2>7. /\ b.kind = a.kind /\ b.arg = a.arg /\ b.bearer = a.bearer /\ b.state = a.state
        /\ b.said = a.said /\ b.at = a.at /\ b.fresh = no
    BY <2>5, <2>6 DEF AskRecord
  <2>8. IsAsk(b)
    BY <2>2, <2>3, <2>5, <2>6, <2>7 DEF IsAsk
  <2>9. QED
    BY <2>1, <2>3, <2>6, <2>7, <2>8
<1>6. \A j \in 1 .. Len(asks) : j # i /\ asks[j].kind # "page" => q[j] = asks[j]
  BY DEF Ageing
<1>7. Ended(q, i)
  BY <1>2, <1>3, <1>4, <1>5, <1>6 DEF Ended
<1>8. \A j \in 1 .. Len(asks) : q[j].kind = "page" => q[j].fresh = FALSE
  BY <1>4, <1>5, <1>6, OverFields
<1>9. QED
  BY <1>7, <1>8

(* The page may move with it.                                               *)
LEMMA EndsAndMoves ==
  ASSUME AsksInv, NEW i \in 1 .. Len(asks), NEW q, Ended(q, i), NEW p, NEW signed,
         asks' = q \/ Moves(p, q, signed)
  PROVE  Goes(i, {"session"})
<1>1. /\ IsSequence(asks') /\ \A j \in 1 .. Len(q) : asks'[j] = q[j]
      /\ Len(asks') = Len(q) \/ (Len(asks') = Len(q) + 1 /\ IsNew(Len(q) + 1, "session", p))
  <2>1. CASE asks' = q
    BY <2>1 DEF Ended
  <2>2. CASE Moves(p, q, signed)
    BY <2>2, Moved DEF Ended
  <2>3. QED
    BY <2>1, <2>2
<1>2. Len(q) = Len(asks) /\ q[i] = Over
  BY DEF Ended
<1>3. \A j \in 1 .. Len(asks') : j \notin 1 .. Len(asks) => j = Len(asks) + 1 /\ IsNew(j, "session", p)
  BY <1>1, <1>2, Indices
<1>4. ASSUME NEW j \in 1 .. Len(asks), j # i
      PROVE  Stands(j) /\ (asks'[j] = Over \/ IsAsk(asks'[j]))
  <2>1. asks'[j] = q[j]
    BY <1>1, <1>2
  <2>2. CASE q[j] = asks[j]
    BY <2>1, <2>2 DEF Stands, AsksInv
  <2>3. CASE q[j] # asks[j]
    BY <2>1, <2>3, <1>4 DEF Stands, Ended
  <2>4. QED
    BY <2>2, <2>3
<1>5. asks'[i] = Over
  BY <1>1, <1>2
<1>6. \A j \in 1 .. Len(asks') : asks'[j] = Over \/ IsAsk(asks'[j])
  BY <1>3, <1>4, <1>5 DEF IsNew
<1>7. \A j \in 1 .. Len(asks) : IF j = i THEN asks'[j] = Over ELSE Stands(j)
  BY <1>4, <1>5
<1>8. QED
  BY <1>1, <1>2, <1>3, <1>6, <1>7, Indices DEF Goes

LEMMA Ends ==
  ASSUME AsksInv, NEW i \in 1 .. Len(asks), asks' = Closed(i)
  PROVE  Goes(i, {}) /\ Len(asks') = Len(asks)
<1>1. Ended(asks', i)
  BY ClosedEnds
<1>2. Len(asks') = Len(asks)
  BY <1>1 DEF Ended
<1>3. Goes(i, {"session"})
  BY <1>1, EndsAndMoves
<1>4. QED
  BY <1>2, <1>3 DEF Goes

LEMMA ArrivesThenLoads ==
  ASSUME AsksInv, NEW i \in 1 .. Len(asks), ArriveLogin(i)
  PROVE  /\ Goes(i, {"dashboard"}) /\ Len(asks') = Len(asks) + 1
         /\ IsNew(Len(asks) + 1, "dashboard", 0)
<1>1. PICK q : q = Closed(i)
  OBVIOUS
<1>2. Ended(q, i)
  BY <1>1, ClosedEnds
<1>3. PICK a : a = Asked("dashboard", 0, bearer') /\ asks' = Append(q, a)
  BY <1>1 DEF ArriveLogin
<1>4. IsSequence(q) /\ Len(q) = Len(asks) /\ q[i] = Over
  BY <1>2 DEF Ended
<1>5. /\ IsSequence(asks') /\ Len(asks') = Len(q) + 1 /\ asks'[Len(q) + 1] = a
      /\ \A j \in 1 .. Len(q) : asks'[j] = q[j]
  BY <1>3, <1>4, AppendExtends DEF Extends
<1>6. IsAsk(a) /\ a.kind = "dashboard" /\ a.arg = 0 /\ a.state = "sent" /\ a.at = 0 /\ a.fresh
  BY <1>3, AskedFields DEF Kinds
<1>7. a.fresh = TRUE
  BY <1>6 DEF IsAsk
<1>8. IsNew(Len(asks) + 1, "dashboard", 0)
  BY <1>4, <1>5, <1>6, <1>7 DEF IsNew
<1>9. \A j \in 1 .. Len(asks') : j \in 1 .. Len(asks) \/ j = Len(asks) + 1
  BY <1>4, <1>5, Indices
<1>10. ASSUME NEW j \in 1 .. Len(asks), j # i
       PROVE  Stands(j) /\ (asks'[j] = Over \/ IsAsk(asks'[j]))
  <2>1. asks'[j] = q[j]
    BY <1>4, <1>5
  <2>2. CASE q[j] = asks[j]
    BY <2>1, <2>2 DEF Stands, AsksInv
  <2>3. CASE q[j] # asks[j]
    BY <2>1, <2>3, <1>2, <1>10 DEF Stands, Ended
  <2>4. QED
    BY <2>2, <2>3
<1>11. asks'[i] = Over
  BY <1>4, <1>5
<1>12. \A j \in 1 .. Len(asks') : asks'[j] = Over \/ IsAsk(asks'[j])
  BY <1>8, <1>9, <1>10, <1>11 DEF IsNew
<1>13. \A j \in 1 .. Len(asks) : IF j = i THEN asks'[j] = Over ELSE Stands(j)
  BY <1>10, <1>11
<1>14. QED
  BY <1>4, <1>5, <1>8, <1>9, <1>12, <1>13, Indices DEF Goes

(* The archive answers a request or refuses it, or it is lost.              *)
TurnsTo(i, state, said, at) ==
    /\ IsSequence(asks') /\ Len(asks') = Len(asks) /\ \A j \in 1 .. Len(asks) : j # i => asks'[j] = asks[j]
    /\ IsAsk(asks[i]) /\ IsAsk(asks'[i])
    /\ asks'[i].kind = asks[i].kind /\ asks'[i].arg = asks[i].arg /\ asks'[i].fresh = asks[i].fresh
    /\ asks'[i].state = state /\ asks'[i].said = said /\ asks'[i].at = at

LEMMA Turned ==
  ASSUME AsksInv, NEW i \in 1 .. Len(asks), asks[i].state # "done",
         NEW state \in {"answered", "refused", "dropped"}, NEW said, NEW at \in Nat,
         state = "refused" \/ (state = "dropped" /\ asks[i].kind # "collection") => at = 0,
         asks' = [asks EXCEPT ![i] = AskRecord(asks[i].kind, asks[i].arg, asks[i].bearer, state, said, at, asks[i].fresh)]
  PROVE  TurnsTo(i, state, said, at)
<1>1. PICK a : a = asks[i]
  OBVIOUS
<1>2. IsAsk(a)
  BY <1>1, OverFields DEF AsksInv
<1>3. PICK r : r = AskRecord(a.kind, a.arg, a.bearer, state, said, at, a.fresh)
  OBVIOUS
<1>4. /\ r.kind = a.kind /\ r.arg = a.arg /\ r.bearer = a.bearer /\ r.state = state
      /\ r.said = said /\ r.at = at /\ r.fresh = a.fresh
  BY <1>3 DEF AskRecord
<1>5. r.state # "sent" /\ (r.state = "refused" \/ (r.state = "dropped" /\ r.kind # "collection") => r.at = 0)
  BY <1>1, <1>4
<1>6. IsAsk(r)
  BY <1>2, <1>3, <1>4, <1>5 DEF IsAsk
<1>7. Replaces(asks', asks, i, r)
  BY <1>1, <1>3, ExceptReplaces DEF AsksInv
<1>8. QED
  BY <1>1, <1>2, <1>4, <1>6, <1>7 DEF Replaces, TurnsTo

LEMMA ServedTurns ==
  ASSUME AsksInv, NEW i \in 1 .. Len(asks), asks[i].state = "sent", NEW said, Served(i, said), serves' \in Nat
  PROVE  TurnsTo(i, "answered", said, serves')
<1>1. PICK a, at : a = asks[i] /\ at = serves'
  OBVIOUS
<1>2. a = AskRecord(a.kind, a.arg, a.bearer, a.state, a.said, a.at, a.fresh) /\ a.fresh \in BOOLEAN
  BY <1>1, OverFields DEF AsksInv, IsAsk
<1>3. asks' = [asks EXCEPT ![i] = Says(a, "answered", said, at)]
  BY <1>1, SequenceOf DEF Served, AsksInv, Says
<1>4. Says(a, "answered", said, at) = AskRecord(a.kind, a.arg, a.bearer, "answered", said, at, a.fresh)
  BY <1>2, AskSays
<1>5. asks' = [asks EXCEPT ![i] = AskRecord(a.kind, a.arg, a.bearer, "answered", said, at, a.fresh)]
  BY <1>3, <1>4
<1>6. QED
  BY <1>1, <1>5, Turned

LEMMA LostTurns ==
  ASSUME AsksInv, NEW i \in 1 .. Len(asks), asks[i].state # "done",
         NEW state \in {"refused", "dropped"}, asks[i].state = "sent" \/ (state = "dropped" /\ asks[i].kind = "collection"),
         asks' = [asks EXCEPT ![i] = [asks[i] EXCEPT !.state = state]]
  PROVE  TurnsTo(i, state, asks[i].said, asks[i].at)
<1>1. PICK a : a = asks[i]
  OBVIOUS
<1>2. IsAsk(a)
  BY <1>1, OverFields DEF AsksInv
<1>3. [a EXCEPT !.state = state] = AskRecord(a.kind, a.arg, a.bearer, state, a.said, a.at, a.fresh)
  BY <1>2 DEF AskRecord, IsAsk
<1>4. asks' = [asks EXCEPT ![i] = AskRecord(a.kind, a.arg, a.bearer, state, a.said, a.at, a.fresh)]
  BY <1>1, <1>3
<1>5. a.at \in Nat /\ (state = "refused" \/ (state = "dropped" /\ a.kind # "collection") => a.at = 0)
  BY <1>1, <1>2 DEF IsAsk
<1>6. /\ state \in {"answered", "refused", "dropped"} /\ asks[i].at \in Nat
      /\ state = "refused" \/ (state = "dropped" /\ asks[i].kind # "collection") => asks[i].at = 0
      /\ asks' = [asks EXCEPT ![i] = AskRecord(asks[i].kind, asks[i].arg, asks[i].bearer, state, asks[i].said,
                                              asks[i].at, asks[i].fresh)]
  BY <1>1, <1>4, <1>5
<1>7. QED
  BY <1>6, Turned

(* What the archive says, by what it is asked.                              *)
Answers(i, said) ==
    /\ asks[i].kind \in {"dashboard", "page", "session", "login"} => library' = library
    /\ asks[i].kind = "dashboard" => said.page = Page(0) /\ said.shelf = Shelf(library)
    /\ asks[i].kind = "page" => said = Page(asks[i].arg)
    /\ asks[i].kind = "session" => said = asks[i].arg
    /\ asks[i].kind = "collection" => library' = library + 1 /\ said = library + 1

LEMMA ServeEffect ==
  ASSUME AsksInv, NEW i \in 1 .. Len(asks), ServeAsk(i)
  PROVE  /\ asks[i].state = "sent" /\ asks[i].at = 0 /\ serves' \in Nat
         /\ serves' = IF errand = "curating" /\ asks[i].kind \in {"dashboard", "collection"}
                      THEN serves + 1 ELSE serves
         /\ \/ \E said : TurnsTo(i, "answered", said, serves') /\ Answers(i, said)
            \/ /\ \E state \in {"refused", "dropped"} : TurnsTo(i, state, asks[i].said, 0)
               /\ library' = library
<1>1. /\ asks[i].state = "sent"
      /\ serves' = IF errand = "curating" /\ asks[i].kind \in {"dashboard", "collection"}
                   THEN serves + 1 ELSE serves
  BY DEF ServeAsk
<1>2. serves' \in Nat
  BY <1>1 DEF AsksInv
<1>3. IsAsk(asks[i])
  BY <1>1, OverFields DEF AsksInv
<1>4. asks[i].at = 0 /\ asks[i].kind \in Kinds
  BY <1>1, <1>3 DEF IsAsk
<1>5. CASE asks' = [asks EXCEPT ![i] = [asks[i] EXCEPT !.state = "refused"]] /\ library' = library
  <2>1. TurnsTo(i, "refused", asks[i].said, asks[i].at)
    BY <1>1, <1>5, LostTurns
  <2>2. QED
    BY <2>1, <1>1, <1>2, <1>4, <1>5
<1>6. CASE asks' = [asks EXCEPT ![i] = [asks[i] EXCEPT !.state = "dropped"]] /\ library' = library
  <2>1. TurnsTo(i, "dropped", asks[i].said, asks[i].at)
    BY <1>1, <1>6, LostTurns
  <2>2. QED
    BY <2>1, <1>1, <1>2, <1>4, <1>6
<1>7. ASSUME NEW said, Served(i, said), Answers(i, said)
      PROVE  \E x : TurnsTo(i, "answered", x, serves') /\ Answers(i, x)
  BY <1>1, <1>2, <1>7, ServedTurns
<1>8. CASE asks[i].kind = "login"
  <2>1. Served(i, granted + 1) /\ library' = library
    BY <1>8 DEF ServeAsk
  <2>2. Answers(i, granted + 1)
    BY <2>1, <1>8 DEF Answers
  <2>3. QED
    BY <2>1, <2>2, <1>7, <1>1, <1>2, <1>4
<1>9. CASE asks[i].kind # "login" /\ (asks[i].bearer = 0 \/ asks[i].bearer # accepted)
  <2>1. asks' = [asks EXCEPT ![i] = [asks[i] EXCEPT !.state = "refused"]] /\ library' = library
    BY <1>9, SequenceOf DEF ServeAsk, AsksInv
  <2>2. QED
    BY <2>1, <1>5
<1>10. CASE asks[i].kind = "dashboard" /\ ~(asks[i].bearer = 0 \/ asks[i].bearer # accepted)
  <2>1. PICK said : said = [page |-> Page(0), shelf |-> Shelf(library)] /\ Served(i, said) /\ library' = library
    BY <1>10 DEF ServeAsk, Shelf
  <2>2. PICK page, row : page = Page(0) /\ row = Shelf(library)
    OBVIOUS
  <2>3. said = [page |-> page, shelf |-> row]
    BY <2>1, <2>2
  <2>4. said.page = page /\ said.shelf = row
    BY <2>3
  <2>5. Answers(i, said)
    BY <2>1, <2>2, <2>4, <1>10 DEF Answers
  <2>6. QED
    BY <2>1, <2>5, <1>7, <1>1, <1>2, <1>4
<1>11. CASE asks[i].kind = "page" /\ ~(asks[i].bearer = 0 \/ asks[i].bearer # accepted)
  <2>1. PICK said : said = Page(asks[i].arg) /\ Served(i, said) /\ library' = library
    BY <1>11 DEF ServeAsk
  <2>2. Answers(i, said)
    BY <2>1, <1>11 DEF Answers
  <2>3. QED
    BY <2>1, <2>2, <1>7, <1>1, <1>2, <1>4
<1>12. CASE asks[i].kind = "session" /\ ~(asks[i].bearer = 0 \/ asks[i].bearer # accepted)
  <2>1. library' = library
    BY <1>12 DEF ServeAsk
  <2>2. CASE Served(i, asks[i].arg)
    <3>1. Answers(i, asks[i].arg)
      BY <2>1, <1>12 DEF Answers
    <3>2. QED
      BY <2>2, <3>1, <1>7, <1>1, <1>2, <1>4
  <2>3. CASE ~Served(i, asks[i].arg)
    <3>1. asks' = [asks EXCEPT ![i] = [asks[i] EXCEPT !.state = "dropped"]]
      BY <2>3, <1>12, SequenceOf DEF ServeAsk, AsksInv
    <3>2. QED
      BY <3>1, <2>1, <1>6
  <2>4. QED
    BY <2>2, <2>3
<1>13. CASE asks[i].kind = "collection" /\ ~(asks[i].bearer = 0 \/ asks[i].bearer # accepted)
  <2>1. Served(i, library + 1) /\ library' = library + 1
    BY <1>13 DEF ServeAsk
  <2>2. Answers(i, library + 1)
    BY <2>1, <1>13 DEF Answers
  <2>3. QED
    BY <2>1, <2>2, <1>7, <1>1, <1>2, <1>4
<1>14. QED
  BY <1>4, <1>8, <1>9, <1>10, <1>11, <1>12, <1>13 DEF Kinds

LEMMA DropEffect ==
  ASSUME AsksInv, NEW i \in 1 .. Len(asks), Drop(i)
  PROVE  /\ asks[i].state = "sent" \/ (asks[i].state = "answered" /\ asks[i].kind = "collection")
         /\ TurnsTo(i, "dropped", asks[i].said, asks[i].at)
<1>1. asks[i].state = "sent" \/ (asks[i].state = "answered" /\ asks[i].kind = "collection")
  BY DEF Drop
<1>2. asks' = [asks EXCEPT ![i] = [asks[i] EXCEPT !.state = "dropped"]]
  BY SequenceOf DEF Drop, AsksInv
<1>3. QED
  BY <1>1, <1>2, LostTurns

(* The tab opens: the dashboard is asked for, and the session named.        *)
IsSent(a, kind, arg) ==
    IsAsk(a) /\ a.kind = kind /\ a.arg = arg /\ a.state = "sent" /\ a.at = 0
Boots(q, p) ==
    /\ IsSequence(q) /\ Len(q) \in 0 .. 2
    /\ \A i \in 1 .. Len(q) : (i = 1 /\ IsSent(q[i], "dashboard", 0)) \/ (i = 2 /\ IsSent(q[i], "session", p))
    /\ Len(q) = 2 => p \in Conversation

LEMMA BootedBoots ==
  ASSUME NEW p, NEW key
  PROVE  Boots(Booted(p, key), p) /\ (key = 0 => Len(Booted(p, key)) = 0)
<1> SUFFICES ASSUME NEW q, q = Booted(p, key)
             PROVE  Boots(q, p) /\ (key = 0 => Len(q) = 0)
  OBVIOUS
<1>1. PICK a, b : a = Asked("dashboard", 0, key) /\ b = Asked("session", p, key)
  OBVIOUS
<1>2. IsSent(a, "dashboard", 0) /\ IsSent(b, "session", p)
  BY <1>1, AskedFields DEF Kinds, IsSent
<1>3. q = IF key = 0 THEN << >> ELSE IF p \in Conversation THEN <<a, b>> ELSE <<a>>
  BY <1>1 DEF Booted
<1>4. CASE key = 0
  <2>1. q = << >>
    BY <1>3, <1>4
  <2>2. Len(q) = 0 /\ q \in Seq({})
    BY <2>1
  <2>3. IsSequence(q)
    BY <2>2, IsSequenceOf
  <2>4. QED
    BY <2>2, <2>3 DEF Boots
<1>5. CASE key # 0 /\ p \in Conversation
  <2>1. q = <<a, b>>
    BY <1>3, <1>5
  <2>2. Len(q) = 2 /\ q[1] = a /\ q[2] = b /\ q \in Seq({a, b})
    BY <2>1
  <2>3. IsSequence(q)
    BY <2>2, IsSequenceOf
  <2>4. \A i \in 1 .. Len(q) : (i = 1 /\ IsSent(q[i], "dashboard", 0)) \/ (i = 2 /\ IsSent(q[i], "session", p))
    BY <2>2, <1>2
  <2>5. QED
    BY <2>2, <2>3, <2>4, <1>5 DEF Boots
<1>6. CASE key # 0 /\ p \notin Conversation
  <2>1. q = <<a>>
    BY <1>3, <1>6
  <2>2. Len(q) = 1 /\ q[1] = a /\ q \in Seq({a})
    BY <2>1
  <2>3. IsSequence(q)
    BY <2>2, IsSequenceOf
  <2>4. \A i \in 1 .. Len(q) : i = 1 /\ IsSent(q[i], "dashboard", 0)
    BY <2>2, <1>2
  <2>5. QED
    BY <2>2, <2>3, <2>4, <1>6 DEF Boots
<1>7. QED
  BY <1>4, <1>5, <1>6

(* Every step, as a step of the requests.                                   *)
Stays == asks' = asks
Wanders == \E p, signed : Moves(p, asks, signed)
EndsWith(i) == \E q, p, signed : Ended(q, i) /\ (asks' = q \/ Moves(p, q, signed))

LEMMA WandersGoes ==
  ASSUME AsksInv, Wanders PROVE Goes(0, {"session"})
BY MovesOn DEF Wanders

LEMMA EndsWithGoes ==
  ASSUME AsksInv, NEW i \in 1 .. Len(asks), EndsWith(i) PROVE Goes(i, {"session"})
BY EndsAndMoves DEF EndsWith

LEMMA MovingWanders ==
  ASSUME \/ \E p \in Screens[errand] : NavigateTo(p)
         \/ \E p \in Screens[errand] \cup {"signin"} : Back(p)
         \/ SwitchUser \/ SignInAgain
  PROVE  Wanders
<1>1. CASE \E p \in Screens[errand] : NavigateTo(p)
  BY <1>1 DEF NavigateTo, Wanders
<1>2. CASE \E p \in Screens[errand] \cup {"signin"} : Back(p)
  BY <1>2 DEF Back, Wanders
<1>3. CASE SwitchUser
  BY <1>3 DEF SwitchUser, Wanders
<1>4. CASE SignInAgain
  BY <1>4 DEF SignInAgain, Wanders
<1>5. QED
  BY <1>1, <1>2, <1>3, <1>4

LEMMA ArrivingEnds ==
  ASSUME AsksInv, NEW i \in 1 .. Len(asks),
         ArriveDashboard(i) \/ ArriveNothing(i) \/ ArriveRefused(i)
  PROVE  EndsWith(i)
<1>1. CASE ArriveDashboard(i)
  <2>1. PICK q : q = Ageing(i)
    OBVIOUS
  <2>2. asks' = q \/ Moves(entering.goal, q, Authenticated)
    BY <1>1, <2>1 DEF ArriveDashboard, Ageing
  <2>3. Ended(q, i)
    BY <2>1, AgeingEnds
  <2>4. QED
    BY <2>2, <2>3 DEF EndsWith
<1>2. CASE ArriveNothing(i) \/ ArriveRefused(i)
  <2>1. PICK q : q = Closed(i)
    OBVIOUS
  <2>2. asks' = q \/ \E p, signed : Moves(p, q, signed)
    BY <1>2, <2>1 DEF ArriveNothing, ArriveRefused, GoesOn
  <2>3. Ended(q, i)
    BY <2>1, ClosedEnds
  <2>4. QED
    BY <2>2, <2>3 DEF EndsWith
<1>3. QED
  BY <1>1, <1>2

LEMMA AsksSteps ==
  ASSUME AsksInv, [ConsoleNext]_consoleVars
  PROVE  \/ \E i \in 0 .. Len(asks), kinds \in {{}, {"session"}, {"dashboard"}, {"page"}, {"collection"}, {"login"}} :
               /\ Goes(i, kinds)
               /\ "collection" \in kinds => SubmitCollection
               /\ "page" \in kinds => LoadMoreTimeline
         \/ \E i \in 1 .. Len(asks) : ServeAsk(i) \/ Drop(i)
         \/ \E p \in Screens[errand] : Boots(asks', p) /\ OpenAddress(p)
<1>1. CASE Stays
  BY <1>1, Quiet, Indices DEF Stays
<1>2. CASE Wanders
  BY <1>2, WandersGoes, Indices
<1>3. CASE LoadDashboard
  BY <1>3, Sends, Indices DEF LoadDashboard, Kinds
<1>4. CASE LoadMoreTimeline
  BY <1>4, Sends, Indices DEF LoadMoreTimeline, Kinds
<1>5. CASE SubmitCollection
  BY <1>5, Sends, Indices DEF SubmitCollection, Kinds
<1>6. CASE SubmitSignIn
  BY <1>6, Sends, Indices DEF SubmitSignIn, Kinds
<1>8. ASSUME NEW i \in 1 .. Len(asks), EndsWith(i)
      PROVE  Goes(i, {"session"}) /\ i \in 0 .. Len(asks)
  BY <1>8, EndsWithGoes, Indices
<1>9. ASSUME NEW i \in 1 .. Len(asks), asks' = Closed(i)
      PROVE  Goes(i, {}) /\ i \in 0 .. Len(asks)
  BY <1>9, Ends, Indices
<1>10. ASSUME NEW i \in 1 .. Len(asks), ArriveLogin(i)
       PROVE  Goes(i, {"dashboard"}) /\ i \in 0 .. Len(asks)
  BY <1>10, ArrivesThenLoads, Indices
<1>11. ASSUME NEW p \in Screens[errand], OpenAddress(p)
       PROVE  Boots(asks', p)
  BY <1>11, BootedBoots DEF OpenAddress
<1>12. CASE UNCHANGED consoleVars
  BY <1>12, <1>1 DEF Stays
<1>13. CASE (\E w \in {0, 1} : Edit(w)) \/ CloseCreate \/ (\E s \in Conversation : Capture(s)) \/ EndToken
  BY <1>13, <1>1 DEF Stays, Edit, CloseCreate, Capture, EndToken
<1>14. ASSUME NEW i \in 1 .. Len(asks), ArriveAnswer(i)
       PROVE  \E kinds \in {{}, {"session"}, {"dashboard"}} : Goes(i, kinds) /\ i \in 0 .. Len(asks)
  <2>1. CASE ArriveDashboard(i) \/ ArriveNothing(i) \/ ArriveRefused(i)
    BY <2>1, ArrivingEnds, <1>8
  <2>2. CASE ArrivePage(i) \/ ArriveSession(i) \/ ArriveCollection(i)
    BY <2>2, <1>9 DEF ArrivePage, ArriveSession, ArriveCollection
  <2>3. CASE ArriveLogin(i)
    BY <2>3, <1>10
  <2>4. QED
    BY <1>14, <2>1, <2>2, <2>3 DEF ArriveAnswer
<1>15. QED
  BY <1>2, <1>3, <1>4, <1>5, <1>6, <1>11, <1>12, <1>13, <1>14, MovingWanders DEF ConsoleNext

LEMMA CountersNext ==
  ASSUME AsksInv, [ConsoleNext]_consoleVars
  PROVE  /\ serves' \in Nat /\ seen' \in Nat /\ opens' \in Nat /\ drops' \in Nat
         /\ behind' \in BOOLEAN /\ torn' \in BOOLEAN /\ failed' \in BOOLEAN
<1>1. serves' \in {serves, serves + 1, 0}
  BY ZenonT(60) DEF ConsoleNext, NavigateTo, OpenAddress, Back, SwitchUser, SignInAgain, SubmitSignIn, LoadDashboard,
     LoadMoreTimeline, Edit, CloseCreate, SubmitCollection, ServeAsk, Drop, Capture, EndToken, ArriveAnswer,
     ArriveDashboard, ArrivePage, ArriveSession, ArriveCollection, ArriveLogin, ArriveNothing, ArriveRefused
<1>2. opens' \in {opens, opens + 1} /\ drops' \in {drops, drops + 1}
  BY ZenonT(60) DEF ConsoleNext, NavigateTo, OpenAddress, Back, SwitchUser, SignInAgain, SubmitSignIn, LoadDashboard,
     LoadMoreTimeline, Edit, CloseCreate, SubmitCollection, ServeAsk, Drop, Capture, EndToken, ArriveAnswer,
     ArriveDashboard, ArrivePage, ArriveSession, ArriveCollection, ArriveLogin, ArriveNothing, ArriveRefused
<1>3. \A i \in 1 .. Len(asks) : asks[i].state # "done" => asks[i].at \in Nat
  BY OverFields DEF AsksInv, IsAsk
<1>4. CASE UNCHANGED <<seen, behind, torn, failed>>
  BY <1>1, <1>2, <1>4 DEF AsksInv
<1>5. CASE LoadDashboard
  <2>1. failed' \in BOOLEAN /\ UNCHANGED <<seen, behind, torn>>
    BY <1>5 DEF LoadDashboard
  <2>2. QED
    BY <1>1, <1>2, <2>1 DEF AsksInv
<1>6. ASSUME NEW p \in Screens[errand], OpenAddress(p)
      PROVE  seen' \in Nat /\ behind' \in BOOLEAN /\ torn' \in BOOLEAN /\ failed' \in BOOLEAN
  <2>1. seen' = 0 /\ behind' \in BOOLEAN /\ torn' \in BOOLEAN
    BY <1>6 DEF OpenAddress
  <2>2. failed' \in BOOLEAN
    BY <1>6 DEF OpenAddress
  <2>3. QED
    BY <2>1, <2>2
<1>7. ASSUME NEW i \in 1 .. Len(asks), ArriveAnswer(i)
      PROVE  seen' \in Nat /\ behind' \in BOOLEAN /\ torn' \in BOOLEAN /\ failed' \in BOOLEAN
  <2>1. asks[i].at \in Nat
    BY <1>7, <1>3 DEF ArriveAnswer, ArriveDashboard, ArrivePage, ArriveSession, ArriveCollection,
       ArriveLogin, ArriveNothing, ArriveRefused
  <2>2. CASE ArriveDashboard(i)
    <3>1. /\ behind' = (asks[i].at < seen) /\ torn' \in BOOLEAN /\ failed' = failed
          /\ seen' = IF asks[i].at > seen THEN asks[i].at ELSE seen
      BY <2>2 DEF ArriveDashboard
    <3>2. QED
      BY <2>1, <3>1 DEF AsksInv
  <2>3. CASE ArrivePage(i)
    BY <2>1, <2>3 DEF ArrivePage, AsksInv
  <2>4. CASE ArriveSession(i)
    BY <2>1, <2>4 DEF ArriveSession, AsksInv
  <2>5. CASE ArriveCollection(i)
    <3>1. /\ behind' = (behind \/ asks[i].at < seen) /\ torn' = torn /\ failed' = failed
          /\ seen' = IF asks[i].at > seen THEN asks[i].at ELSE seen
      BY <2>5 DEF ArriveCollection
    <3>2. QED
      BY <2>1, <3>1 DEF AsksInv
  <2>6. CASE ArriveLogin(i)
    BY <2>1, <2>6 DEF ArriveLogin, AsksInv
  <2>7. CASE ArriveNothing(i) \/ ArriveRefused(i)
    <3>1. Fails(i) /\ torn' = torn
      BY <2>7 DEF ArriveNothing, ArriveRefused
    <3>2. PICK b \in BOOLEAN : b = (asks[i].kind \in {"dashboard", "page"} \/ (asks[i].kind = "session" /\ opening = i))
      OBVIOUS
    <3>3. failed' = (failed \/ b)
      BY <3>1, <3>2 DEF Fails
    <3>4. failed' \in BOOLEAN
      BY <3>3 DEF AsksInv
    <3>5. behind' \in BOOLEAN /\ seen' \in Nat
      BY <3>1, <2>1 DEF Fails, AsksInv
    <3>6. QED
      BY <3>1, <3>4, <3>5 DEF AsksInv
  <2>8. QED
    BY <1>7, <2>2, <2>3, <2>4, <2>5, <2>6, <2>7 DEF ArriveAnswer
<1>8. \/ UNCHANGED <<seen, behind, torn, failed>> \/ LoadDashboard
      \/ (\E p \in Screens[errand] : OpenAddress(p)) \/ \E i \in 1 .. Len(asks) : ArriveAnswer(i)
  BY DEF ConsoleNext, NavigateTo, Back, SwitchUser, SignInAgain, SubmitSignIn, LoadMoreTimeline, Edit,
     CloseCreate, SubmitCollection, ServeAsk, Drop, Capture, EndToken
<1>9. QED
  BY <1>1, <1>2, <1>4, <1>5, <1>6, <1>7, <1>8 DEF AsksInv

LEMMA AsksNext ==
  ASSUME AsksInv, [ConsoleNext]_consoleVars
  PROVE  AsksInv'
<1>1. IsSequence(asks') /\ \A i \in 1 .. Len(asks') : asks'[i] = Over \/ IsAsk(asks'[i])
  <2>1. ASSUME NEW i, NEW kinds, Goes(i, kinds)
        PROVE  IsSequence(asks') /\ \A j \in 1 .. Len(asks') : asks'[j] = Over \/ IsAsk(asks'[j])
    BY <2>1 DEF Goes
  <2>2. ASSUME NEW i \in 1 .. Len(asks), ServeAsk(i) \/ Drop(i)
        PROVE  IsSequence(asks') /\ \A j \in 1 .. Len(asks') : asks'[j] = Over \/ IsAsk(asks'[j])
    BY <2>2, ServeEffect, DropEffect DEF TurnsTo, AsksInv
  <2>3. ASSUME NEW p, Boots(asks', p)
        PROVE  IsSequence(asks') /\ \A j \in 1 .. Len(asks') : asks'[j] = Over \/ IsAsk(asks'[j])
    BY <2>3 DEF Boots, IsSent
  <2>4. QED
    BY <2>1, <2>2, <2>3, AsksSteps
<1>2. QED
  BY <1>1, CountersNext DEF AsksInv, Over, IsAsk, IsSequence, AskRecord

-----------------------------------------------------------------------------
(* The session on screen.                                                   *)
LEMMA OpeningKept ==
  ASSUME AsksInv, OpeningInv, opening' = opening, SessionOf(place') = SessionOf(place),
         (\E i, kinds : Goes(i, kinds)) \/ \E i, state, said, at : i \in 1 .. Len(asks) /\ TurnsTo(i, state, said, at)
  PROVE  OpeningInv'
<1>1. Len(asks) \in Nat /\ Len(asks') \in Nat /\ Len(asks) <= Len(asks')
  BY Indices DEF Goes, TurnsTo, IsSequence
<1>2. ASSUME opening # 0
      PROVE  asks'[opening] = Over \/ (asks'[opening].kind = "session" /\ asks'[opening].arg = SessionOf(place))
  <2>1. opening \in 1 .. Len(asks)
    BY <1>1, <1>2 DEF OpeningInv
  <2>2. ASSUME NEW i, NEW kinds, Goes(i, kinds)
        PROVE  asks'[opening] = Over \/ (asks'[opening].kind = "session" /\ asks'[opening].arg = SessionOf(place))
    <3>1. asks'[opening] = Over \/ Stands(opening)
      BY <2>1, <2>2 DEF Goes
    <3>2. asks'[opening] = Over \/ IsAsk(asks'[opening])
      BY <1>1, <2>1, <2>2 DEF Goes
    <3>3. asks[opening] = Over /\ Stands(opening) => asks'[opening] = Over
      BY OverFields DEF Stands
    <3>4. QED
      BY <1>2, <3>1, <3>3 DEF OpeningInv, Stands
  <2>3. ASSUME NEW i \in 1 .. Len(asks), NEW state, NEW said, NEW at, TurnsTo(i, state, said, at)
        PROVE  asks'[opening] = Over \/ (asks'[opening].kind = "session" /\ asks'[opening].arg = SessionOf(place))
    BY <1>2, <2>1, <2>3, OverFields DEF TurnsTo, OpeningInv, IsAsk, Kinds
  <2>4. QED
    BY <2>2, <2>3
<1>3. opening' \in 0 .. Len(asks')
  BY <1>1 DEF OpeningInv
<1>4. opening' # 0 => SessionOf(place') # Nowhere
  BY DEF OpeningInv
<1>5. QED
  BY <1>2, <1>3, <1>4 DEF OpeningInv, SessionOf

LEMMA OpeningMoves ==
  ASSUME AsksInv, OpeningInv, NEW p, NEW q, NEW signed, IsSequence(q), Moves(p, q, signed),
         NEW i, NEW kinds, Goes(i, kinds)
  PROVE  OpeningInv'
<1>1. /\ place' = p /\ IsSequence(asks')
      /\ \/ Len(asks') = Len(q) /\ (opening' = 0 \/ (opening' = opening /\ SessionOf(p) = SessionOf(place)))
         \/ /\ Len(asks') = Len(q) + 1 /\ opening' = Len(q) + 1
            /\ SessionOf(p) = p /\ p # Nowhere /\ IsNew(Len(q) + 1, "session", p)
  BY Moved
<1>2. Len(asks') \in Nat /\ Len(q) \in Nat
  BY <1>1 DEF IsSequence
<1>3. CASE opening' = 0
  BY <1>2, <1>3 DEF OpeningInv
<1>4. CASE opening' = opening /\ SessionOf(p) = SessionOf(place)
  BY <1>1, <1>4, OpeningKept
<1>5. CASE /\ Len(asks') = Len(q) + 1 /\ opening' = Len(q) + 1
           /\ SessionOf(p) = p /\ p # Nowhere /\ IsNew(Len(q) + 1, "session", p)
  <2>1. asks'[opening'].kind = "session" /\ asks'[opening'].arg = p
    BY <1>5 DEF IsNew
  <2>2. SessionOf(place') = p /\ p # Nowhere
    BY <1>1, <1>5
  <2>3. opening' \in 0 .. Len(asks')
    BY <1>2, <1>5
  <2>4. QED
    BY <2>1, <2>2, <2>3 DEF OpeningInv, SessionOf
<1>6. QED
  BY <1>1, <1>3, <1>4, <1>5

LEMMA OpeningNext ==
  ASSUME AsksInv, OpeningInv, [ConsoleNext]_consoleVars
  PROVE  OpeningInv'
<1>1. ASSUME opening' = opening, place' = place,
             (\E i, kinds : Goes(i, kinds)) \/ \E i, state, said, at : i \in 1 .. Len(asks) /\ TurnsTo(i, state, said, at)
      PROVE  OpeningInv'
  BY <1>1, OpeningKept
<1>2. CASE Stays /\ UNCHANGED <<opening, place>>
  BY <1>1, <1>2, Quiet DEF Stays
<1>3. CASE Wanders
  <2>1. PICK p, signed : Moves(p, asks, signed)
    BY <1>3 DEF Wanders
  <2>2. QED
    BY <2>1, <1>3, WandersGoes, OpeningMoves DEF AsksInv
<1>4. CASE LoadDashboard \/ LoadMoreTimeline \/ SubmitCollection \/ SubmitSignIn
  <2>1. \E kind, arg : kind \in Kinds /\ Asks(asks, kind, arg) /\ opening' = opening /\ place' = place
    BY <1>4 DEF LoadDashboard, LoadMoreTimeline, SubmitCollection, SubmitSignIn, Kinds
  <2>2. QED
    BY <2>1, Sends, <1>1
<1>5. ASSUME NEW i \in 1 .. Len(asks), ServeAsk(i) \/ Drop(i)
      PROVE  OpeningInv'
  <2>1. opening' = opening /\ place' = place
    BY <1>5 DEF ServeAsk, Drop
  <2>2. QED
    BY <1>5, <2>1, <1>1, ServeEffect, DropEffect
<1>6. ASSUME NEW p \in Screens[errand], OpenAddress(p)
      PROVE  OpeningInv'
  <2>1. /\ asks' = Booted(p, bearer') /\ opening' = IF Len(asks') = 2 THEN 2 ELSE 0
        /\ place' = IF bearer' # 0 THEN p ELSE "signin"
    BY <1>6 DEF OpenAddress, InitialLocation
  <2>2. Boots(asks', p) /\ (bearer' = 0 => Len(asks') = 0)
    BY <2>1, BootedBoots
  <2>3. CASE Len(asks') = 2
    <3>1. place' = p /\ p \in Conversation /\ opening' = 2
      BY <2>1, <2>2, <2>3 DEF Boots
    <3>2. SessionOf(place') = p /\ p # Nowhere
      BY <3>1, ConsoleAssumption DEF SessionOf, Nowhere
    <3>3. asks'[2].kind = "session" /\ asks'[2].arg = p
      BY <2>2, <2>3 DEF Boots, IsSent
    <3>4. QED
      BY <2>3, <3>1, <3>2, <3>3 DEF OpeningInv, SessionOf
  <2>4. CASE Len(asks') # 2
    BY <2>1, <2>2, <2>4 DEF OpeningInv, Boots
  <2>5. QED
    BY <2>3, <2>4
<1>7. ASSUME NEW i \in 1 .. Len(asks), ArriveDashboard(i) \/ ArriveNothing(i) \/ ArriveRefused(i)
      PROVE  OpeningInv'
  <2>1. PICK q : Ended(q, i) /\ \/ asks' = q /\ opening' = opening /\ place' = place
                                \/ \E p, signed : Moves(p, q, signed)
    <3>1. CASE ArriveDashboard(i)
      <4>1. PICK q : q = Ageing(i)
        OBVIOUS
      <4>2. \/ asks' = q /\ opening' = opening /\ place' = place
            \/ Moves(entering.goal, q, Authenticated)
        BY <3>1, <4>1 DEF ArriveDashboard, Ageing
      <4>3. Ended(q, i)
        BY <4>1, AgeingEnds
      <4>4. QED
        BY <4>2, <4>3
    <3>2. CASE ArriveNothing(i) \/ ArriveRefused(i)
      <4>1. PICK q : q = Closed(i)
        OBVIOUS
      <4>2. \/ asks' = q /\ opening' = opening /\ place' = place
            \/ \E p, signed : Moves(p, q, signed)
        BY <3>2, <4>1 DEF ArriveNothing, ArriveRefused, GoesOn
      <4>3. Ended(q, i)
        BY <4>1, ClosedEnds
      <4>4. QED
        BY <4>2, <4>3
    <3>3. QED
      BY <1>7, <3>1, <3>2
  <2>2. Goes(i, {"session"})
    BY <1>7, ArrivingEnds, EndsWithGoes
  <2>3. CASE asks' = q /\ opening' = opening /\ place' = place
    BY <2>2, <2>3, <1>1
  <2>4. CASE \E p, signed : Moves(p, q, signed)
    BY <2>1, <2>2, <2>4, OpeningMoves DEF Ended
  <2>5. QED
    BY <2>1, <2>3, <2>4
<1>8. ASSUME NEW i \in 1 .. Len(asks), ArrivePage(i) \/ ArriveSession(i) \/ ArriveCollection(i)
      PROVE  OpeningInv'
  <2>1. asks' = Closed(i) /\ opening' = opening /\ place' = place
    BY <1>8 DEF ArrivePage, ArriveSession, ArriveCollection
  <2>2. QED
    BY <2>1, Ends, <1>1
<1>9. ASSUME NEW i \in 1 .. Len(asks), ArriveLogin(i)
      PROVE  OpeningInv'
  <2>1. opening' = opening /\ place' = place
    BY <1>9 DEF ArriveLogin
  <2>2. QED
    BY <2>1, <1>9, ArrivesThenLoads, <1>1
<1>10. CASE UNCHANGED consoleVars
  BY <1>10, <1>2 DEF Stays
<1>11. CASE (\E w \in {0, 1} : Edit(w)) \/ CloseCreate \/ (\E s \in Conversation : Capture(s)) \/ EndToken
  BY <1>11, <1>2 DEF Stays, Edit, CloseCreate, Capture, EndToken
<1>12. QED
  BY <1>3, <1>4, <1>5, <1>6, <1>7, <1>8, <1>9, <1>10, <1>11, MovingWanders DEF ConsoleNext, ArriveAnswer

LEMMA SaidNext ==
  ASSUME AsksInv, SaidInv, [ConsoleNext]_consoleVars
  PROVE  SaidInv'
<1>1. ASSUME NEW i, NEW kinds, Goes(i, kinds)
      PROVE  SaidInv'
  <2>1. SUFFICES ASSUME NEW j \in 1 .. Len(asks'), asks'[j].kind = "session", asks'[j].state = "answered"
                 PROVE  asks'[j].said = asks'[j].arg
    BY DEF SaidInv
  <2>2. CASE j \in 1 .. Len(asks)
    <3>1. Stands(j)
      BY <1>1, <2>1, <2>2, OverFields DEF Goes
    <3>2. QED
      BY <2>1, <2>2, <3>1 DEF SaidInv, Stands
  <2>3. CASE j \notin 1 .. Len(asks)
    <3>1. asks'[j].state = "sent"
      BY <1>1, <2>3 DEF Goes, IsNew
    <3>2. QED
      BY <2>1, <3>1
  <2>4. QED
    BY <2>2, <2>3
<1>2. ASSUME NEW i \in 1 .. Len(asks), ServeAsk(i) \/ Drop(i)
      PROVE  SaidInv'
  <2>1. \/ \E said, at : TurnsTo(i, "answered", said, at) /\ (asks[i].kind = "session" => said = asks[i].arg)
        \/ \E state, said, at : state \in {"refused", "dropped"} /\ TurnsTo(i, state, said, at)
    BY <1>2, ServeEffect, DropEffect DEF Answers
  <2>2. QED
    BY <2>1 DEF TurnsTo, SaidInv
<1>3. ASSUME NEW p, Boots(asks', p)
      PROVE  SaidInv'
  BY <1>3 DEF Boots, IsSent, SaidInv
<1>4. QED
  BY <1>1, <1>2, <1>3, AsksSteps

(* No answer for another session takes the place of the one shown, and the  *)
(* one the page waited for is shown or its failure is.                      *)
LEMMA ShownStep ==
  ASSUME AsksInv, SessionInv, [ConsoleNext]_consoleVars, opens' = opens, place' = place, OpenDetail # Nowhere
  PROVE  detail' = detail
<1>1. detail # Nowhere /\ detail = SessionOf(place)
  BY DEF OpenDetail
<1>2. ASSUME NEW i \in 1 .. Len(asks), ArriveSession(i)
      PROVE  detail' = detail
  <2>1. CASE opening = i
    <3>1. asks[i].kind = "session" /\ asks[i].state = "answered" /\ detail' = asks[i].said
      BY <1>2, <2>1 DEF ArriveSession
    <3>2. i # 0
      OBVIOUS
    <3>3. asks[i].said = SessionOf(place)
      BY <2>1, <3>1, <3>2, OverFields DEF SessionInv, OpeningInv, SaidInv
    <3>4. QED
      BY <1>1, <3>1, <3>3
  <2>2. CASE opening # i
    BY <1>2, <2>2 DEF ArriveSession
  <2>3. QED
    BY <2>1, <2>2
<1>3. ASSUME NEW p, OpenAddress(p)
      PROVE  FALSE
  BY <1>3 DEF OpenAddress, AsksInv
<1>4. detail' = detail \/ (\E i \in 1 .. Len(asks) : ArriveSession(i)) \/ \E p : OpenAddress(p)
  BY ZenonT(60) DEF ConsoleNext, NavigateTo, Back, SwitchUser, SignInAgain, SubmitSignIn, LoadDashboard, LoadMoreTimeline,
     Edit, CloseCreate, SubmitCollection, ServeAsk, Drop, Capture, EndToken, ArriveAnswer, ArriveDashboard,
     ArrivePage, ArriveCollection, ArriveLogin, ArriveNothing, ArriveRefused
<1>5. QED
  BY <1>2, <1>3, <1>4

LEMMA AnsweredStep ==
  ASSUME AsksInv, SessionInv, [ConsoleNext]_consoleVars, opens' = opens,
         NEW i \in 1 .. Len(asks), opening = i, opening' = i, asks[i].state # "done", asks'[i].state = "done"
  PROVE  failed' \/ detail' = SessionOf(place)
<1>1. asks[i] # Over /\ i # 0
  BY OverFields
<1>2. IsAsk(asks[i]) /\ asks[i].kind = "session" /\ asks[i].arg = SessionOf(place)
  BY <1>1 DEF AsksInv, SessionInv, OpeningInv
<1>3. ASSUME NEW k, NEW kinds, Goes(k, kinds)
      PROVE  k = i
  BY <1>3 DEF Goes, Stands
<1>4. ASSUME Stays PROVE FALSE
  BY <1>4 DEF Stays
<1>5. ASSUME Wanders PROVE FALSE
  BY <1>5, <1>3, <1>1, WandersGoes
<1>6. ASSUME NEW kind \in Kinds, NEW arg, Asks(asks, kind, arg) PROVE FALSE
  BY <1>6, <1>3, <1>1, Sends
<1>7. ASSUME NEW k \in 1 .. Len(asks), ServeAsk(k) \/ Drop(k)
      PROVE  FALSE
  <2>1. PICK state, said, at : TurnsTo(k, state, said, at)
    BY <1>7, ServeEffect, DropEffect
  <2>2. asks'[i] = asks[i] \/ IsAsk(asks'[i])
    BY <2>1 DEF TurnsTo
  <2>3. QED
    BY <2>2 DEF IsAsk
<1>8. ASSUME NEW p, OpenAddress(p)
      PROVE  FALSE
  BY <1>8 DEF OpenAddress, AsksInv
<1>9. ASSUME NEW k \in 1 .. Len(asks), ArriveAnswer(k)
      PROVE  failed' \/ detail' = SessionOf(place)
  <2>1. CASE ArriveDashboard(k)
    <3>1. k = i
      BY <2>1, <1>3, ArrivingEnds, EndsWithGoes
    <3>2. QED
      BY <2>1, <3>1, <1>2 DEF ArriveDashboard
  <2>2. CASE ArrivePage(k) \/ ArriveCollection(k)
    <3>1. k = i
      BY <2>2, <1>3, Ends DEF ArrivePage, ArriveCollection
    <3>2. QED
      BY <2>2, <3>1, <1>2 DEF ArrivePage, ArriveCollection
  <2>3. CASE ArriveLogin(k)
    <3>1. k = i
      BY <2>3, <1>3, ArrivesThenLoads
    <3>2. QED
      BY <2>3, <3>1, <1>2 DEF ArriveLogin
  <2>4. CASE ArriveSession(k)
    <3>1. k = i
      BY <2>4, <1>3, Ends DEF ArriveSession
    <3>2. detail' = asks[i].said /\ asks[i].state = "answered"
      BY <2>4, <3>1 DEF ArriveSession
    <3>3. QED
      BY <3>2, <1>2 DEF SessionInv, SaidInv
  <2>5. CASE ArriveNothing(k) \/ ArriveRefused(k)
    <3>1. k = i
      BY <2>5, <1>3, ArrivingEnds, EndsWithGoes
    <3>2. QED
      BY <2>5, <3>1, <1>2 DEF ArriveNothing, ArriveRefused, Fails
  <2>6. QED
    BY <1>9, <2>1, <2>2, <2>3, <2>4, <2>5 DEF ArriveAnswer
<1>10. \/ Stays \/ Wanders \/ (\E kind, arg : kind \in Kinds /\ Asks(asks, kind, arg))
       \/ (\E k \in 1 .. Len(asks) : ServeAsk(k) \/ Drop(k) \/ ArriveAnswer(k)) \/ \E p : OpenAddress(p)
  <2>1. CASE LoadDashboard \/ LoadMoreTimeline \/ SubmitCollection \/ SubmitSignIn
    BY <2>1 DEF LoadDashboard, LoadMoreTimeline, SubmitCollection, SubmitSignIn, Kinds
  <2>2. CASE UNCHANGED consoleVars
    BY <2>2 DEF Stays
  <2>3. CASE (\E w \in {0, 1} : Edit(w)) \/ CloseCreate \/ (\E s \in Conversation : Capture(s)) \/ EndToken
    BY <2>3 DEF Stays, Edit, CloseCreate, Capture, EndToken
  <2>4. QED
    BY <2>1, <2>2, <2>3, MovingWanders DEF ConsoleNext
<1>11. QED
  BY <1>4, <1>5, <1>6, <1>7, <1>8, <1>9, <1>10

-----------------------------------------------------------------------------
(* Signing in.                                                              *)
LEMMA KindStands ==
  ASSUME AsksInv, NEW i, NEW kinds, Goes(i, kinds), NEW kind, kind # "none", kind \notin kinds
  PROVE  \A j \in 1 .. Len(asks') : asks'[j].kind = kind => j \in 1 .. Len(asks) /\ j # i /\ Stands(j)
<1>1. SUFFICES ASSUME NEW j \in 1 .. Len(asks'), asks'[j].kind = kind
               PROVE  j \in 1 .. Len(asks) /\ j # i /\ Stands(j)
  OBVIOUS
<1>2. j \in 1 .. Len(asks)
  BY <1>1 DEF Goes, IsNew
<1>3. j # i /\ Stands(j)
  BY <1>1, <1>2, OverFields DEF Goes
<1>4. QED
  BY <1>2, <1>3

LEMMA LoginsStand ==
  ASSUME AsksInv, NEW i, NEW kinds, Goes(i, kinds), "login" \notin kinds
  PROVE  \A j \in 1 .. Len(asks') : asks'[j].kind = "login" => j \in 1 .. Len(asks) /\ j # i /\ asks[j].kind = "login"
<1>1. \A j \in 1 .. Len(asks') : asks'[j].kind = "login" => j \in 1 .. Len(asks) /\ j # i /\ Stands(j)
  BY KindStands
<1>2. QED
  BY <1>1 DEF Stands

LEMMA LoginsTurn ==
  ASSUME NEW i \in 1 .. Len(asks), ServeAsk(i) \/ Drop(i), AsksInv
  PROVE  Len(asks') = Len(asks) /\ \A j \in 1 .. Len(asks) : asks'[j].kind = asks[j].kind
BY ServeEffect, DropEffect DEF TurnsTo

(* Being asked to sign in remembers where the reader was, the first time.   *)
LEMMA AskedToSignIn ==
  ASSUME SignInInv, AskToSignIn
  PROVE  /\ left' # Nowhere => errand = "returning" /\ left' = intended'
         /\ place = "signin" => left' = left
  BY DEF SignInInv, AskToSignIn, PlaceToReturnTo

Logins == \A i \in 1 .. Len(asks) : asks[i].kind = "login" => entering.ask = i

LEMMA SignInStands ==
  ASSUME SignInInv, UNCHANGED <<entering, left, intended, errand>>, Logins',
         place' = place \/ errand # "returning" \/ place # "signin"
  PROVE  SignInInv'
  BY DEF SignInInv, Logins, IsEntering

LEMMA LoginsKept ==
  ASSUME AsksInv, SignInInv, entering' = entering,
         \/ \E i, kinds : Goes(i, kinds) /\ "login" \notin kinds
         \/ \E i \in 1 .. Len(asks) : ServeAsk(i) \/ Drop(i)
  PROVE  Logins'
<1>1. ASSUME NEW i, NEW kinds, Goes(i, kinds), "login" \notin kinds
      PROVE  Logins'
  BY <1>1, LoginsStand DEF Logins, SignInInv
<1>2. ASSUME NEW i \in 1 .. Len(asks), ServeAsk(i) \/ Drop(i)
      PROVE  Logins'
  BY <1>2, LoginsTurn DEF Logins, SignInInv
<1>3. QED
  BY <1>1, <1>2

LEMMA SignInNext ==
  ASSUME AsksInv, SignInInv, [ConsoleNext]_consoleVars
  PROVE  SignInInv'
<1>1. CASE Stays /\ UNCHANGED <<entering, left, intended, errand, place>>
  <2>1. Logins'
    BY <1>1 DEF Stays, Logins, SignInInv
  <2>2. QED
    BY <1>1, <2>1, SignInStands
<1>2. ASSUME NEW p \in Screens[errand], NavigateTo(p)
      PROVE  SignInInv'
  <2>1. UNCHANGED <<entering, left, intended, errand>> /\ place # "signin" /\ Wanders
    BY <1>2, MovingWanders DEF NavigateTo, LeadsTo
  <2>2. QED
    BY <2>1, WandersGoes, LoginsKept, SignInStands
<1>3. CASE SwitchUser \/ \E p \in Screens[errand] \cup {"signin"} : Back(p)
  <2>1. UNCHANGED <<entering, intended, errand>> /\ errand = "moving" /\ Wanders /\ left' \in {left, Nowhere}
    BY <1>3, MovingWanders DEF SwitchUser, Back
  <2>2. left' = left
    BY <2>1 DEF SignInInv
  <2>3. Logins'
    BY <2>1, WandersGoes, LoginsKept
  <2>4. errand # "returning"
    BY <2>1
  <2>5. QED
    BY <2>1, <2>2, <2>3, <2>4, SignInStands
<1>4. CASE SignInAgain
  <2>1. entering' = entering /\ errand' = errand /\ place # "signin" /\ AskToSignIn /\ Wanders
    BY <1>4, MovingWanders DEF SignInAgain
  <2>2. Logins'
    BY <2>1, WandersGoes, LoginsKept
  <2>3. left' # Nowhere => errand = "returning" /\ left' = intended'
    BY <2>1, AskedToSignIn
  <2>4. errand = "returning" => entering.ask = 0
    BY <2>1 DEF SignInInv
  <2>5. QED
    BY <2>1, <2>2, <2>3, <2>4 DEF SignInInv, Logins, IsEntering
<1>5. CASE LoadDashboard \/ LoadMoreTimeline \/ SubmitCollection
  <2>1. /\ UNCHANGED <<entering, left, intended, errand, place>>
        /\ \E kind, arg : kind \in Kinds \ {"login"} /\ Asks(asks, kind, arg)
    BY <1>5 DEF LoadDashboard, LoadMoreTimeline, SubmitCollection, Kinds
  <2>2. Logins'
    <3>1. PICK kind, arg : kind \in Kinds \ {"login"} /\ Asks(asks, kind, arg)
      BY <2>1
    <3>2. Goes(0, {kind}) /\ "login" \notin {kind}
      BY <3>1, Sends
    <3>3. QED
      BY <2>1, <3>2, LoginsKept
  <2>3. QED
    BY <2>1, <2>2, SignInStands
<1>6. CASE SubmitSignIn
  <2>1. /\ UNCHANGED <<left, intended, errand, place>> /\ place = "signin" /\ entering.ask = 0
        /\ Asks(asks, "login", 0)
        /\ entering' = [ask |-> Len(asks) + 1, goal |-> IF intended = Nowhere THEN "timeline" ELSE intended]
    BY <1>6 DEF SubmitSignIn
  <2>2. /\ entering'.ask = Len(asks) + 1 /\ IsEntering(entering')
        /\ entering'.goal = IF intended = Nowhere THEN "timeline" ELSE intended
    BY <2>1 DEF IsEntering
  <2>3. /\ Len(asks') = Len(asks) + 1 /\ asks'[Len(asks) + 1].kind = "login"
        /\ \A j \in 1 .. Len(asks) : asks'[j] = asks[j]
    BY <2>1, Sends DEF Kinds, IsNew
  <2>4. \A j \in 1 .. Len(asks) : asks[j].kind # "login"
    BY <2>1 DEF SignInInv
  <2>5. \A j \in 1 .. Len(asks') : asks'[j].kind = "login" => entering'.ask = j
    BY <2>2, <2>3, <2>4, Indices
  <2>6. QED
    BY <2>1, <2>2, <2>5 DEF SignInInv
<1>7. ASSUME NEW i \in 1 .. Len(asks), ServeAsk(i) \/ Drop(i)
      PROVE  SignInInv'
  <2>1. UNCHANGED <<entering, left, intended, errand, place>>
    BY <1>7 DEF ServeAsk, Drop
  <2>2. QED
    BY <1>7, <2>1, LoginsKept, SignInStands
<1>8. ASSUME NEW p \in Screens[errand], OpenAddress(p)
      PROVE  SignInInv'
  <2>1. errand = "curating" /\ errand' = errand /\ entering' = [ask |-> 0, goal |-> Nowhere] /\ left' = Nowhere
    BY <1>8 DEF OpenAddress, InitialLocation
  <2>2. \A j \in 1 .. Len(asks') : asks'[j].kind # "login"
    <3>1. Boots(asks', p)
      BY <1>8, BootedBoots DEF OpenAddress
    <3>2. QED
      BY <3>1 DEF Boots, IsSent
  <2>3. IsEntering(entering')
    BY <2>1 DEF IsEntering
  <2>4. QED
    BY <2>1, <2>2, <2>3 DEF SignInInv
<1>9. ASSUME NEW i \in 1 .. Len(asks), ArrivePage(i) \/ ArriveSession(i) \/ ArriveCollection(i)
      PROVE  SignInInv'
  <2>1. UNCHANGED <<entering, left, intended, errand, place>> /\ asks' = Closed(i)
    BY <1>9 DEF ArrivePage, ArriveSession, ArriveCollection
  <2>2. QED
    BY <2>1, Ends, LoginsKept, SignInStands
<1>10. ASSUME NEW i \in 1 .. Len(asks), ArriveLogin(i)
       PROVE  SignInInv'
  <2>1. /\ UNCHANGED <<left, intended, errand, place>> /\ asks[i].kind = "login"
        /\ entering' = [entering EXCEPT !.ask = Len(asks) + 1]
    BY <1>10 DEF ArriveLogin
  <2>2. entering.ask = i /\ i # 0
    BY <2>1 DEF SignInInv
  <2>3. entering'.goal = entering.goal /\ IsEntering(entering')
    BY <2>1 DEF SignInInv, IsEntering
  <2>4. \A j \in 1 .. Len(asks') : asks'[j].kind # "login"
    <3>1. \A j \in 1 .. Len(asks') : asks'[j].kind = "login" => j \in 1 .. Len(asks) /\ j # i /\ asks[j].kind = "login"
      BY <1>10, ArrivesThenLoads, LoginsStand
    <3>2. QED
      BY <3>1, <2>2 DEF SignInInv
  <2>5. QED
    BY <2>1, <2>2, <2>3, <2>4 DEF SignInInv
<1>11. ASSUME NEW i \in 1 .. Len(asks), ArriveDashboard(i) \/ ArriveNothing(i)
       PROVE  SignInInv'
  <2>1. UNCHANGED <<left, intended, errand>>
    BY <1>11 DEF ArriveDashboard, ArriveNothing
  <2>2. Goes(i, {"session"})
    BY <1>11, ArrivingEnds, EndsWithGoes
  <2>3. CASE entering' = entering /\ place' = place
    BY <2>1, <2>2, <2>3, LoginsKept, SignInStands
  <2>4. CASE entering' = Unawaited /\ entering.ask = i
    <3>1. entering'.ask = 0 /\ IsEntering(entering')
      BY <2>4 DEF Unawaited, IsEntering
    <3>2. \A j \in 1 .. Len(asks') : asks'[j].kind # "login"
      BY <2>2, <2>4, LoginsStand DEF SignInInv
    <3>3. QED
      BY <2>1, <3>1, <3>2 DEF SignInInv
  <2>5. QED
    BY <1>11, <2>3, <2>4 DEF ArriveDashboard, ArriveNothing, GoesOn, Enters
<1>12. ASSUME NEW i \in 1 .. Len(asks), ArriveRefused(i)
       PROVE  SignInInv'
  <2>1. errand' = errand /\ AskToSignIn
    BY <1>12 DEF ArriveRefused
  <2>2. Goes(i, {"session"})
    BY <1>12, ArrivingEnds, EndsWithGoes
  <2>3. /\ left' # Nowhere => errand = "returning" /\ left' = intended'
        /\ place = "signin" => left' = left
    BY <2>1, AskedToSignIn
  <2>4. CASE entering' = entering /\ place' = "signin"
    <3>1. Logins'
      BY <2>2, <2>4, LoginsKept
    <3>2. QED
      BY <2>1, <2>3, <2>4, <3>1 DEF SignInInv, Logins, IsEntering
  <2>5. CASE entering' = Unawaited /\ entering.ask = i
    <3>1. entering'.ask = 0 /\ IsEntering(entering')
      BY <2>5 DEF Unawaited, IsEntering
    <3>2. \A j \in 1 .. Len(asks') : asks'[j].kind # "login"
      BY <2>2, <2>5, LoginsStand DEF SignInInv
    <3>3. QED
      BY <2>1, <2>3, <3>1, <3>2 DEF SignInInv
  <2>6. QED
    BY <1>12, <2>4, <2>5 DEF ArriveRefused, GoesOn, Enters, Moves
<1>13. CASE UNCHANGED consoleVars
  BY <1>13, <1>1 DEF Stays
<1>14. CASE (\E w \in {0, 1} : Edit(w)) \/ CloseCreate \/ (\E s \in Conversation : Capture(s)) \/ EndToken
  BY <1>14, <1>1 DEF Stays, Edit, CloseCreate, Capture, EndToken
<1>15. QED
  BY <1>2, <1>3, <1>4, <1>5, <1>6, <1>7, <1>8, <1>9, <1>10, <1>11, <1>12, <1>13, <1>14 DEF ConsoleNext, ArriveAnswer

(* A reader who was asked to sign in is back where they were.               *)
LEMMA BackStep ==
  ASSUME AsksInv, SignInInv, [ConsoleNext]_consoleVars,
         entering.ask # 0, entering'.ask = 0, opens' = opens, place = "signin", place' # "signin", left # Nowhere
  PROVE  place' = left
<1>1. errand = "returning" /\ entering.goal = left
  BY DEF SignInInv
<1>2. ASSUME NEW i \in 1 .. Len(asks), ArriveDashboard(i) \/ ArriveNothing(i) \/ ArriveRefused(i)
      PROVE  place' = left
  BY <1>1, <1>2 DEF ArriveDashboard, ArriveNothing, ArriveRefused, GoesOn, Moves
<1>3. \/ entering' = entering \/ place' = place \/ (\E p \in Screens[errand] : OpenAddress(p))
      \/ \E i \in 1 .. Len(asks) : ArriveDashboard(i) \/ ArriveNothing(i) \/ ArriveRefused(i)
  BY DEF ConsoleNext, NavigateTo, Back, SwitchUser, SignInAgain, SubmitSignIn, LoadDashboard, LoadMoreTimeline,
     Edit, CloseCreate, SubmitCollection, ServeAsk, Drop, Capture, EndToken, ArriveAnswer,
     ArrivePage, ArriveSession, ArriveCollection, ArriveLogin
<1>4. ASSUME NEW p, OpenAddress(p)
      PROVE  FALSE
  BY <1>4 DEF OpenAddress, AsksInv
<1>5. QED
  BY <1>2, <1>3, <1>4

-----------------------------------------------------------------------------
(* Collections are written in one errand.                                   *)
LEMMA WritingScreen ==
  ASSUME errand \in Errands, NEW p \in Screens[errand], p = "collections"
  PROVE  errand = "curating"
BY ConsoleAssumption DEF Screens

LEMMA PlacesNext ==
  ASSUME SignInInv, CuratingInv, [ConsoleNext]_consoleVars, errand # "curating"
  PROVE  place' # "collections" /\ intended' # "collections" /\ entering'.goal # "collections"
<1>1. place # "collections" /\ intended # "collections" /\ entering.goal # "collections" /\ errand \in Errands
  BY DEF CuratingInv
<1>2. \A p \in Screens[errand] : p # "collections"
  BY <1>1, WritingScreen
<1>3. AskToSignIn => intended' # "collections"
  BY <1>1 DEF AskToSignIn, PlaceToReturnTo, Nowhere
<1>4. CASE UNCHANGED <<place, intended, entering>>
  BY <1>1, <1>4
<1>5. CASE \E p \in Screens[errand] : NavigateTo(p)
  BY <1>1, <1>2, <1>5 DEF NavigateTo, Moves
<1>6. CASE \E p \in Screens[errand] \cup {"signin"} : Back(p)
  BY <1>1, <1>2, <1>6 DEF Back, Moves
<1>7. CASE SwitchUser \/ SignInAgain
  BY <1>1, <1>3, <1>7 DEF SwitchUser, SignInAgain, Moves
<1>8. CASE SubmitSignIn
  <2>1. /\ UNCHANGED <<place, intended>>
        /\ entering' = [ask |-> Len(asks) + 1, goal |-> IF intended = Nowhere THEN "timeline" ELSE intended]
    BY <1>8 DEF SubmitSignIn
  <2>2. entering'.goal = IF intended = Nowhere THEN "timeline" ELSE intended
    BY <2>1
  <2>3. QED
    BY <1>1, <2>1, <2>2
<1>9. ASSUME NEW i \in 1 .. Len(asks), ArriveDashboard(i) \/ ArriveNothing(i) \/ ArriveRefused(i)
      PROVE  place' # "collections" /\ intended' # "collections" /\ entering'.goal # "collections"
  <2>1. place' \in {place, entering.goal, "signin"}
    BY <1>9 DEF ArriveDashboard, ArriveNothing, ArriveRefused, GoesOn, Moves
  <2>2. entering' = entering \/ entering' = Unawaited
    BY <1>9 DEF ArriveDashboard, ArriveNothing, ArriveRefused, GoesOn
  <2>3. intended' = intended \/ AskToSignIn
    BY <1>9 DEF ArriveDashboard, ArriveNothing, ArriveRefused
  <2>4. Unawaited.goal # "collections"
    BY DEF Unawaited, Nowhere
  <2>5. QED
    BY <1>1, <1>3, <2>1, <2>2, <2>3, <2>4
<1>10. ASSUME NEW i \in 1 .. Len(asks), ArriveLogin(i)
       PROVE  place' # "collections" /\ intended' # "collections" /\ entering'.goal # "collections"
  <2>1. UNCHANGED <<place, intended>> /\ entering' = [entering EXCEPT !.ask = Len(asks) + 1]
    BY <1>10 DEF ArriveLogin
  <2>2. entering'.goal = entering.goal
    BY <2>1 DEF SignInInv, IsEntering
  <2>3. QED
    BY <1>1, <2>1, <2>2
<1>11. \/ UNCHANGED <<place, intended, entering>> \/ (\E p \in Screens[errand] : NavigateTo(p))
       \/ (\E p \in Screens[errand] \cup {"signin"} : Back(p)) \/ SwitchUser \/ SignInAgain \/ SubmitSignIn
       \/ \E i \in 1 .. Len(asks) : ArriveDashboard(i) \/ ArriveNothing(i) \/ ArriveRefused(i) \/ ArriveLogin(i)
  BY ZenonT(60) DEF ConsoleNext, OpenAddress, LoadDashboard, LoadMoreTimeline, Edit, CloseCreate, SubmitCollection, ServeAsk,
     Drop, Capture, EndToken, ArriveAnswer, ArrivePage, ArriveSession, ArriveCollection
<1>12. QED
  BY <1>4, <1>5, <1>6, <1>7, <1>8, <1>9, <1>10, <1>11

LEMMA ErrandStays ==
  ASSUME [ConsoleNext]_consoleVars
  PROVE  errand' = errand
BY ZenonT(60) DEF ConsoleNext, NavigateTo, OpenAddress, Back, SwitchUser, SignInAgain, SubmitSignIn, LoadDashboard,
   LoadMoreTimeline, Edit, CloseCreate, SubmitCollection, ServeAsk, Drop, Capture, EndToken, ArriveAnswer,
   ArriveDashboard, ArrivePage, ArriveSession, ArriveCollection, ArriveLogin, ArriveNothing, ArriveRefused

LEMMA LibraryStays ==
  ASSUME [ConsoleNext]_consoleVars
  PROVE  library' = library \/ \E i \in 1 .. Len(asks) : ServeAsk(i)
BY DEF ConsoleNext, NavigateTo, OpenAddress, Back, SwitchUser, SignInAgain, SubmitSignIn, LoadDashboard,
   LoadMoreTimeline, Edit, CloseCreate, SubmitCollection, Drop, Capture, EndToken, ArriveAnswer,
   ArriveDashboard, ArrivePage, ArriveSession, ArriveCollection, ArriveLogin, ArriveNothing, ArriveRefused

LEMMA CuratingServes ==
  ASSUME [ConsoleNext]_consoleVars, errand # "curating"
  PROVE  serves' = serves
BY ZenonT(60) DEF ConsoleNext, NavigateTo, OpenAddress, Back, SwitchUser, SignInAgain, SubmitSignIn, LoadDashboard,
   LoadMoreTimeline, Edit, CloseCreate, SubmitCollection, ServeAsk, Drop, Capture, EndToken, ArriveAnswer,
   ArriveDashboard, ArrivePage, ArriveSession, ArriveCollection, ArriveLogin, ArriveNothing, ArriveRefused

LEMMA CuratingNext ==
  ASSUME AsksInv, SignInInv, CuratingInv, [ConsoleNext]_consoleVars
  PROVE  CuratingInv'
<1>1. errand' = errand /\ errand \in Errands
  BY ErrandStays DEF CuratingInv
<1>2. CASE errand = "curating"
  BY <1>1, <1>2 DEF CuratingInv
<1>3. CASE errand # "curating"
  <2>1. library = 0 /\ \A i \in 1 .. Len(asks) : asks[i].kind # "collection"
    BY <1>3 DEF CuratingInv
  <2>2. place' # "collections" /\ intended' # "collections" /\ entering'.goal # "collections"
    BY <1>3, PlacesNext
  <2>3. ~SubmitCollection
    BY <1>3 DEF SubmitCollection, OffersToCreate, Shown, CuratingInv
  <2>4. ASSUME NEW i \in 1 .. Len(asks), ServeAsk(i)
        PROVE  library' = library
    BY <2>1, <2>4, ServeEffect, OverFields DEF Answers, AsksInv, IsAsk, Kinds
  <2>5. library' = 0
    BY <2>1, <2>4, LibraryStays
  <2>6. ASSUME NEW i, NEW kinds, Goes(i, kinds), "collection" \notin kinds
        PROVE  \A j \in 1 .. Len(asks') : asks'[j].kind # "collection"
    <3>1. \A j \in 1 .. Len(asks') : asks'[j].kind = "collection" => j \in 1 .. Len(asks) /\ j # i /\ Stands(j)
      BY <2>6, KindStands
    <3>2. QED
      BY <2>1, <3>1 DEF Stands
  <2>7. ASSUME NEW i \in 1 .. Len(asks), ServeAsk(i) \/ Drop(i)
        PROVE  \A j \in 1 .. Len(asks') : asks'[j].kind # "collection"
    BY <2>1, <2>7, LoginsTurn
  <2>8. ASSUME NEW p, OpenAddress(p)
        PROVE  FALSE
    BY <1>3, <2>8 DEF OpenAddress
  <2>9. \A j \in 1 .. Len(asks') : asks'[j].kind # "collection"
    BY <2>3, <2>6, <2>7, <2>8, AsksSteps
  <2>10. serves' = 0
    BY <1>3, CuratingServes DEF CuratingInv
  <2>11. QED
    BY <1>1, <1>3, <2>2, <2>5, <2>9, <2>10 DEF CuratingInv
<1>4. QED
  BY <1>2, <1>3

-----------------------------------------------------------------------------
(* The create form and the stored draft.                                    *)
FormOf(o, w, s, e) == [open |-> o, words |-> w, saving |-> s, emptied |-> e]

LEMMA FormMade ==
  ASSUME NEW o \in BOOLEAN, NEW w, NEW s, NEW e \in BOOLEAN, form' = FormOf(o, w, s, e), o /\ ~e => draft' = w
  PROVE  FormInv'
<1>1. PICK f : f = FormOf(o, w, s, e)
  OBVIOUS
<1>2. f.open = o /\ f.words = w /\ f.saving = s /\ f.emptied = e
  BY <1>1 DEF FormOf
<1>3. IsForm(f)
  BY <1>1, <1>2 DEF FormOf, IsForm
<1>4. form' = f
  BY <1>1
<1>5. QED
  BY <1>2, <1>3, <1>4 DEF FormInv, WordsAreKept

LEMMA FormIs ==
  ASSUME FormInv
  PROVE  form = FormOf(form.open, form.words, form.saving, form.emptied)
BY DEF FormInv, IsForm, FormOf

LEMMA FormShuts ==
  ASSUME form' = Shut
  PROVE  FormInv'
<1>1. PICK no \in BOOLEAN : no = FALSE
  OBVIOUS
<1>2. form' = FormOf(no, 0, 0, no)
  BY <1>1 DEF Shut, FormOf
<1>3. QED
  BY <1>1, <1>2, FormMade

LEMMA FormOpens ==
  ASSUME form' = [open |-> draft' # 0, words |-> draft', saving |-> 0, emptied |-> FALSE]
  PROVE  FormInv'
<1>1. PICK no \in BOOLEAN, o \in BOOLEAN : no = FALSE /\ o = (draft' # 0)
  OBVIOUS
<1>2. PICK w : w = draft'
  OBVIOUS
<1>3. form' = FormOf(o, w, 0, no)
  BY <1>1, <1>2 DEF FormOf
<1>4. QED
  BY <1>1, <1>2, <1>3, FormMade

LEMMA FormKept ==
  ASSUME FormInv, form' = form, draft' = draft
  PROVE  FormInv'
BY DEF FormInv, WordsAreKept

LEMMA FormFollowed ==
  ASSUME FormInv, FormFollows, draft' = draft
  PROVE  FormInv'
<1>1. CASE ~OnCollections(place', failed')
  <2>1. form' = Shut
    BY <1>1, Zenon DEF FormFollows
  <2>2. QED
    BY <2>1, FormShuts
<1>2. CASE OnCollections(place', failed') /\ OnCollections(place, failed)
  <2>1. form' = form
    BY <1>2, Zenon DEF FormFollows
  <2>2. QED
    BY <2>1, FormKept
<1>3. CASE OnCollections(place', failed') /\ ~OnCollections(place, failed)
  <2>1. form' = [open |-> draft' # 0, words |-> draft', saving |-> 0, emptied |-> FALSE]
    BY <1>3, Zenon DEF FormFollows
  <2>2. QED
    BY <2>1, FormOpens
<1>4. QED
  BY <1>1, <1>2, <1>3, Zenon

LEMMA FormWritten ==
  ASSUME FormInv, (\E w \in {0, 1} : Edit(w)) \/ CloseCreate \/ SubmitCollection
  PROVE  FormInv'
<1>0. PICK yes \in BOOLEAN, no \in BOOLEAN : yes = TRUE /\ no = FALSE
  OBVIOUS
<1>1. PICK f : f = form
  OBVIOUS
<1>2. f = FormOf(f.open, f.words, f.saving, f.emptied) /\ f.open \in BOOLEAN /\ f.emptied \in BOOLEAN
  BY <1>1, FormIs DEF FormInv
<1>3. f.open /\ ~f.emptied => draft = f.words
  BY <1>1 DEF FormInv, WordsAreKept
<1>4. ASSUME NEW w, Edit(w)
      PROVE  FormInv'
  <2>1. form' = [f EXCEPT !.open = yes, !.words = w, !.emptied = no] /\ draft' = w
    BY <1>0, <1>1, <1>4 DEF Edit
  <2>2. form' = FormOf(yes, w, f.saving, no)
    BY <1>2, <2>1 DEF FormOf
  <2>3. QED
    BY <1>2, <2>1, <2>2, FormMade
<1>5. CASE CloseCreate
  <2>1. form' = [f EXCEPT !.open = no, !.words = 0, !.emptied = no] /\ draft' = 0
    BY <1>0, <1>1, <1>5 DEF CloseCreate
  <2>2. form' = FormOf(no, 0, f.saving, no)
    BY <1>2, <2>1 DEF FormOf
  <2>3. QED
    BY <1>0, <2>1, <2>2, FormMade
<1>6. CASE SubmitCollection
  <2>1. PICK n : n = Len(asks) + 1
    OBVIOUS
  <2>2. form' = [f EXCEPT !.saving = n] /\ draft' = draft
    BY <1>1, <1>6, <2>1 DEF SubmitCollection
  <2>3. form' = FormOf(f.open, f.words, n, f.emptied)
    BY <1>2, <2>2 DEF FormOf
  <2>4. QED
    BY <1>2, <1>3, <2>2, <2>3, FormMade
<1>7. QED
  BY <1>4, <1>5, <1>6

LEMMA FormSaved ==
  ASSUME FormInv, NEW i, ArriveCollection(i)
  PROVE  FormInv'
<1>1. CASE form.saving = i
  BY <1>1, FormShuts DEF ArriveCollection
<1>2. CASE form.saving # i
  <2>1. PICK f : f = form
    OBVIOUS
  <2>2. PICK e \in BOOLEAN : e = (f.emptied \/ f.words # 0)
    OBVIOUS
  <2>3. f = FormOf(f.open, f.words, f.saving, f.emptied) /\ f.open \in BOOLEAN
    BY <2>1, FormIs DEF FormInv
  <2>4. form' = [f EXCEPT !.emptied = e] /\ draft' = 0
    BY <1>2, <2>1, <2>2 DEF ArriveCollection
  <2>5. form' = FormOf(f.open, f.words, f.saving, e)
    BY <2>3, <2>4 DEF FormOf
  <2>6. QED
    BY <2>2, <2>3, <2>4, <2>5, FormMade
<1>3. QED
  BY <1>1, <1>2

LEMMA FormNext ==
  ASSUME FormInv, [ConsoleNext]_consoleVars
  PROVE  FormInv'
<1>1. ASSUME NEW p, OpenAddress(p)
      PROVE  FormInv'
  <2>1. draft' = draft /\ form' = IF place' = "collections"
                                  THEN [open |-> draft # 0, words |-> draft, saving |-> 0, emptied |-> FALSE] ELSE Shut
    BY <1>1 DEF OpenAddress
  <2>2. QED
    BY <2>1, FormShuts, FormOpens
<1>2. CASE FormFollows /\ draft' = draft
  BY <1>2, FormFollowed
<1>3. CASE form' = form /\ draft' = draft
  BY <1>3, FormKept
<1>4. \/ FormFollows /\ draft' = draft
      \/ form' = form /\ draft' = draft
      \/ (\E w \in {0, 1} : Edit(w)) \/ CloseCreate \/ SubmitCollection
      \/ \E p : OpenAddress(p)
      \/ \E i : ArriveCollection(i)
  BY ZenonT(60) DEF ConsoleNext, NavigateTo, Back, SwitchUser, SignInAgain, SubmitSignIn, LoadDashboard,
     LoadMoreTimeline, ServeAsk, Drop, Capture, EndToken, ArriveAnswer,
     ArriveDashboard, ArrivePage, ArriveSession, ArriveLogin, ArriveNothing, ArriveRefused
<1>5. QED
  BY <1>1, <1>2, <1>3, <1>4, FormWritten, FormSaved

-----------------------------------------------------------------------------
(* The collections on screen.                                               *)
LEMMA AskKinds ==
  ASSUME AsksInv, NEW i \in 1 .. Len(asks), asks[i].kind # "none"
  PROVE  IsAsk(asks[i]) /\ asks[i].at \in Nat /\ asks[i].kind \in Kinds
BY OverFields DEF AsksInv, IsAsk

LEMMA TimedStands ==
  ASSUME AsksInv, NEW i, NEW kinds, Goes(i, kinds)
  PROVE  /\ \A j \in 1 .. Len(asks') :
               asks'[j].kind # "none" /\ (asks'[j].at > 0 \/ asks'[j].state = "answered")
               => j \in 1 .. Len(asks) /\ j # i /\ Stands(j)
         /\ \A j \in 1 .. Len(asks) : j # i => j \in 1 .. Len(asks') /\ Stands(j)
<1>1. ASSUME NEW j \in 1 .. Len(asks'), asks'[j].kind # "none",
             asks'[j].at > 0 \/ asks'[j].state = "answered"
      PROVE  j \in 1 .. Len(asks) /\ j # i /\ Stands(j)
  <2>1. j \in 1 .. Len(asks)
    <3>1. CASE j \notin 1 .. Len(asks)
      <4>1. asks'[j].at = 0 /\ asks'[j].state = "sent"
        BY <3>1 DEF Goes, IsNew
      <4>2. QED
        BY <4>1, <1>1
    <3>2. QED
      BY <3>1
  <2>2. QED
    BY <1>1, <2>1, OverFields DEF Goes
<1>2. \A j \in 1 .. Len(asks) : j # i => j \in 1 .. Len(asks') /\ Stands(j)
  BY Indices DEF Goes, IsSequence
<1>3. QED
  BY <1>1, <1>2

(* An answer applied: what a list lacked it still lacks, and each is on its *)
(* way unless a later answer was applied.                                   *)
LEMMA AsOfKept ==
  ASSUME AsksInv, NEW i, NEW kinds, Goes(i, kinds), library' = library, library \in Nat,
         seen' \in Nat, seen <= seen', i \in 1 .. Len(asks) /\ Made(i) => asks[i].at <= seen',
         NEW n, NEW t \in Nat, AsOf(n, t)
  PROVE  AsOf(n, t)'
<1>1. n \in 0 .. library'
  BY DEF AsOf
<1>2. ASSUME NEW j \in 1 .. Len(asks'), Made(j)'
      PROVE  j \in 1 .. Len(asks) /\ Made(j) /\ asks'[j].said = asks[j].said /\ asks'[j].at = asks[j].at
  BY <1>2, TimedStands DEF Made, Stands
<1>3. \A j \in 1 .. Len(asks') : Made(j)' => (asks'[j].said > n <=> asks'[j].at > t)
  BY <1>2 DEF AsOf
<1>4. ASSUME t >= seen', NEW k \in n + 1 .. library'
      PROVE  \E j \in 1 .. Len(asks') : Made(j)' /\ asks'[j].said = k
  <2>1. t >= seen /\ k \in n + 1 .. library
    BY <1>4 DEF AsksInv
  <2>2. PICK j \in 1 .. Len(asks) : Made(j) /\ asks[j].said = k
    BY <2>1 DEF AsOf
  <2>3. j # i
    <3>1. CASE j = i
      <4>1. asks[i].said > n /\ asks[i].at <= seen' /\ asks[i].at \in Nat
        BY <1>1, <1>4, <2>2, <3>1, AskKinds DEF Made
      <4>2. asks[i].at > t
        BY <4>1, <2>2, <3>1 DEF AsOf
      <4>3. QED
        BY <4>1, <4>2, <1>4
    <3>2. QED
      BY <3>1
  <2>4. j \in 1 .. Len(asks') /\ Stands(j)
    BY <2>3, TimedStands
  <2>5. QED
    BY <2>2, <2>4 DEF Made, Stands
<1>5. QED
  BY <1>1, <1>3, <1>4 DEF AsOf

(* Nothing the collections depend on has changed.                           *)
Alike ==
    /\ UNCHANGED <<library, shelf, behind, seen>> /\ serves' \in Nat /\ serves <= serves'
    /\ \A j \in 1 .. Len(asks') : Timed(j)' \/ (asks'[j].kind = "dashboard" /\ asks'[j].state = "answered") =>
          /\ j \in 1 .. Len(asks) /\ asks'[j].kind = asks[j].kind
          /\ asks'[j].said = asks[j].said /\ asks'[j].at = asks[j].at
    /\ \A j \in 1 .. Len(asks') : asks'[j].state = "answered" /\ asks'[j].kind \in {"dashboard", "collection"} =>
          j \in 1 .. Len(asks) /\ asks[j].state = "answered" /\ asks'[j].kind = asks[j].kind /\ asks'[j].at = asks[j].at
    /\ \A j \in 1 .. Len(asks) : Made(j) =>
          /\ j \in 1 .. Len(asks') /\ asks'[j].kind = asks[j].kind
          /\ asks'[j].said = asks[j].said /\ asks'[j].at = asks[j].at

LEMMA ShelfAlike ==
  ASSUME AsksInv, ShelfInv, Alike
  PROVE  ShelfInv'
<1>1. ASSUME NEW j \in 1 .. Len(asks'), Made(j)'
      PROVE  j \in 1 .. Len(asks) /\ Made(j) /\ asks'[j].said = asks[j].said /\ asks'[j].at = asks[j].at
  BY <1>1 DEF Alike, Made, Timed
<1>2. ASSUME NEW j \in 1 .. Len(asks), Made(j)
      PROVE  j \in 1 .. Len(asks') /\ Made(j)' /\ asks'[j].said = asks[j].said /\ asks'[j].at = asks[j].at
  BY <1>2 DEF Alike, Made
<1>3. library' = library /\ seen' = seen /\ serves' \in Nat /\ serves <= serves' /\ shelf' = shelf /\ behind' = behind
  BY DEF Alike
<1>4. ASSUME NEW n, NEW t, AsOf(n, t)
      PROVE  AsOf(n, t)'
  <2>1. \A j \in 1 .. Len(asks') : Made(j)' => (asks'[j].said > n <=> asks'[j].at > t)
    BY <1>1, <1>4 DEF AsOf
  <2>2. t >= seen' => \A k \in n + 1 .. library' : \E j \in 1 .. Len(asks') : Made(j)' /\ asks'[j].said = k
    BY <1>2, <1>3, <1>4 DEF AsOf
  <2>3. QED
    BY <2>1, <2>2, <1>3, <1>4 DEF AsOf
<1>5. ASSUME NEW j \in 1 .. Len(asks'), Timed(j)'
      PROVE  j \in 1 .. Len(asks) /\ Timed(j) /\ asks'[j].at = asks[j].at
  BY <1>5 DEF Alike, Timed
<1>6. TimesInv'
  <2>1. \A j \in 1 .. Len(asks') : Timed(j)' => asks'[j].at <= serves' /\ asks'[j].at # seen'
    <3>1. ASSUME NEW j \in 1 .. Len(asks'), Timed(j)'
          PROVE  asks'[j].at <= serves' /\ asks'[j].at # seen'
      <4>1. j \in 1 .. Len(asks) /\ Timed(j) /\ asks'[j].at = asks[j].at
        BY <1>5, <3>1
      <4>2. asks[j].at <= serves /\ asks[j].at # seen
        BY <4>1 DEF ShelfInv, CarriedInv, TimesInv
      <4>3. asks[j].at \in Nat
        BY <4>1, AskKinds DEF Timed
      <4>4. QED
        BY <4>1, <4>2, <4>3, <1>3 DEF AsksInv
    <3>2. QED
      BY <3>1
  <2>2. \A j, k \in 1 .. Len(asks') : Timed(j)' /\ Timed(k)' /\ asks'[j].at = asks'[k].at => j = k
    BY <1>5 DEF ShelfInv, CarriedInv, OnShelfInv, TimesInv
  <2>3. \A j \in 1 .. Len(asks') : asks'[j].kind = "collection" /\ asks'[j].state = "answered" => asks'[j].at > 0
    BY DEF ShelfInv, CarriedInv, OnShelfInv, TimesInv, Alike
  <2>4. QED
    BY <2>1, <2>2, <2>3, <1>3 DEF ShelfInv, CarriedInv, TimesInv, AsksInv
<1>7. \A j \in 1 .. Len(asks') : Made(j)' => asks'[j].said \in 1 .. library'
  BY <1>1, <1>3 DEF ShelfInv, CarriedInv, OnShelfInv
<1>8. \A j, k \in 1 .. Len(asks') :
         Made(j)' /\ Made(k)' => (asks'[j].at < asks'[k].at <=> asks'[j].said < asks'[k].said)
  BY <1>1 DEF ShelfInv, CarriedInv, OnShelfInv
<1>9. ASSUME NEW j \in 1 .. Len(asks'), asks'[j].kind = "dashboard", asks'[j].state = "answered"
      PROVE  \E n \in 0 .. library' : asks'[j].said.shelf = Shelf(n) /\ AsOf(n, asks[j].at)'
  <2>1. /\ j \in 1 .. Len(asks) /\ asks[j].kind = "dashboard" /\ asks[j].state = "answered"
        /\ asks'[j].said = asks[j].said /\ asks'[j].at = asks[j].at
    BY <1>9 DEF Alike
  <2>2. PICK n \in 0 .. library : asks[j].said.shelf = Shelf(n) /\ AsOf(n, asks[j].at)
    BY <2>1 DEF ShelfInv, CarriedInv, OnShelfInv
  <2>3. PICK t : t = asks[j].at
    OBVIOUS
  <2>4. AsOf(n, t)'
    BY <2>2, <2>3, <1>4
  <2>5. QED
    BY <2>1, <2>2, <2>3, <2>4, <1>3 DEF AsOf
<1>10. ASSUME ~behind', \A j \in 1 .. Len(asks') : ~Spoiling(j)'
       PROVE  \E n \in 0 .. library' : shelf' = Shelf(n) /\ AsOf(n, seen)'
  <2>1. \A j \in 1 .. Len(asks) : ~Spoiling(j)
    BY <1>2, <1>3, <1>10 DEF Spoiling
  <2>2. PICK n \in 0 .. library : shelf = Shelf(n) /\ AsOf(n, seen)
    BY <1>3, <1>10, <2>1 DEF ShelfInv, CarriedInv, OnShelfInv
  <2>3. PICK t : t = seen
    OBVIOUS
  <2>4. AsOf(n, t)'
    BY <2>2, <2>3, <1>4
  <2>5. QED
    BY <1>3, <2>2, <2>3, <2>4 DEF AsOf
<1>11. QED
  BY <1>3, <1>6, <1>7, <1>8, <1>9, <1>10 DEF ShelfInv, CarriedInv, OnShelfInv, Shelf


LEMMA GoesAlike ==
  ASSUME AsksInv, NEW i, NEW kinds, Goes(i, kinds), UNCHANGED <<library, serves, shelf, behind, seen>>,
         i \in 1 .. Len(asks) => ~Made(i)
  PROVE  Alike
<1>1. serves' \in Nat /\ serves <= serves'
  BY DEF AsksInv
<1>2. ASSUME NEW j \in 1 .. Len(asks'),
             Timed(j)' \/ (asks'[j].state = "answered" /\ asks'[j].kind \in {"dashboard", "collection"})
      PROVE  j \in 1 .. Len(asks) /\ Stands(j)
  BY <1>2, TimedStands DEF Timed
<1>3. ASSUME NEW j \in 1 .. Len(asks), Made(j)
      PROVE  j \in 1 .. Len(asks') /\ Stands(j)
  BY <1>3, TimedStands
<1>4. QED
  BY <1>1, <1>2, <1>3 DEF Alike, Stands, Made, Timed

LEMMA TurnsAlike ==
  ASSUME AsksInv, NEW i \in 1 .. Len(asks), NEW state, NEW said, NEW at, TurnsTo(i, state, said, at),
         UNCHANGED <<library, shelf, behind, seen>>, serves' \in Nat, serves <= serves',
         \/ asks[i].kind \notin {"dashboard", "collection"}
         \/ state \in {"refused", "dropped"} /\ said = asks[i].said /\ at = asks[i].at
  PROVE  Alike
<1>1. Len(asks') = Len(asks) /\ \A j \in 1 .. Len(asks) : j # i => asks'[j] = asks[j]
  BY DEF TurnsTo
<1>2. /\ asks'[i].kind = asks[i].kind
      /\ asks[i].kind \in {"dashboard", "collection"} =>
            asks'[i].said = asks[i].said /\ asks'[i].at = asks[i].at /\ asks'[i].state \in {"refused", "dropped"}
  BY DEF TurnsTo
<1>3. ASSUME NEW j \in 1 .. Len(asks), asks[j].kind \in {"dashboard", "collection"}
      PROVE  /\ asks'[j].kind = asks[j].kind /\ asks'[j].said = asks[j].said /\ asks'[j].at = asks[j].at
             /\ asks'[j].state = "answered" => asks[j].state = "answered"
  BY <1>1, <1>2, <1>3
<1>4. \A j \in 1 .. Len(asks) : asks'[j].kind = asks[j].kind
  BY <1>1, <1>2
<1>5. QED
  BY <1>1, <1>3, <1>4 DEF Alike, Made, Timed

(* A dashboard or a collection arrives, or a collection's answer is lost.   *)
LEMMA CarriedEnds ==
  ASSUME AsksInv, CarriedInv, NEW i \in 1 .. Len(asks), NEW kinds, Goes(i, kinds),
         library' = library, serves' = serves, asks[i].kind \in {"dashboard", "collection"},
         seen' = IF asks[i].at > seen THEN asks[i].at ELSE seen
  PROVE  CarriedInv' /\ seen' \in Nat /\ seen <= seen' /\ asks[i].at <= seen'
<1>1. seen' \in Nat /\ seen <= seen' /\ asks[i].at <= seen' /\ asks[i].at \in Nat
  BY AskKinds DEF AsksInv
<1>2. ASSUME NEW j \in 1 .. Len(asks'), Timed(j)'
      PROVE  /\ j \in 1 .. Len(asks) /\ j # i /\ Timed(j) /\ asks'[j].kind = asks[j].kind
             /\ asks'[j].at = asks[j].at /\ asks'[j].said = asks[j].said
  BY <1>2, TimedStands DEF Timed, Stands
<1>3. TimesInv'
  <2>1. seen' <= serves'
    BY <1>1 DEF CarriedInv, TimesInv, Timed, AsksInv
  <2>2. ASSUME NEW j \in 1 .. Len(asks'), Timed(j)'
        PROVE  asks'[j].at <= serves' /\ asks'[j].at # seen'
    <3>1. j \in 1 .. Len(asks) /\ j # i /\ Timed(j) /\ asks'[j].at = asks[j].at
      BY <1>2, <2>2
    <3>2. asks[j].at <= serves /\ asks[j].at # seen
      BY <3>1 DEF CarriedInv, TimesInv
    <3>3. Timed(i) => asks[j].at # asks[i].at
      BY <3>1 DEF CarriedInv, TimesInv
    <3>4. asks[i].at > seen => Timed(i)
      BY <1>1 DEF Timed, AsksInv
    <3>5. QED
      BY <3>1, <3>2, <3>3, <3>4
  <2>3. \A j, k \in 1 .. Len(asks') : Timed(j)' /\ Timed(k)' /\ asks'[j].at = asks'[k].at => j = k
    BY <1>2 DEF CarriedInv, TimesInv
  <2>4. ASSUME NEW j \in 1 .. Len(asks'), asks'[j].kind = "collection", asks'[j].state = "answered"
        PROVE  asks'[j].at > 0
    <3>1. j \in 1 .. Len(asks) /\ Stands(j)
      BY <2>4, TimedStands
    <3>2. QED
      BY <2>4, <3>1 DEF Stands, CarriedInv, TimesInv
  <2>5. QED
    BY <2>1, <2>2, <2>3, <2>4 DEF TimesInv
<1>4. ASSUME NEW j \in 1 .. Len(asks'), Made(j)'
      PROVE  j \in 1 .. Len(asks) /\ Made(j) /\ asks'[j].at = asks[j].at /\ asks'[j].said = asks[j].said
  BY <1>2, <1>4 DEF Made, Timed
<1>5. \A j \in 1 .. Len(asks') : Made(j)' => asks'[j].said \in 1 .. library'
  BY <1>4 DEF CarriedInv
<1>6. \A j, k \in 1 .. Len(asks') :
         Made(j)' /\ Made(k)' => (asks'[j].at < asks'[k].at <=> asks'[j].said < asks'[k].said)
  BY <1>4 DEF CarriedInv
<1>7. ASSUME NEW j \in 1 .. Len(asks'), asks'[j].kind = "dashboard", asks'[j].state = "answered"
      PROVE  \E n \in 0 .. library' : asks'[j].said.shelf = Shelf(n) /\ AsOf(n, asks[j].at)'
  <2>1. j \in 1 .. Len(asks) /\ j # i /\ Stands(j)
    BY <1>7, TimedStands
  <2>2. PICK n \in 0 .. library : asks[j].said.shelf = Shelf(n) /\ AsOf(n, asks[j].at)
    BY <1>7, <2>1 DEF CarriedInv, Stands
  <2>3. PICK t \in Nat : t = asks[j].at
    BY <1>7, <2>1, AskKinds DEF Stands
  <2>4. AsOf(n, t)'
    BY <1>1, <2>2, <2>3, AsOfKept DEF CarriedInv
  <2>5. QED
    BY <2>1, <2>2, <2>3, <2>4 DEF AsOf, Stands
<1>8. library' \in Nat
  BY DEF CarriedInv
<1>9. QED
  BY <1>1, <1>3, <1>5, <1>6, <1>7, <1>8 DEF CarriedInv, Shelf


LEMMA ShelfGrows ==
  ASSUME NEW n \in Nat
  PROVE  <<n + 1>> \o Shelf(n) = Shelf(n + 1)
<1> DEFINE one == <<n + 1>>
<1>1. one \in Seq(Nat) /\ Len(one) = 1 /\ one[1] = n + 1
  OBVIOUS
<1>2. Shelf(n) \in [1 .. n -> Nat]
  BY DEF Shelf
<1>3. Shelf(n) \in Seq(Nat) /\ Len(Shelf(n)) = n
  BY <1>2, IsASeq
<1> HIDE DEF one
<1>4. PICK r : r = one \o Shelf(n)
  OBVIOUS
<1>5. Joins(r, one, Shelf(n))
  BY <1>1, <1>3, <1>4, ConcatJoins, IsSequenceOf
<1>6. Len(r) = n + 1 /\ r[1] = n + 1 /\ \A k \in 1 .. n : r[1 + k] = n + 1 - k
  BY <1>1, <1>3, <1>5 DEF Joins, Shelf
<1>7. ASSUME NEW k \in 1 .. n + 1
      PROVE  r[k] = n + 2 - k
  <2>1. CASE k = 1
    BY <1>6, <2>1
  <2>2. CASE k # 1
    <3>1. PICK l \in 1 .. n : k = 1 + l
      <4>1. k - 1 \in 1 .. n /\ k = 1 + (k - 1)
        BY <2>2
      <4>2. QED
        BY <4>1
    <3>2. r[1 + l] = n + 1 - l
      BY <1>6
    <3>3. QED
      BY <3>1, <3>2
  <2>3. QED
    BY <2>1, <2>2
<1>8. r = [k \in 1 .. n + 1 |-> r[k]]
  BY <1>5, <1>6 DEF Joins, IsSequence
<1>9. r = [k \in 1 .. n + 1 |-> n + 1 + 1 - k]
  BY <1>7, <1>8
<1>10. QED
  BY <1>4, <1>9 DEF Shelf, one

LEMMA DashboardShelf ==
  ASSUME AsksInv, ShelfInv, NEW i \in 1 .. Len(asks), ArriveDashboard(i)
  PROVE  ShelfInv'
<1>1. /\ asks[i].kind = "dashboard" /\ asks[i].state = "answered" /\ library' = library /\ serves' = serves
      /\ shelf' = asks[i].said.shelf /\ behind' = (asks[i].at < seen)
      /\ seen' = IF asks[i].at > seen THEN asks[i].at ELSE seen
  BY DEF ArriveDashboard
<1>2. Goes(i, {"session"})
  BY ArrivingEnds, EndsWithGoes
<1>3. CarriedInv' /\ seen' \in Nat /\ seen <= seen' /\ asks[i].at <= seen'
  BY <1>1, <1>2, CarriedEnds DEF ShelfInv
<1>4. ASSUME ~behind'
      PROVE  \E n \in 0 .. library' : shelf' = Shelf(n) /\ AsOf(n, seen)'
  <2>1. PICK t \in Nat : t = asks[i].at
    BY <1>1, AskKinds
  <2>2. seen' = t
    <3>1. ~(asks[i].at < seen)
      BY <1>4, Zenon DEF ArriveDashboard
    <3>2. QED
      BY <1>1, <2>1, <3>1 DEF AsksInv
  <2>3. PICK n \in 0 .. library : asks[i].said.shelf = Shelf(n) /\ AsOf(n, t)
    BY <1>1, <2>1 DEF ShelfInv, CarriedInv
  <2>4. AsOf(n, t)'
    BY <1>1, <1>2, <1>3, <2>3, AsOfKept DEF ShelfInv, CarriedInv
  <2>5. QED
    BY <1>1, <2>2, <2>3, <2>4 DEF AsOf
<1>5. QED
  BY <1>3, <1>4 DEF ShelfInv, OnShelfInv, Shelf

LEMMA CollectionShelf ==
  ASSUME AsksInv, ShelfInv, NEW i \in 1 .. Len(asks), ArriveCollection(i)
  PROVE  ShelfInv'
<1>1. /\ asks[i].kind = "collection" /\ asks[i].state = "answered" /\ library' = library /\ serves' = serves
      /\ shelf' = <<asks[i].said>> \o shelf /\ behind' = (behind \/ asks[i].at < seen)
      /\ seen' = (IF asks[i].at > seen THEN asks[i].at ELSE seen) /\ asks' = Closed(i)
  BY DEF ArriveCollection
<1>2. Goes(i, {})
  BY <1>1, Ends
<1>3. CarriedInv' /\ seen' \in Nat /\ seen <= seen' /\ asks[i].at <= seen'
  BY <1>1, <1>2, CarriedEnds DEF ShelfInv
<1>4. ASSUME ~behind', \A j \in 1 .. Len(asks') : ~Spoiling(j)'
      PROVE  \E n \in 0 .. library' : shelf' = Shelf(n) /\ AsOf(n, seen)'
  <2>1. PICK t \in Nat : t = asks[i].at
    BY <1>1, AskKinds
  <2>2. Made(i) /\ Timed(i)
    BY <1>1 DEF Made, Timed, ShelfInv, CarriedInv, TimesInv
  <2>3. ~behind /\ t > seen /\ seen' = t /\ seen \in Nat
    <3>1. t # seen
      BY <2>1, <2>2 DEF ShelfInv, CarriedInv, TimesInv
    <3>2. ~behind /\ ~(asks[i].at < seen)
      BY <1>4, Zenon DEF ArriveCollection
    <3>3. QED
      BY <1>1, <2>1, <3>1, <3>2 DEF AsksInv
  <2>4. ASSUME NEW j \in 1 .. Len(asks), Made(j), j # i
        PROVE  ~(asks[j].at < t) /\ asks[j].at \in Nat
    <3>1. j \in 1 .. Len(asks') /\ Stands(j)
      BY <1>2, <2>4, TimedStands
    <3>2. Made(j)' /\ asks'[j].at = asks[j].at
      BY <2>4, <3>1 DEF Made, Stands
    <3>3. ~(asks'[j].at < seen')
      BY <1>4, <3>1, <3>2 DEF Spoiling
    <3>4. QED
      BY <2>3, <2>4, <3>2, <3>3, AskKinds DEF Made
  <2>5. \A j \in 1 .. Len(asks) : ~Spoiling(j)
    BY <2>1, <2>3, <2>4 DEF Spoiling
  <2>6. PICK n \in 0 .. library : shelf = Shelf(n) /\ AsOf(n, seen)
    BY <2>3, <2>5 DEF ShelfInv, OnShelfInv
  <2>7. library \in Nat /\ n \in Nat /\ asks[i].said \in 1 .. library
    BY <2>2 DEF ShelfInv, CarriedInv
  <2>8. asks[i].said > n
    BY <2>1, <2>2, <2>3, <2>6 DEF AsOf
  <2>9. asks[i].said = n + 1
    <3>1. PICK k : k = n + 1
      OBVIOUS
    <3>2. k \in n + 1 .. library
      BY <2>7, <2>8, <3>1
    <3>3. PICK j \in 1 .. Len(asks) : Made(j) /\ asks[j].said = k
      BY <2>3, <2>6, <3>2 DEF AsOf
    <3>4. asks[j].said < asks[i].said => asks[j].at < asks[i].at
      BY <2>2, <3>3 DEF ShelfInv, CarriedInv
    <3>5. ~(asks[j].said < asks[i].said)
      BY <2>1, <2>4, <3>3, <3>4
    <3>6. QED
      BY <2>7, <2>8, <3>1, <3>3, <3>5
  <2>10. PICK m : m = n + 1
    OBVIOUS
  <2>11. shelf' = Shelf(m) /\ m \in 0 .. library
    BY <1>1, <2>6, <2>7, <2>9, <2>10, ShelfGrows
  <2>12. \A j \in 1 .. Len(asks') : Made(j)' => (asks'[j].said > m <=> asks'[j].at > t)
    <3>1. ASSUME NEW j \in 1 .. Len(asks'), Made(j)'
          PROVE  asks'[j].said > m <=> asks'[j].at > t
      <4>1. j \in 1 .. Len(asks) /\ Made(j) /\ asks'[j].said = asks[j].said /\ asks'[j].at = asks[j].at
        BY <1>2, <3>1, TimedStands DEF Made, Stands
      <4>2. asks[i].at < asks[j].at <=> asks[i].said < asks[j].said
        BY <2>2, <4>1 DEF ShelfInv, CarriedInv
      <4>3. asks[j].at \in Nat /\ asks[j].said \in Nat /\ m \in Nat
        BY <4>1, <2>7, <2>10, AskKinds DEF Made, ShelfInv, CarriedInv
      <4>4. QED
        BY <2>1, <2>9, <2>10, <4>1, <4>2, <4>3
    <3>2. QED
      BY <3>1
  <2>13. ASSUME NEW k \in m + 1 .. library'
         PROVE  \E j \in 1 .. Len(asks') : Made(j)' /\ asks'[j].said = k
    <3>1. k \in n + 1 .. library /\ k # n + 1
      BY <1>1, <2>7, <2>10
    <3>2. PICK j \in 1 .. Len(asks) : Made(j) /\ asks[j].said = k
      BY <2>3, <2>6, <3>1 DEF AsOf
    <3>3. j # i
      BY <2>9, <3>1, <3>2
    <3>4. j \in 1 .. Len(asks') /\ Stands(j)
      BY <1>2, <3>3, TimedStands
    <3>5. QED
      BY <3>2, <3>4 DEF Made, Stands
  <2>14. AsOf(m, t)'
    BY <1>1, <2>11, <2>12, <2>13 DEF AsOf
  <2>15. seen' = t
    BY <2>3
  <2>16. AsOf(m, seen)'
    BY <2>14, <2>15 DEF AsOf
  <2>17. m \in 0 .. library'
    BY <1>1, <2>11
  <2>18. QED
    BY <2>11, <2>16, <2>17
<1>5. QED
  BY <1>3, <1>4 DEF ShelfInv, OnShelfInv, Shelf


(* The archive serves a dashboard, or makes a collection.                   *)
LEMMA ServedShelf ==
  ASSUME AsksInv, CuratingInv, ShelfInv, NEW i \in 1 .. Len(asks), NEW said,
         TurnsTo(i, "answered", said, serves'), Answers(i, said), asks[i].kind \in {"dashboard", "collection"},
         asks[i].at = 0, serves' = IF errand = "curating" THEN serves + 1 ELSE serves,
         UNCHANGED <<shelf, behind, seen>>
  PROVE  ShelfInv'
<1>1. /\ serves \in Nat /\ library \in Nat /\ seen \in Nat /\ seen <= serves /\ seen' = seen /\ shelf' = shelf
      /\ Len(asks') = Len(asks) /\ asks'[i].kind = asks[i].kind /\ asks'[i].at = serves' /\ asks'[i].said = said
  BY DEF AsksInv, ShelfInv, CarriedInv, TimesInv, TurnsTo
<1>2. serves' \in Nat /\ serves <= serves' /\ (serves' = serves + 1 \/ serves' = 0)
  BY <1>1 DEF CuratingInv
<1>3. \/ asks[i].kind = "dashboard" /\ library' = library /\ said.shelf = Shelf(library)
      \/ asks[i].kind = "collection" /\ library' = library + 1 /\ said = library + 1 /\ serves' = serves + 1
  BY DEF Answers, CuratingInv
<1>4. library' \in Nat /\ library <= library'
  BY <1>1, <1>3
<1>5. ASSUME NEW j \in 1 .. Len(asks), j # i
      PROVE  asks'[j] = asks[j] /\ (Made(j)' <=> Made(j)) /\ (Timed(j)' <=> Timed(j))
  BY <1>5 DEF TurnsTo, Made, Timed
<1>6. Made(i)' => asks[i].kind = "collection"
  BY <1>1 DEF Made
<1>7. ~Made(i) /\ ~Timed(i)
  BY DEF Made, Timed
<1>8. ASSUME NEW j \in 1 .. Len(asks), Timed(j)
      PROVE  asks[j].at \in Nat /\ asks[j].at <= serves /\ asks[j].at # seen
  BY <1>8, AskKinds DEF Timed, ShelfInv, CarriedInv, TimesInv
<1>9. ASSUME NEW j \in 1 .. Len(asks), Made(j)
      PROVE  asks[j].at \in Nat /\ asks[j].at <= serves /\ asks[j].said \in 1 .. library
  BY <1>8, <1>9 DEF Made, Timed, ShelfInv, CarriedInv
<1>10. TimesInv'
  <2>1. seen' <= serves'
    BY <1>1, <1>2
  <2>2. ASSUME NEW j \in 1 .. Len(asks), Timed(j)'
        PROVE  asks'[j].at <= serves' /\ asks'[j].at # seen'
    <3>1. CASE j = i
      <4>1. asks'[i].at > 0
        BY <2>2, <3>1 DEF Timed
      <4>2. QED
        BY <1>1, <1>2, <3>1, <4>1
    <3>2. CASE j # i
      <4>1. asks'[j].at = asks[j].at /\ asks[j].at \in Nat /\ asks[j].at <= serves /\ asks[j].at # seen
        BY <1>5, <1>8, <2>2, <3>2
      <4>2. QED
        BY <1>1, <1>2, <4>1
    <3>3. QED
      BY <3>1, <3>2
  <2>3. ASSUME NEW j \in 1 .. Len(asks), NEW k \in 1 .. Len(asks), Timed(j)', Timed(k)', asks'[j].at = asks'[k].at
        PROVE  j = k
    <3>1. CASE j # i /\ k # i
      BY <1>5, <2>3, <3>1 DEF ShelfInv, CarriedInv, TimesInv
    <3>2. ASSUME NEW l \in 1 .. Len(asks), l # i, Timed(l)', Timed(i)', asks'[l].at = asks'[i].at
          PROVE  FALSE
      <4>1. asks'[l].at \in Nat /\ asks'[l].at <= serves
        BY <1>5, <1>8, <3>2
      <4>2. asks'[i].at > 0
        BY <3>2 DEF Timed
      <4>3. QED
        BY <1>1, <1>2, <3>2, <4>1, <4>2
    <3>3. QED
      BY <2>3, <3>1, <3>2
  <2>4. ASSUME NEW j \in 1 .. Len(asks), asks'[j].kind = "collection", asks'[j].state = "answered"
        PROVE  asks'[j].at > 0
    <3>1. CASE j = i
      BY <1>1, <1>3, <2>4, <3>1
    <3>2. CASE j # i
      BY <1>5, <2>4, <3>2 DEF ShelfInv, CarriedInv, TimesInv
    <3>3. QED
      BY <3>1, <3>2
  <2>5. QED
    BY <1>1, <2>1, <2>2, <2>3, <2>4 DEF TimesInv
<1>11. ASSUME NEW j \in 1 .. Len(asks), Made(j)'
       PROVE  asks'[j].said \in 1 .. library'
  <2>1. CASE j = i
    BY <1>1, <1>3, <1>6, <1>11, <2>1
  <2>2. CASE j # i
    BY <1>1, <1>3, <1>5, <1>9, <1>11, <2>2
  <2>3. QED
    BY <2>1, <2>2
<1>12. ASSUME NEW j \in 1 .. Len(asks), j # i, Made(j)', Made(i)'
       PROVE  asks'[j].at < asks'[i].at /\ asks'[j].said < asks'[i].said /\ ~(asks'[i].at < asks'[j].at)
              /\ ~(asks'[i].said < asks'[j].said)
  <2>1. /\ asks'[j].at = asks[j].at /\ asks'[j].said = asks[j].said
        /\ asks[j].at \in Nat /\ asks[j].at <= serves /\ asks[j].said \in 1 .. library
    BY <1>5, <1>9, <1>12
  <2>2. asks'[i].at = serves + 1 /\ asks'[i].said = library + 1
    BY <1>1, <1>3, <1>6, <1>12
  <2>3. QED
    BY <1>1, <2>1, <2>2
<1>13. ASSUME NEW j \in 1 .. Len(asks), NEW k \in 1 .. Len(asks), Made(j)', Made(k)'
       PROVE  asks'[j].at < asks'[k].at <=> asks'[j].said < asks'[k].said
  <2>1. CASE j # i /\ k # i
    BY <1>5, <1>13, <2>1 DEF ShelfInv, CarriedInv
  <2>2. CASE j = i /\ k = i
    <3>1. asks'[i].at \in Nat /\ asks'[i].said \in Nat
      BY <1>1, <1>2, <1>4, <1>11, <1>13, <2>2
    <3>2. QED
      BY <2>2, <3>1
  <2>3. CASE (j = i /\ k # i) \/ (j # i /\ k = i)
    BY <1>12, <1>13, <2>3
  <2>4. QED
    BY <2>1, <2>2, <2>3
<1>14. ASSUME NEW n, NEW t \in Nat, AsOf(n, t), t <= serves
       PROVE  AsOf(n, t)'
  <2>1. n \in 0 .. library /\ n \in 0 .. library'
    BY <1>1, <1>4, <1>14 DEF AsOf
  <2>2. ASSUME NEW j \in 1 .. Len(asks), Made(j)'
        PROVE  asks'[j].said > n <=> asks'[j].at > t
    <3>1. CASE j = i
      BY <1>1, <1>3, <1>6, <1>14, <2>1, <2>2, <3>1
    <3>2. CASE j # i
      BY <1>5, <1>14, <2>2, <3>2 DEF AsOf
    <3>3. QED
      BY <3>1, <3>2
  <2>3. ASSUME t >= seen', NEW k \in n + 1 .. library'
        PROVE  \E j \in 1 .. Len(asks) : Made(j)' /\ asks'[j].said = k
    <3>1. CASE k \in n + 1 .. library
      <4>1. PICK j \in 1 .. Len(asks) : Made(j) /\ asks[j].said = k
        BY <1>1, <1>14, <2>3, <3>1 DEF AsOf
      <4>2. QED
        BY <1>5, <1>7, <4>1
    <3>2. CASE k \notin n + 1 .. library
      <4>1. asks[i].kind = "collection" /\ k = library + 1 /\ said = library + 1 /\ serves' = serves + 1
        BY <1>1, <1>3, <2>1, <2>3, <3>2
      <4>2. asks'[i].kind = "collection" /\ asks'[i].at = serves + 1 /\ asks'[i].said = k
        BY <1>1, <4>1
      <4>3. Made(i)'
        BY <1>1, <4>2 DEF Made
      <4>4. QED
        BY <4>2, <4>3
    <3>3. QED
      BY <3>1, <3>2
  <2>4. QED
    BY <1>1, <2>1, <2>2, <2>3 DEF AsOf
<1>15. ASSUME NEW j \in 1 .. Len(asks), asks'[j].kind = "dashboard", asks'[j].state = "answered"
       PROVE  \E n \in 0 .. library' : asks'[j].said.shelf = Shelf(n) /\ AsOf(n, asks[j].at)'
  <2>1. CASE j # i
    <3>1. PICK n \in 0 .. library : asks[j].said.shelf = Shelf(n) /\ AsOf(n, asks[j].at)
      BY <1>5, <1>15, <2>1 DEF ShelfInv, CarriedInv
    <3>2. PICK t \in Nat : t = asks[j].at
      BY <1>5, <1>15, <2>1, AskKinds
    <3>3. t <= serves
      BY <1>1, <1>5, <1>8, <1>15, <2>1, <3>2 DEF Timed
    <3>4. AsOf(n, t)'
      BY <1>14, <3>1, <3>2, <3>3
    <3>5. QED
      BY <1>5, <2>1, <3>1, <3>2, <3>4 DEF AsOf
  <2>2. CASE j = i
    <3>1. PICK n : n = library
      OBVIOUS
    <3>2. asks'[i].said.shelf = Shelf(n) /\ library' = n /\ asks'[i].kind = "dashboard"
      BY <1>1, <1>3, <1>15, <2>2, <3>1
    <3>3. ASSUME NEW k \in 1 .. Len(asks), Made(k)'
          PROVE  asks'[k].said > n <=> asks'[k].at > serves'
      <4>1. k # i
        BY <3>2, <3>3 DEF Made
      <4>2. /\ asks'[k].at = asks[k].at /\ asks'[k].said = asks[k].said
            /\ asks[k].at \in Nat /\ asks[k].at <= serves /\ asks[k].said \in 1 .. library
        BY <1>5, <1>9, <3>3, <4>1
      <4>3. QED
        BY <1>1, <1>2, <3>1, <4>2
    <3>4. n \in 0 .. library' /\ \A k \in n + 1 .. library' : FALSE
      BY <1>1, <3>1, <3>2
    <3>5. QED
      BY <1>1, <2>2, <3>2, <3>3, <3>4 DEF AsOf
  <2>3. QED
    BY <2>1, <2>2
<1>16. ASSUME ~behind', \A j \in 1 .. Len(asks) : ~Spoiling(j)'
       PROVE  \E n \in 0 .. library' : shelf' = Shelf(n) /\ AsOf(n, seen)'
  <2>1. \A j \in 1 .. Len(asks) : ~Spoiling(j)
    BY <1>1, <1>5, <1>7, <1>16 DEF Spoiling
  <2>2. PICK n \in 0 .. library : shelf = Shelf(n) /\ AsOf(n, seen)
    BY <1>16, <2>1 DEF ShelfInv, OnShelfInv
  <2>3. PICK t \in Nat : t = seen
    BY <1>1
  <2>4. AsOf(n, t)'
    BY <1>1, <1>14, <2>2, <2>3
  <2>5. AsOf(n, seen)' /\ n \in 0 .. library'
    BY <1>1, <2>3, <2>4 DEF AsOf
  <2>6. QED
    BY <1>1, <2>2, <2>5
<1>17. QED
  BY <1>1, <1>4, <1>10, <1>11, <1>13, <1>15, <1>16 DEF ShelfInv, CarriedInv, OnShelfInv, Shelf


LEMMA FailedShelf ==
  ASSUME AsksInv, ShelfInv, NEW i \in 1 .. Len(asks), ArriveNothing(i) \/ ArriveRefused(i)
  PROVE  ShelfInv'
<1>1. Fails(i) /\ UNCHANGED <<library, serves, shelf>> /\ asks[i].state \in {"dropped", "refused"}
  BY DEF ArriveNothing, ArriveRefused
<1>2. Goes(i, {"session"})
  BY ArrivingEnds, EndsWithGoes
<1>3. IsAsk(asks[i])
  BY <1>1, OverFields DEF AsksInv
<1>4. seen' = IF asks[i].at > seen THEN asks[i].at ELSE seen
  BY <1>1 DEF Fails
<1>5. CASE asks[i].kind = "collection"
  <2>1. CarriedInv'
    BY <1>1, <1>2, <1>4, <1>5, CarriedEnds DEF ShelfInv
  <2>2. behind'
    BY <1>1, <1>5 DEF Fails
  <2>3. QED
    BY <2>1, <2>2 DEF ShelfInv, OnShelfInv
<1>6. CASE asks[i].kind # "collection"
  <2>1. asks[i].at = 0
    BY <1>1, <1>3, <1>6 DEF IsAsk
  <2>2. seen' = seen
    BY <1>4, <2>1 DEF AsksInv
  <2>3. behind' = behind
    BY <1>1, <1>6 DEF Fails, AsksInv
  <2>4. ~Made(i)
    BY <2>1 DEF Made
  <2>5. QED
    BY <1>1, <1>2, <2>2, <2>3, <2>4, GoesAlike, ShelfAlike
<1>7. QED
  BY <1>5, <1>6

LEMMA OpenedShelf ==
  ASSUME ShelfInv, NEW p, OpenAddress(p)
  PROVE  ShelfInv'
<1>1. Boots(asks', p)
  BY BootedBoots DEF OpenAddress
<1>2. serves' = 0 /\ seen' = 0 /\ library' = library
  BY DEF OpenAddress
<1>3. behind'
  BY DEF OpenAddress
<1>4. \A j \in 1 .. Len(asks') : asks'[j].at = 0 /\ asks'[j].state = "sent"
  BY <1>1 DEF Boots, IsSent
<1>5. \A j \in 1 .. Len(asks') : ~Made(j)' /\ ~Timed(j)' /\ asks'[j].state # "answered"
  BY <1>4 DEF Made, Timed
<1>6. TimesInv'
  BY <1>2, <1>5 DEF TimesInv
<1>7. QED
  BY <1>2, <1>3, <1>5, <1>6 DEF ShelfInv, CarriedInv, OnShelfInv

LEMMA ShelfNext ==
  ASSUME AsksInv, CuratingInv, ShelfInv, [ConsoleNext]_consoleVars
  PROVE  ShelfInv'
<1>1. ASSUME NEW kinds, Goes(0, kinds), UNCHANGED <<library, serves, shelf, behind, seen>>
      PROVE  ShelfInv'
  BY <1>1, GoesAlike, ShelfAlike
<1>2. CASE Stays /\ UNCHANGED <<library, serves, shelf, behind, seen>>
  BY <1>1, <1>2, Quiet DEF Stays
<1>3. CASE \/ \E p \in Screens[errand] : NavigateTo(p)
           \/ \E p \in Screens[errand] \cup {"signin"} : Back(p)
           \/ SwitchUser \/ SignInAgain
  <2>1. UNCHANGED <<library, serves, shelf, behind, seen>>
    BY <1>3 DEF NavigateTo, Back, SwitchUser, SignInAgain
  <2>2. QED
    BY <1>1, <1>3, <2>1, MovingWanders, WandersGoes
<1>4. CASE LoadDashboard \/ LoadMoreTimeline \/ SubmitCollection \/ SubmitSignIn
  <2>1. /\ \E kind, arg : kind \in Kinds /\ Asks(asks, kind, arg)
        /\ UNCHANGED <<library, serves, shelf, behind, seen>>
    BY <1>4 DEF LoadDashboard, LoadMoreTimeline, SubmitCollection, SubmitSignIn, Kinds
  <2>2. QED
    BY <1>1, <2>1, Sends
<1>5. ASSUME NEW i \in 1 .. Len(asks), ServeAsk(i)
      PROVE  ShelfInv'
  <2>1. UNCHANGED <<shelf, behind, seen>>
    BY <1>5 DEF ServeAsk
  <2>2. /\ asks[i].state = "sent" /\ asks[i].at = 0 /\ serves' \in Nat
        /\ serves' = IF errand = "curating" /\ asks[i].kind \in {"dashboard", "collection"} THEN serves + 1 ELSE serves
    BY <1>5, ServeEffect
  <2>3. serves <= serves'
    BY <2>2 DEF AsksInv
  <2>4. ASSUME NEW said, TurnsTo(i, "answered", said, serves'), Answers(i, said)
        PROVE  ShelfInv'
    <3>1. CASE asks[i].kind \in {"dashboard", "collection"}
      <4>1. serves' = IF errand = "curating" THEN serves + 1 ELSE serves
        BY <2>2, <3>1
      <4>2. QED
        BY <2>1, <2>2, <2>4, <3>1, <4>1, ServedShelf
    <3>2. CASE asks[i].kind \notin {"dashboard", "collection"}
      <4>1. asks[i].kind \in Kinds
        BY <2>2, OverFields DEF AsksInv, IsAsk
      <4>2. library' = library
        BY <2>4, <3>2, <4>1 DEF Answers, Kinds
      <4>3. Alike
        BY <2>1, <2>2, <2>3, <2>4, <3>2, <4>2, TurnsAlike
      <4>4. QED
        BY <4>3, ShelfAlike
    <3>3. QED
      BY <3>1, <3>2
  <2>5. ASSUME NEW state \in {"refused", "dropped"}, TurnsTo(i, state, asks[i].said, 0), library' = library
        PROVE  ShelfInv'
    <3>1. Alike
      BY <2>1, <2>2, <2>3, <2>5, TurnsAlike
    <3>2. QED
      BY <3>1, ShelfAlike
  <2>6. QED
    BY <1>5, <2>4, <2>5, ServeEffect
<1>6. ASSUME NEW i \in 1 .. Len(asks), Drop(i)
      PROVE  ShelfInv'
  <2>1. UNCHANGED <<library, serves, shelf, behind, seen>>
    BY <1>6 DEF Drop
  <2>2. TurnsTo(i, "dropped", asks[i].said, asks[i].at)
    BY <1>6, DropEffect
  <2>3. serves' \in Nat /\ serves <= serves'
    BY <2>1 DEF AsksInv
  <2>4. Alike
    BY <2>1, <2>2, <2>3, TurnsAlike
  <2>5. QED
    BY <2>4, ShelfAlike
<1>7. ASSUME NEW i \in 1 .. Len(asks), ArrivePage(i) \/ ArriveSession(i) \/ ArriveLogin(i)
      PROVE  ShelfInv'
  <2>1. UNCHANGED <<library, serves, shelf, behind, seen>> /\ ~Made(i)
    BY <1>7 DEF ArrivePage, ArriveSession, ArriveLogin, Made
  <2>2. Goes(i, {}) \/ Goes(i, {"dashboard"})
    BY <1>7, Ends, ArrivesThenLoads DEF ArrivePage, ArriveSession
  <2>3. QED
    BY <2>1, <2>2, GoesAlike, ShelfAlike
<1>8. CASE UNCHANGED consoleVars
  BY <1>8, <1>2 DEF Stays
<1>9. CASE (\E w \in {0, 1} : Edit(w)) \/ CloseCreate \/ (\E s \in Conversation : Capture(s)) \/ EndToken
  BY <1>9, <1>2 DEF Stays, Edit, CloseCreate, Capture, EndToken
<1>10. QED
  BY <1>3, <1>4, <1>5, <1>6, <1>7, <1>8, <1>9, DashboardShelf, CollectionShelf, FailedShelf, OpenedShelf
     DEF ConsoleNext, ArriveAnswer

-----------------------------------------------------------------------------
(* The pages of the timeline.                                               *)

(* The positions below a moment are the last ones, whichever the moment.    *)
LEMMA LeastPosition ==
  ASSUME NEW K \in SUBSET Nat, K # {}
  PROVE  \E m \in K : \A k \in K : m <= k
<1>1. PICK R : R = OpToRel(<, Nat)
  OBVIOUS
<1>2. PICK m \in K : \A k \in K : <<k, m>> \notin R
  BY <1>1, NatLessThanWellFounded, WFMin
<1>3. \A k \in K : ~(k < m)
  BY <1>1, <1>2 DEF OpToRel
<1>4. QED
  BY <1>2, <1>3

LEMMA UpperPositions ==
  ASSUME NEW L \in Nat, NEW K \in SUBSET (1 .. L), \A j, k \in 1 .. L : j \in K /\ j <= k => k \in K
  PROVE  \E m \in 1 .. L + 1 : K = m .. L
<1>1. CASE K = {}
  <2>1. L + 1 \in 1 .. L + 1 /\ K = L + 1 .. L
    BY <1>1
  <2>2. QED
    BY <2>1
<1>2. CASE K # {}
  <2>1. PICK m \in K : \A k \in K : m <= k
    BY <1>2, LeastPosition
  <2>2. m \in 1 .. L + 1 /\ \A k \in m .. L : k \in K
    BY <2>1
  <2>3. \A k \in K : k \in m .. L
    BY <2>1
  <2>4. QED
    BY <2>2, <2>3
<1>3. QED
  BY <1>1, <1>2

Rest(s, m, L) == [n \in 1 .. L + 1 - m |-> s[m + n - 1]]

LEMMA KeptInterval ==
  ASSUME NEW s, NEW L \in Nat, NEW m \in 1 .. L + 1
  PROVE  RowsAt(s, m .. L) = Rest(s, m, L)
<1>1. Cardinality(m .. L) = L + 1 - m
  <2>1. Cardinality(m .. L) = IF m > L THEN 0 ELSE L - m + 1
    BY FS_Interval
  <2>2. QED
    BY <2>1
<1>2. ASSUME NEW n \in 1 .. L + 1 - m
      PROVE  Nth(m .. L, n) = m + n - 1
  <2>1. ASSUME NEW k \in m .. L
        PROVE  Cardinality({j \in m .. L : j <= k}) = k - m + 1
    <3>1. {j \in m .. L : j <= k} = m .. k
      OBVIOUS
    <3>2. Cardinality(m .. k) = k - m + 1
      BY FS_Interval
    <3>3. QED
      BY <3>1, <3>2
  <2>2. m + n - 1 \in m .. L
    OBVIOUS
  <2>3. \A k \in m .. L : Cardinality({j \in m .. L : j <= k}) = n <=> k = m + n - 1
    BY <2>1
  <2>4. QED
    BY <2>2, <2>3 DEF Nth
<1>3. QED
  BY <1>1, <1>2 DEF RowsAt, Rest

(* A page is a stretch of w rows of the archive, from the m-th on.          *)
Cuts(s, next, m, w) ==
    /\ m \in 1 .. Len(archive) + 1 /\ w \in 0 .. Len(archive) + 1 - m
    /\ IsSequence(s) /\ Len(s) = w /\ \A n \in 1 .. w : s[n] = archive[m + n - 1]
    /\ \/ w = Len(archive) + 1 - m /\ next = 0
       \/ w > 0 /\ next = archive[m + w - 1][2]

LEMMA PageCuts ==
  ASSUME IsRows(archive), NewestFirst(archive), NEW c \in Nat
  PROVE  \E m, w : /\ Cuts(Page(c).listing, Page(c).next, m, w)
                   /\ \A k \in 1 .. Len(archive) : (c = 0 \/ archive[k][2] < c) <=> k >= m
<1>1. PICK L \in Nat : L = Len(archive)
  BY DEF IsRows, IsSequence
<1>2. PICK K : K = {i \in 1 .. Len(archive) : c = 0 \/ archive[i][2] < c}
  OBVIOUS
<1>3. PICK m \in 1 .. L + 1 : K = m .. L
  <2>1. K \in SUBSET (1 .. L)
    BY <1>1, <1>2
  <2>2. ASSUME NEW j \in 1 .. L, NEW k \in 1 .. L, j \in K, j <= k
        PROVE  k \in K
    <3>1. archive[j][2] \in Nat /\ archive[k][2] \in Nat
      BY <1>1 DEF IsRows, IsRow
    <3>2. j < k => archive[k][2] < archive[j][2]
      BY <1>1 DEF NewestFirst
    <3>3. QED
      BY <1>1, <1>2, <2>2, <3>1, <3>2
  <2>3. QED
    BY <2>1, <2>2, UpperPositions
<1>4. PICK found : found = Older(c)
  OBVIOUS
<1>5. found = [n \in 1 .. L + 1 - m |-> archive[m + n - 1]]
  <2>1. found = RowsAt(archive, K)
    BY <1>2, <1>4 DEF Older
  <2>2. RowsAt(archive, m .. L) = Rest(archive, m, L)
    BY KeptInterval
  <2>3. QED
    BY <1>3, <2>1, <2>2 DEF Rest
<1> DEFINE S == {archive[i] : i \in 1 .. L}
<1>6. found \in [1 .. L + 1 - m -> S] /\ L + 1 - m \in Nat
  BY <1>5
<1>7. found \in Seq(S) /\ Len(found) = L + 1 - m
  BY <1>6, SeqDef
<1> HIDE DEF S
<1>8. PICK w : w = IF Len(found) < PageSize THEN Len(found) ELSE PageSize
  OBVIOUS
<1>9. PageSize \in Nat \ {0}
  BY ConsoleAssumption
<1>10. w \in 0 .. L + 1 - m /\ (w = L + 1 - m \/ (w = PageSize /\ Len(found) > PageSize))
  BY <1>7, <1>8, <1>9
<1>11. PICK s, next : /\ s = SubSeq(found, 1, w)
                      /\ next = IF Len(found) > PageSize THEN found[PageSize][2] ELSE 0
  OBVIOUS
<1>12. Page(c).listing = s /\ Page(c).next = next
  BY <1>4, <1>8, <1>11 DEF Page
<1>13. s \in Seq(S) /\ Len(s) = w /\ \A n \in 1 .. w : s[n] = found[n]
  BY <1>7, <1>10, <1>11
<1>14. IsSequence(s)
  BY <1>13, IsSequenceOf
<1>15. \A n \in 1 .. w : s[n] = archive[m + n - 1]
  <2>1. ASSUME NEW n \in 1 .. w
        PROVE  s[n] = archive[m + n - 1]
    <3>1. n \in 1 .. L + 1 - m
      BY <1>10
    <3>2. found[n] = archive[m + n - 1]
      BY <1>5, <3>1
    <3>3. QED
      BY <1>13, <3>2
  <2>2. QED
    BY <2>1
<1>16. \/ w = L + 1 - m /\ next = 0
       \/ w > 0 /\ next = archive[m + w - 1][2]
  <2>1. CASE Len(found) > PageSize
    <3>1. w = PageSize /\ w > 0 /\ w \in 1 .. L + 1 - m
      BY <1>7, <1>8, <1>9, <2>1
    <3>2. next = archive[m + w - 1][2]
      BY <1>5, <1>11, <2>1, <3>1
    <3>3. QED
      BY <3>1, <3>2
  <2>2. CASE ~(Len(found) > PageSize)
    BY <1>7, <1>8, <1>9, <1>11, <2>2
  <2>3. QED
    BY <2>1, <2>2
<1>17. Cuts(s, next, m, w)
  BY <1>1, <1>3, <1>10, <1>13, <1>14, <1>15, <1>16 DEF Cuts
<1>18. \A k \in 1 .. Len(archive) : (c = 0 \/ archive[k][2] < c) <=> k >= m
  BY <1>1, <1>2, <1>3
<1>19. QED
  BY <1>12, <1>17, <1>18


LEMMA CutStretches ==
  ASSUME IsRows(archive), NewestFirst(archive), NEW s, NEW next, NEW m, NEW w, Cuts(s, next, m, w), NEW top \in Nat,
         \A k \in 1 .. Len(archive) : archive[k][2] < top <=> k >= m,
         Len(archive) # 0 => top <= archive[1][2] + 1
  PROVE  Stretch(s, next, top)
<1>1. PICK L \in Nat : L = Len(archive)
  BY DEF IsRows, IsSequence
<1>2. m \in 1 .. L + 1 /\ w \in 0 .. L + 1 - m /\ IsSequence(s) /\ Len(s) = w
  BY <1>1 DEF Cuts
<1>3. \A n \in 1 .. w : m + n - 1 \in m .. L /\ m + n - 1 \in 1 .. L /\ s[n] = archive[m + n - 1]
  BY <1>1, <1>2 DEF Cuts
<1>4. \A k \in 1 .. L : IsRow(archive[k]) /\ archive[k][2] \in Nat /\ archive[k][2] # 0
  BY <1>1 DEF IsRows, IsRow
<1>5. \A j, k \in 1 .. L : j < k => archive[k][2] < archive[j][2] /\ archive[k][1] # archive[j][1]
  BY <1>1 DEF NewestFirst
<1>6. IsRows(s)
  BY <1>2, <1>3, <1>4 DEF IsRows
<1>7. NewestFirst(s)
  <2>1. ASSUME NEW i \in 1 .. w, NEW j \in 1 .. w, i < j
        PROVE  s[j][2] < s[i][2] /\ s[j][1] # s[i][1]
    <3>1. m + i - 1 < m + j - 1
      BY <1>2, <2>1
    <3>2. QED
      BY <1>3, <1>5, <3>1
  <2>2. QED
    BY <1>2, <2>1 DEF NewestFirst
<1>8. Earlier(s)
  <2>1. ASSUME NEW i \in 1 .. w, NEW k \in 1 .. L, archive[k][1] = s[i][1]
        PROVE  s[i][2] <= archive[k][2]
    <3>1. PICK j \in 1 .. L : s[i] = archive[j]
      BY <1>3
    <3>2. j = k
      BY <1>5, <2>1, <3>1
    <3>3. QED
      BY <1>4, <3>1, <3>2
  <2>2. QED
    BY <1>1, <1>2, <2>1 DEF Earlier
<1>9. Fills(s, next, top)
  <2>1. ASSUME NEW k \in 1 .. L, archive[k][2] < top, next = 0 \/ archive[k][2] >= next
        PROVE  \E i \in 1 .. w : s[i] = archive[k]
    <3>1. k >= m
      BY <1>1, <2>1
    <3>2. k <= m + w - 1
      <4>1. CASE w = L + 1 - m
        BY <1>2, <4>1
      <4>2. CASE w > 0 /\ next = archive[m + w - 1][2]
        <5>1. m + w - 1 \in 1 .. L
          BY <1>2, <1>3, <4>2
        <5>2. archive[k][2] >= archive[m + w - 1][2]
          BY <1>4, <2>1, <4>2, <5>1
        <5>3. ~(m + w - 1 < k)
          BY <1>4, <1>5, <5>1, <5>2
        <5>4. QED
          BY <5>1, <5>3
      <4>3. QED
        BY <1>1, <4>1, <4>2 DEF Cuts
    <3>3. PICK n : n = k + 1 - m
      OBVIOUS
    <3>4. n \in 1 .. w /\ m + n - 1 = k
      BY <1>2, <3>1, <3>2, <3>3
    <3>5. QED
      BY <1>3, <3>4
  <2>2. QED
    BY <1>1, <1>2, <2>1 DEF Fills
<1>10. next \in Nat /\ (next # 0 => Len(s) # 0 /\ next = s[Len(s)][2])
  <2>1. CASE w = L + 1 - m /\ next = 0
    BY <2>1
  <2>2. CASE w > 0 /\ next = archive[m + w - 1][2]
    <3>1. w \in 1 .. w
      BY <1>2, <2>2
    <3>2. QED
      BY <1>2, <1>3, <1>4, <2>2, <3>1
  <2>3. QED
    BY <1>1, <2>1, <2>2 DEF Cuts
<1>11. \A i \in 1 .. Len(s) : s[i][2] < top
  <2>1. ASSUME NEW i \in 1 .. w
        PROVE  s[i][2] < top
    <3>1. PICK k \in m .. L : s[i] = archive[k] /\ k \in 1 .. L
      BY <1>3
    <3>2. k >= m
      BY <1>2, <3>1
    <3>3. QED
      BY <1>1, <3>1, <3>2
  <2>2. QED
    BY <1>2, <2>1
<1>12. QED
  BY <1>6, <1>7, <1>8, <1>9, <1>10, <1>11 DEF Stretch

LEMMA EmptyIsEmpty ==
  ASSUME NEW s, IsSequence(s), Len(s) = 0
  PROVE  s = << >>
<1>1. PICK S : s \in Seq(S)
  BY SequenceOf
<1>2. << >> \in Seq(S) /\ Len(<< >>) = 0
  OBVIOUS
<1>3. QED
  BY <1>1, <1>2, SeqEqual

(* The first page, and the one below the cursor.                            *)
LEMMA FirstPage ==
  ASSUME IsRows(archive), NewestFirst(archive)
  PROVE  Whole(Page(0).listing, Page(0).next)
<1>1. PICK s, next : s = Page(0).listing /\ next = Page(0).next
  OBVIOUS
<1>2. PICK m, w : Cuts(s, next, m, w) /\ \A k \in 1 .. Len(archive) : k >= m
  BY <1>1, PageCuts
<1>3. PICK L \in Nat : L = Len(archive)
  BY DEF IsRows, IsSequence
<1>4. m = 1 /\ w \in 0 .. L /\ IsSequence(s) /\ Len(s) = w
  <2>1. m \in 1 .. L + 1 /\ w \in 0 .. L + 1 - m /\ IsSequence(s) /\ Len(s) = w
    BY <1>2, <1>3 DEF Cuts
  <2>2. L # 0 => 1 >= m
    BY <1>2, <1>3
  <2>3. QED
    BY <2>1, <2>2
<1>5. CASE w = 0
  <2>1. next = 0
    BY <1>2, <1>4, <1>5 DEF Cuts
  <2>2. s = << >>
    BY <1>4, <1>5, EmptyIsEmpty
  <2>3. QED
    BY <1>1, <1>4, <1>5, <2>1, <2>2 DEF Whole
<1>6. CASE w # 0
  <2>1. 1 \in 1 .. w /\ 1 \in 1 .. L /\ s[1] = archive[1]
    BY <1>2, <1>3, <1>4, <1>6 DEF Cuts
  <2>2. \A k \in 1 .. L : archive[k][2] \in Nat
    BY <1>3 DEF IsRows, IsRow
  <2>3. PICK top \in Nat : top = archive[1][2] + 1
    BY <2>1, <2>2
  <2>4. ASSUME NEW k \in 1 .. Len(archive)
        PROVE  archive[k][2] < top <=> k >= m
    <3>1. 1 < k => archive[k][2] < archive[1][2]
      BY <1>3, <2>1 DEF NewestFirst
    <3>2. QED
      BY <1>3, <1>4, <2>1, <2>2, <2>3, <3>1
  <2>5. Stretch(s, next, top)
    BY <1>2, <2>3, <2>4, CutStretches
  <2>6. QED
    BY <1>1, <1>4, <1>6, <2>1, <2>3, <2>5 DEF Whole
<1>7. QED
  BY <1>5, <1>6

LEMMA NextPage ==
  ASSUME IsRows(archive), NewestFirst(archive), Whole(listing, cursor), cursor # 0
  PROVE  /\ Stretch(Page(cursor).listing, Page(cursor).next, cursor)
         /\ Apart(Page(cursor).listing, listing)
<1>1. Len(listing) # 0 /\ Stretch(listing, cursor, listing[1][2] + 1)
  BY DEF Whole
<1>2. /\ IsRows(listing) /\ NewestFirst(listing) /\ Earlier(listing) /\ cursor \in Nat
      /\ cursor = listing[Len(listing)][2] /\ (Len(archive) # 0 => listing[1][2] + 1 <= archive[1][2] + 1)
  BY <1>1 DEF Stretch
<1>3. PICK L \in Nat, M \in Nat : L = Len(archive) /\ M = Len(listing)
  BY <1>2 DEF IsRows, IsSequence
<1>4. /\ \A k \in 1 .. L : archive[k][2] \in Nat
      /\ \A k \in 1 .. M : listing[k][2] \in Nat
  BY <1>2, <1>3 DEF IsRows, IsRow
<1>5. ASSUME NEW j \in 1 .. M
      PROVE  cursor <= listing[j][2]
  <2>1. j < M => listing[M][2] < listing[j][2]
    BY <1>2, <1>3 DEF NewestFirst
  <2>2. QED
    BY <1>2, <1>3, <1>4, <2>1
<1>6. Len(archive) # 0 => cursor <= archive[1][2] + 1
  BY <1>1, <1>2, <1>3, <1>4, <1>5
<1>7. PICK s, next : s = Page(cursor).listing /\ next = Page(cursor).next
  OBVIOUS
<1>8. PICK m, w : Cuts(s, next, m, w) /\ \A k \in 1 .. Len(archive) : archive[k][2] < cursor <=> k >= m
  BY <1>2, <1>7, PageCuts
<1>9. Stretch(s, next, cursor)
  BY <1>2, <1>6, <1>8, CutStretches
<1>10. ASSUME NEW i \in 1 .. Len(s), NEW j \in 1 .. M, s[i][1] = listing[j][1]
       PROVE  FALSE
  <2>1. m + i - 1 \in 1 .. L /\ m + i - 1 >= m /\ s[i] = archive[m + i - 1]
    <3>1. m \in 1 .. L + 1 /\ w \in 0 .. L + 1 - m /\ i \in 1 .. w
      BY <1>3, <1>8 DEF Cuts
    <3>2. s[i] = archive[m + i - 1]
      BY <1>8, <3>1 DEF Cuts
    <3>3. QED
      BY <3>1, <3>2
  <2>2. listing[j][2] <= archive[m + i - 1][2]
    BY <1>2, <1>3, <1>10, <2>1 DEF Earlier
  <2>3. archive[m + i - 1][2] < cursor
    BY <1>3, <1>8, <2>1
  <2>4. PICK k \in 1 .. L : k = m + i - 1
    BY <2>1
  <2>5. listing[j][2] \in Nat /\ archive[k][2] \in Nat /\ cursor <= listing[j][2]
    BY <1>4, <1>5
  <2>6. QED
    BY <1>2, <2>2, <2>3, <2>4, <2>5, SMTT(30)
<1>11. Apart(s, listing)
  BY <1>3, <1>10 DEF Apart
<1>12. QED
  BY <1>7, <1>9, <1>11


(* The next page is put below the rows that are there.                      *)
LEMMA MergeJoins ==
  ASSUME NEW current, NEW page, IsSequence(current), IsSequence(page), Apart(page, current)
  PROVE  Joins(MergeTimelinePage(current, page), current, page)
<1>1. PICK L \in Nat : L = Len(page)
  BY DEF IsSequence
<1>2. \A k \in 1 .. L : page[k] \notin Ids(current)
  BY <1>1 DEF Ids, Apart
<1>3. PICK K : K = {k \in 1 .. Len(page) : page[k] \notin Ids(current)}
  OBVIOUS
<1>4. K = 1 .. L /\ 1 \in 1 .. L + 1
  BY <1>1, <1>2, <1>3
<1>5. RowsAt(page, 1 .. L) = Rest(page, 1, L)
  BY <1>4, KeptInterval
<1>6. Rest(page, 1, L) = page
  BY <1>1 DEF Rest, IsSequence
<1>7. MergeTimelinePage(current, page) = current \o page
  BY <1>3, <1>4, <1>5, <1>6 DEF MergeTimelinePage
<1>8. QED
  BY <1>7, ConcatJoins

LEMMA MergeIsWhole ==
  ASSUME IsRows(archive), NEW current, NEW c, Whole(current, c), c # 0, NEW page, NEW next, Stretch(page, next, c),
         Apart(page, current)
  PROVE  Whole(MergeTimelinePage(current, page), next)
<1>1. PICK r : r = MergeTimelinePage(current, page)
  OBVIOUS
<1>2. Len(current) # 0 /\ Stretch(current, c, current[1][2] + 1)
  BY DEF Whole
<1>3. /\ IsRows(current) /\ NewestFirst(current) /\ Earlier(current) /\ Fills(current, c, current[1][2] + 1)
      /\ c \in Nat /\ c = current[Len(current)][2]
      /\ Len(archive) # 0 => current[1][2] + 1 <= archive[1][2] + 1
  BY <1>2 DEF Stretch
<1>4. /\ IsRows(page) /\ NewestFirst(page) /\ Earlier(page) /\ Fills(page, next, c)
      /\ next \in Nat /\ (next # 0 => Len(page) # 0 /\ next = page[Len(page)][2])
      /\ \A i \in 1 .. Len(page) : page[i][2] < c
  BY DEF Stretch
<1>5. Joins(r, current, page)
  BY <1>1, <1>3, <1>4, MergeJoins DEF IsRows
<1>6. PICK M \in Nat, N \in Nat : M = Len(current) /\ N = Len(page)
  BY <1>3, <1>4 DEF IsRows, IsSequence
<1>7. /\ IsSequence(r) /\ Len(r) = M + N /\ M # 0
      /\ \A i \in 1 .. M : r[i] = current[i]
      /\ \A i \in 1 .. N : r[M + i] = page[i]
  BY <1>2, <1>5, <1>6 DEF Joins
<1>8. ASSUME NEW i \in 1 .. M + N, ~(i \in 1 .. M)
      PROVE  \E j \in 1 .. N : i = M + j /\ r[i] = page[j]
  <2>1. PICK j : j = i - M
    OBVIOUS
  <2>2. j \in 1 .. N /\ i = M + j
    BY <1>8, <2>1
  <2>3. QED
    BY <1>7, <2>2
<1>9. \A i \in 1 .. M : IsRow(current[i]) /\ current[i][2] \in Nat
  BY <1>3, <1>6 DEF IsRows, IsRow
<1>10. \A i \in 1 .. N : IsRow(page[i]) /\ page[i][2] \in Nat /\ page[i][2] < c
  BY <1>4, <1>6 DEF IsRows, IsRow
<1>11. ASSUME NEW i \in 1 .. M
       PROVE  c <= current[i][2]
  <2>1. i < M => current[M][2] < current[i][2]
    BY <1>3, <1>6 DEF NewestFirst
  <2>2. QED
    BY <1>3, <1>6, <1>9, <2>1
<1>12. IsRows(r)
  <2>1. ASSUME NEW i \in 1 .. M + N
        PROVE  IsRow(r[i])
    BY <1>7, <1>8, <1>9, <1>10
  <2>2. QED
    BY <1>7, <2>1 DEF IsRows
<1>13. NewestFirst(r)
  <2>1. ASSUME NEW i \in 1 .. M + N, NEW j \in 1 .. M + N, i < j
        PROVE  r[j][2] < r[i][2] /\ r[j][1] # r[i][1]
    <3>1. CASE i \in 1 .. M /\ j \in 1 .. M
      BY <1>3, <1>6, <1>7, <2>1, <3>1 DEF NewestFirst
    <3>2. CASE i \in 1 .. M /\ ~(j \in 1 .. M)
      <4>1. PICK k \in 1 .. N : r[j] = page[k]
        BY <1>8, <3>2
      <4>2. r[i] = current[i] /\ page[k][1] # current[i][1]
        BY <1>6, <1>7, <3>2 DEF Apart
      <4>3. page[k][2] < c /\ c <= current[i][2] /\ page[k][2] \in Nat /\ current[i][2] \in Nat
        BY <1>9, <1>10, <1>11, <3>2
      <4>4. QED
        BY <1>3, <4>1, <4>2, <4>3
    <3>3. CASE ~(i \in 1 .. M)
      <4>1. ~(j \in 1 .. M)
        BY <2>1, <3>3
      <4>2. PICK k \in 1 .. N : i = M + k /\ r[i] = page[k]
        BY <1>8, <3>3
      <4>3. PICK l \in 1 .. N : j = M + l /\ r[j] = page[l]
        BY <1>8, <4>1
      <4>4. k < l
        BY <2>1, <4>2, <4>3
      <4>5. QED
        BY <1>4, <1>6, <4>2, <4>3, <4>4 DEF NewestFirst
    <3>4. QED
      BY <3>1, <3>2, <3>3
  <2>2. QED
    BY <1>7, <2>1 DEF NewestFirst
<1>14. Earlier(r)
  <2>1. ASSUME NEW i \in 1 .. M + N, NEW k \in 1 .. Len(archive), archive[k][1] = r[i][1]
        PROVE  r[i][2] <= archive[k][2]
    <3>1. CASE i \in 1 .. M
      BY <1>3, <1>6, <1>7, <2>1, <3>1 DEF Earlier
    <3>2. CASE ~(i \in 1 .. M)
      <4>1. PICK j \in 1 .. N : r[i] = page[j]
        BY <1>8, <3>2
      <4>2. QED
        BY <1>4, <1>6, <2>1, <4>1 DEF Earlier
    <3>3. QED
      BY <3>1, <3>2
  <2>2. QED
    BY <1>7, <2>1 DEF Earlier
<1>15. 1 \in 1 .. M /\ r[1] = current[1]
  BY <1>6, <1>7
<1>16. Fills(r, next, r[1][2] + 1)
  <2>1. ASSUME NEW k \in 1 .. Len(archive), archive[k][2] < r[1][2] + 1, next = 0 \/ archive[k][2] >= next
        PROVE  \E i \in 1 .. M + N : r[i] = archive[k]
    <3>1. archive[k][2] \in Nat
      BY DEF IsRows, IsRow
    <3>2. CASE archive[k][2] >= c
      <4>1. PICK i \in 1 .. M : current[i] = archive[k]
        BY <1>3, <1>6, <1>15, <2>1, <3>2 DEF Fills
      <4>2. QED
        BY <1>6, <1>7, <4>1
    <3>3. CASE ~(archive[k][2] >= c)
      <4>1. archive[k][2] < c
        BY <1>3, <3>1, <3>3
      <4>2. PICK i \in 1 .. N : page[i] = archive[k]
        BY <1>4, <1>6, <2>1, <4>1 DEF Fills
      <4>3. M + i \in 1 .. M + N /\ r[M + i] = archive[k]
        BY <1>7, <4>2
      <4>4. QED
        BY <4>3
    <3>4. QED
      BY <3>2, <3>3
  <2>2. QED
    BY <1>7, <2>1 DEF Fills
<1>17. next # 0 => Len(r) # 0 /\ next = r[Len(r)][2]
  <2>1. ASSUME next # 0
        PROVE  next = r[Len(r)][2]
    <3>1. N # 0 /\ N \in 1 .. N /\ next = page[N][2]
      BY <1>4, <1>6, <2>1
    <3>2. r[M + N] = page[N]
      BY <1>7, <3>1
    <3>3. QED
      BY <1>7, <3>1, <3>2
  <2>2. QED
    BY <1>6, <1>7, <2>1
<1>18. r[1][2] \in Nat
  BY <1>9, <1>15
<1>19. \A i \in 1 .. Len(r) : r[i][2] < r[1][2] + 1
  <2>1. ASSUME NEW i \in 1 .. M + N
        PROVE  r[i][2] < r[1][2] + 1
    <3>1. 1 \in 1 .. M + N /\ r[i][2] \in Nat /\ (1 < i => r[i][2] < r[1][2])
      BY <1>7, <1>12, <1>13 DEF NewestFirst, IsRows, IsRow
    <3>2. QED
      BY <1>18, <3>1
  <2>2. QED
    BY <1>7, <2>1
<1>20. Whole(r, next)
  <2>1. r[1][2] + 1 \in Nat /\ (Len(archive) # 0 => r[1][2] + 1 <= archive[1][2] + 1)
    BY <1>3, <1>15, <1>18
  <2>2. Stretch(r, next, r[1][2] + 1)
    BY <1>4, <1>12, <1>13, <1>14, <1>16, <1>17, <1>19, <2>1 DEF Stretch
  <2>3. Len(r) # 0
    BY <1>6, <1>7
  <2>4. QED
    BY <2>2, <2>3 DEF Whole
<1>21. QED
  BY <1>1, <1>20


(* A capture: its session comes first, with a later moment, and the others  *)
(* follow as they were.                                                     *)
CaptureMoves(s) ==
    /\ IsRows(archive') /\ NewestFirst(archive') /\ Len(archive') = Len(archive) /\ Len(archive) # 0
    /\ archive'[1][2] = archive[1][2] + 1
    /\ \A j \in 1 .. Len(archive) : \E k \in 1 .. Len(archive) :
          archive[k][1] = archive'[j][1] /\ archive[k][2] <= archive'[j][2] /\ (j # 1 => archive'[j] = archive[k])

LEMMA CaptureFirst ==
  ASSUME IsRows(archive), NewestFirst(archive), NEW s, Capture(s)
  PROVE  CaptureMoves(s)
<1>1. PICK L \in Nat : L = Len(archive)
  BY DEF IsRows, IsSequence
<1>2. PICK m \in 1 .. L :
        /\ archive[m][1] = s
        /\ archive' = [i \in 1 .. L |->
               IF i = 1 THEN <<s, archive[1][2] + 1>> ELSE archive[IF i <= m THEN i - 1 ELSE i]]
  <2>1. \E m \in 1 .. Len(archive) :
          /\ archive[m][1] = s
          /\ archive' = [i \in 1 .. Len(archive) |->
                 IF i = 1 THEN <<s, archive[1][2] + 1>> ELSE archive[IF i <= m THEN i - 1 ELSE i]]
    BY DEF Capture
  <2>2. QED
    BY <1>1, <2>1
<1>3. /\ \A i \in 1 .. L : IsRow(archive[i]) /\ archive[i][2] \in Nat
      /\ \A i, j \in 1 .. L : i < j => archive[j][2] < archive[i][2] /\ archive[j][1] # archive[i][1]
  BY <1>1 DEF IsRows, IsRow, NewestFirst
<1>4. PICK row : row = <<s, archive[1][2] + 1>>
  OBVIOUS
<1>5. 1 \in 1 .. L /\ archive[1][2] \in Nat
  BY <1>2, <1>3
<1>6. row[1] = s /\ row[2] = archive[1][2] + 1 /\ IsRow(row)
  BY <1>4, <1>5 DEF IsRow
<1>7. archive'[1] = row
  BY <1>2, <1>4, <1>5
<1>8. ASSUME NEW j \in 2 .. L
      PROVE  \E k \in 1 .. L : archive'[j] = archive[k] /\ k = (IF j <= m THEN j - 1 ELSE j) /\ k # m
  <2>1. PICK k : k = IF j <= m THEN j - 1 ELSE j
    OBVIOUS
  <2>2. k \in 1 .. L /\ k # m
    BY <2>1
  <2>3. archive'[j] = archive[k]
    BY <1>2, <2>1
  <2>4. QED
    BY <2>1, <2>2, <2>3
<1>9. IsSequence(archive') /\ Len(archive') = L
  <2>1. PICK S : S = {archive[i] : i \in 1 .. L} \cup {row}
    OBVIOUS
  <2>2. \A i \in 1 .. L : archive'[i] \in S
    BY <1>2, <1>7, <1>8, <2>1
  <2>3. archive' \in [1 .. L -> S]
    BY <1>2, <2>2
  <2>4. archive' \in Seq(S) /\ Len(archive') = L
    BY <2>3, SeqDef
  <2>5. QED
    BY <2>4, IsSequenceOf
<1>10. IsRows(archive')
  <2>1. ASSUME NEW i \in 1 .. L
        PROVE  IsRow(archive'[i])
    BY <1>3, <1>6, <1>7, <1>8
  <2>2. QED
    BY <1>9, <2>1 DEF IsRows
<1>11. NewestFirst(archive')
  <2>1. ASSUME NEW i \in 1 .. L, NEW j \in 1 .. L, i < j
        PROVE  archive'[j][2] < archive'[i][2] /\ archive'[j][1] # archive'[i][1]
    <3>1. j \in 2 .. L
      BY <2>1
    <3>2. PICK k \in 1 .. L : archive'[j] = archive[k] /\ k = (IF j <= m THEN j - 1 ELSE j) /\ k # m
      BY <1>8, <3>1
    <3>3. CASE i = 1
      <4>1. 1 < k => archive[k][2] < archive[1][2]
        BY <1>3, <1>5
      <4>2. archive[k][2] < archive[1][2] + 1
        BY <1>3, <1>5, <4>1
      <4>3. archive[k][1] # archive[m][1]
        BY <1>3, <3>2
      <4>4. QED
        BY <1>2, <1>6, <1>7, <3>2, <3>3, <4>2, <4>3
    <3>4. CASE i # 1
      <4>1. PICK l \in 1 .. L : archive'[i] = archive[l] /\ l = (IF i <= m THEN i - 1 ELSE i) /\ l # m
        BY <1>8, <3>4
      <4>2. l < k
        BY <2>1, <3>2, <4>1
      <4>3. QED
        BY <1>3, <3>2, <4>1, <4>2
    <3>5. QED
      BY <3>3, <3>4
  <2>2. QED
    BY <1>9, <2>1 DEF NewestFirst
<1>12. ASSUME NEW j \in 1 .. L
       PROVE  \E k \in 1 .. L :
                 archive[k][1] = archive'[j][1] /\ archive[k][2] <= archive'[j][2] /\ (j # 1 => archive'[j] = archive[k])
  <2>1. CASE j = 1
    <3>1. 1 < m => archive[m][2] < archive[1][2]
      BY <1>3, <1>5
    <3>2. archive[m][2] <= archive[1][2] + 1
      BY <1>3, <1>5, <3>1
    <3>3. QED
      BY <1>2, <1>6, <1>7, <2>1, <3>2
  <2>2. CASE j # 1
    <3>1. PICK k \in 1 .. L : archive'[j] = archive[k]
      BY <1>8, <2>2
    <3>2. QED
      BY <1>3, <3>1
  <2>3. QED
    BY <2>1, <2>2
<1>13. QED
  BY <1>1, <1>5, <1>6, <1>7, <1>9, <1>10, <1>11, <1>12 DEF CaptureMoves

(* What the page holds and what is on its way stays a stretch of it.        *)
LEMMA StretchKept ==
  ASSUME IsRows(archive), archive' = archive \/ \E s : Capture(s) /\ CaptureMoves(s),
         NEW rows, NEW next, NEW top, Stretch(rows, next, top)
  PROVE  Stretch(rows, next, top)'
<1>1. /\ IsRows(rows) /\ NewestFirst(rows) /\ Earlier(rows) /\ Fills(rows, next, top)
      /\ top \in Nat /\ (Len(archive) # 0 => top <= archive[1][2] + 1)
  BY DEF Stretch
<1>2. CASE archive' = archive
  BY <1>2 DEF Stretch, IsRows, NewestFirst, Earlier, Fills
<1>3. CASE archive' # archive
  <2>1. /\ IsRows(archive') /\ NewestFirst(archive') /\ Len(archive') = Len(archive) /\ Len(archive) # 0
        /\ archive'[1][2] = archive[1][2] + 1
        /\ \A j \in 1 .. Len(archive) : \E k \in 1 .. Len(archive) :
              archive[k][1] = archive'[j][1] /\ archive[k][2] <= archive'[j][2] /\ (j # 1 => archive'[j] = archive[k])
    BY <1>3 DEF CaptureMoves
  <2>2. PICK L \in Nat : L = Len(archive)
    BY DEF IsRows, IsSequence
  <2>3. 1 \in 1 .. L /\ archive[1][2] \in Nat
    BY <2>1, <2>2 DEF IsRows, IsRow
  <2>4. /\ \A k \in 1 .. L : archive[k][2] \in Nat /\ archive'[k][2] \in Nat
        /\ \A i \in 1 .. Len(rows) : rows[i][2] \in Nat
    BY <1>1, <2>1, <2>2 DEF IsRows, IsRow
  <2>5. Earlier(rows)'
    <3>1. ASSUME NEW i \in 1 .. Len(rows), NEW j \in 1 .. L, archive'[j][1] = rows[i][1]
          PROVE  rows[i][2] <= archive'[j][2]
      <4>1. PICK k \in 1 .. L : archive[k][1] = archive'[j][1] /\ archive[k][2] <= archive'[j][2]
        BY <2>1, <2>2
      <4>2. rows[i][2] <= archive[k][2]
        BY <1>1, <2>2, <3>1, <4>1 DEF Earlier
      <4>3. QED
        BY <2>4, <4>1, <4>2
    <3>2. QED
      BY <2>1, <2>2, <3>1 DEF Earlier
  <2>6. top <= archive'[1][2]
    BY <1>1, <2>1
  <2>7. Fills(rows, next, top)'
    <3>1. ASSUME NEW j \in 1 .. L, archive'[j][2] < top, next = 0 \/ archive'[j][2] >= next
          PROVE  \E i \in 1 .. Len(rows) : rows[i] = archive'[j]
      <4>1. j # 1
        BY <1>1, <2>1, <2>3, <2>6, <3>1
      <4>2. PICK k \in 1 .. L : archive'[j] = archive[k]
        BY <2>1, <2>2, <4>1
      <4>3. QED
        BY <1>1, <2>2, <3>1, <4>2 DEF Fills
    <3>2. QED
      BY <2>1, <2>2, <3>1 DEF Fills
  <2>8. top <= archive'[1][2] + 1
    BY <1>1, <2>1, <2>3, <2>6
  <2>9. QED
    BY <2>5, <2>7, <2>8 DEF Stretch, IsRows, NewestFirst
<1>4. QED
  BY <1>2, <1>3

LEMMA WholeKept ==
  ASSUME IsRows(archive), archive' = archive \/ \E s : Capture(s) /\ CaptureMoves(s), NEW rows, NEW next, Whole(rows, next)
  PROVE  Whole(rows, next)'
<1>1. CASE Len(rows) = 0
  BY <1>1 DEF Whole
<1>2. CASE Len(rows) # 0
  <2>1. PICK top : top = rows[1][2] + 1
    OBVIOUS
  <2>2. Stretch(rows, next, top)'
    BY <1>2, <2>1, StretchKept DEF Whole
  <2>3. QED
    BY <1>2, <2>1, <2>2 DEF Whole
<1>3. QED
  BY <1>1, <1>2

(* The same of what the next state holds.                                   *)
LEMMA ListingMade ==
  ASSUME NEW s, NEW next, s = listing', next = cursor', Whole(s, next)'
  PROVE  Whole(listing, cursor)'
<1>1. CASE Len(s) = 0
  BY <1>1 DEF Whole
<1>2. CASE Len(s) # 0
  <2>1. Stretch(s, next, s[1][2] + 1)'
    BY <1>2 DEF Whole
  <2>2. Earlier(listing)' /\ Fills(listing, cursor, listing[1][2] + 1)'
    BY <2>1 DEF Stretch, Earlier, Fills
  <2>3. Stretch(listing, cursor, listing[1][2] + 1)'
    BY <2>1, <2>2 DEF Stretch
  <2>4. QED
    BY <1>2, <2>3 DEF Whole
<1>3. QED
  BY <1>1, <1>2

LEMMA DashboardMade ==
  ASSUME NEW j, NEW s, NEW next, s = asks'[j].said.page.listing, next = asks'[j].said.page.next, Whole(s, next)'
  PROVE  Whole(asks[j].said.page.listing, asks[j].said.page.next)'
<1>1. CASE Len(s) = 0
  BY <1>1 DEF Whole
<1>2. CASE Len(s) # 0
  <2>1. Stretch(s, next, s[1][2] + 1)'
    BY <1>2 DEF Whole
  <2>2. Earlier(s)' /\ Fills(s, next, s[1][2] + 1)'
    BY <2>1 DEF Stretch
  <2>3. Earlier(asks[j].said.page.listing)'
    BY <2>2 DEF Earlier
  <2>4. Fills(asks[j].said.page.listing, asks[j].said.page.next, asks[j].said.page.listing[1][2] + 1)'
    BY <2>2 DEF Fills
  <2>5. Stretch(asks[j].said.page.listing, asks[j].said.page.next, asks[j].said.page.listing[1][2] + 1)'
    BY <2>1, <2>3, <2>4 DEF Stretch
  <2>6. QED
    BY <1>2, <2>5 DEF Whole
<1>3. QED
  BY <1>1, <1>2

LEMMA PageMade ==
  ASSUME NEW j, NEW s, NEW next, NEW top, s = asks'[j].said.listing, next = asks'[j].said.next, top = cursor',
         Stretch(s, next, top)'
  PROVE  Stretch(asks[j].said.listing, asks[j].said.next, cursor)'
<1>1. Earlier(s)' /\ Fills(s, next, top)'
  BY DEF Stretch
<1>2. Earlier(asks[j].said.listing)'
  BY <1>1 DEF Earlier
<1>3. Fills(asks[j].said.listing, asks[j].said.next, cursor)'
  BY <1>1 DEF Fills
<1>4. QED
  BY <1>2, <1>3 DEF Stretch

(* Pages and dashboards on their way stay what they were.                   *)
Archives == archive' = archive \/ \E s : Capture(s) /\ CaptureMoves(s)

LEMMA ListingKept ==
  ASSUME TimelineInv, Archives, UNCHANGED <<listing, cursor>>, ~torn
  PROVE  Whole(listing, cursor)'
<1>1. IsRows(archive) /\ Whole(listing, cursor)
  BY DEF TimelineInv
<1>2. PICK s, next : s = listing /\ next = cursor
  OBVIOUS
<1>3. Whole(s, next)'
  BY <1>1, <1>2, WholeKept DEF Archives
<1>4. QED
  BY <1>2, <1>3, ListingMade

LEMMA DashboardKept ==
  ASSUME TimelineInv, Archives, NEW j \in 1 .. Len(asks), asks[j].kind = "dashboard", asks[j].state = "answered",
         asks'[j].said = asks[j].said
  PROVE  Whole(asks[j].said.page.listing, asks[j].said.page.next)'
<1>1. PICK s, next : s = asks[j].said.page.listing /\ next = asks[j].said.page.next
  OBVIOUS
<1>2. IsRows(archive) /\ Whole(s, next)
  BY <1>1 DEF TimelineInv
<1>3. Whole(s, next)'
  BY <1>2, WholeKept DEF Archives
<1>4. s = asks'[j].said.page.listing /\ next = asks'[j].said.page.next
  BY <1>1
<1>5. QED
  BY <1>3, <1>4, DashboardMade

LEMMA PageKept ==
  ASSUME TimelineInv, Archives, UNCHANGED <<listing, cursor, torn>>, NEW j \in 1 .. Len(asks), asks'[j] = asks[j]
  PROVE  PageInv(j)'
<1>1. SUFFICES ASSUME asks[j].kind = "page", asks[j].fresh, ~torn
               PROVE  /\ asks'[j].arg = cursor' /\ cursor' # 0
                      /\ asks'[j].state = "answered" =>
                            (Stretch(asks[j].said.listing, asks[j].said.next, cursor) /\ Apart(asks[j].said.listing, listing))'
  BY DEF PageInv
<1>2. PICK s, next, top : s = asks[j].said.listing /\ next = asks[j].said.next /\ top = cursor
  OBVIOUS
<1>3. /\ IsRows(archive) /\ asks[j].arg = cursor /\ cursor # 0
      /\ asks[j].state = "answered" => Stretch(s, next, top) /\ Apart(s, listing)
  BY <1>1, <1>2 DEF TimelineInv, PageInv
<1>4. asks[j].state = "answered" => Stretch(s, next, top)'
  BY <1>3, StretchKept DEF Archives
<1>5. s = asks'[j].said.listing /\ next = asks'[j].said.next /\ top = cursor'
  BY <1>2
<1>6. asks[j].state = "answered" => Stretch(asks[j].said.listing, asks[j].said.next, cursor)'
  BY <1>4, <1>5, PageMade
<1>7. asks[j].state = "answered" => Apart(asks[j].said.listing, listing)'
  BY <1>2, <1>3, <1>5 DEF Apart
<1>8. QED
  BY <1>3, <1>6, <1>7

(* Pages and dashboards on their way are as they were, or lost.             *)
LEMMA TimelineGoes ==
  ASSUME AsksInv, TimelineInv, NEW i, NEW kinds, Goes(i, kinds), "page" \notin kinds,
         UNCHANGED <<archive, listing, cursor, torn>>,
         loadingMore => loadingMore' \/ (i \in 1 .. Len(asks) /\ asks[i].kind = "page")
  PROVE  TimelineInv'
<1>1. IsRows(archive)' /\ NewestFirst(archive)' /\ Archives
  BY DEF TimelineInv, IsRows, NewestFirst, Archives
<1>2. ~torn' => Whole(listing, cursor)'
  BY <1>1, ListingKept
<1>3. ASSUME NEW j \in 1 .. Len(asks'), asks'[j].kind = "dashboard", asks'[j].state = "answered"
      PROVE  Whole(asks[j].said.page.listing, asks[j].said.page.next)'
  <2>1. j \in 1 .. Len(asks) /\ Stands(j)
    BY <1>3, TimedStands
  <2>2. QED
    BY <1>1, <1>3, <2>1, DashboardKept DEF Stands
<1>4. \A j \in 1 .. Len(asks') : asks'[j].kind = "page" => j \in 1 .. Len(asks) /\ j # i /\ Stands(j)
  BY KindStands
<1>5. PagesAreApart'
  <2>1. ASSUME NEW j \in 1 .. Len(asks'), asks'[j].kind = "page"
        PROVE  loadingMore'
    <3>1. j \in 1 .. Len(asks) /\ j # i /\ asks[j].kind = "page"
      BY <1>4, <2>1 DEF Stands
    <3>2. loadingMore /\ ~(i \in 1 .. Len(asks) /\ asks[i].kind = "page")
      BY <3>1 DEF TimelineInv, PagesAreApart
    <3>3. QED
      BY <3>2
  <2>2. \A j, k \in 1 .. Len(asks') : asks'[j].kind = "page" /\ asks'[k].kind = "page" => j = k
    BY <1>4 DEF TimelineInv, PagesAreApart, Stands
  <2>3. QED
    BY <2>1, <2>2 DEF PagesAreApart
<1>6. ASSUME NEW j \in 1 .. Len(asks')
      PROVE  PageInv(j)'
  <2>1. CASE asks'[j].kind = "page" /\ asks'[j].fresh
    <3>1. j \in 1 .. Len(asks) /\ asks'[j] = asks[j]
      BY <1>4, <2>1 DEF Stands
    <3>2. QED
      BY <1>1, <3>1, PageKept
  <2>2. CASE ~(asks'[j].kind = "page" /\ asks'[j].fresh)
    BY <2>2 DEF PageInv
  <2>3. QED
    BY <2>1, <2>2
<1>7. QED
  BY <1>1, <1>2, <1>3, <1>5, <1>6 DEF TimelineInv

(* An answer is a page of what the archive holds when it is served.         *)
LEMMA TimelineTurns ==
  ASSUME AsksInv, TimelineInv, NEW i \in 1 .. Len(asks), NEW state, NEW said, NEW at, TurnsTo(i, state, said, at),
         state = "answered" => Answers(i, said), UNCHANGED <<archive, listing, cursor, torn, loadingMore>>
  PROVE  TimelineInv'
<1>1. IsRows(archive)' /\ NewestFirst(archive)' /\ Archives /\ IsRows(archive) /\ NewestFirst(archive)
  BY DEF TimelineInv, IsRows, NewestFirst, Archives
<1>2. ~torn' => Whole(listing, cursor)'
  BY <1>1, ListingKept
<1>3. /\ Len(asks') = Len(asks) /\ \A j \in 1 .. Len(asks) : asks'[j].kind = asks[j].kind
      /\ \A j \in 1 .. Len(asks) : j # i => asks'[j] = asks[j]
      /\ asks'[i].arg = asks[i].arg /\ asks'[i].fresh = asks[i].fresh
      /\ asks'[i].state = state /\ asks'[i].said = said
  BY DEF TurnsTo
<1>4. ASSUME NEW j \in 1 .. Len(asks'), asks'[j].kind = "dashboard", asks'[j].state = "answered"
      PROVE  Whole(asks[j].said.page.listing, asks[j].said.page.next)'
  <2>1. CASE j # i
    BY <1>1, <1>3, <1>4, <2>1, DashboardKept
  <2>2. CASE j = i
    <3>1. PICK s, next : s = Page(0).listing /\ next = Page(0).next
      OBVIOUS
    <3>2. said.page = Page(0)
      BY <1>3, <1>4, <2>2 DEF Answers
    <3>3. Whole(s, next)
      BY <1>1, <3>1, FirstPage
    <3>4. Whole(s, next)'
      BY <1>1, <3>3, WholeKept DEF Archives
    <3>5. s = asks'[j].said.page.listing /\ next = asks'[j].said.page.next
      BY <1>3, <2>2, <3>1, <3>2
    <3>6. QED
      BY <3>4, <3>5, DashboardMade
  <2>3. QED
    BY <2>1, <2>2
<1>5. PagesAreApart'
  BY <1>3 DEF TimelineInv, PagesAreApart
<1>6. ASSUME NEW j \in 1 .. Len(asks')
      PROVE  PageInv(j)'
  <2>1. CASE j # i
    BY <1>1, <1>3, <2>1, PageKept
  <2>2. CASE j = i
    <3>1. SUFFICES ASSUME asks[i].kind = "page", asks[i].fresh, ~torn
                   PROVE  /\ asks'[j].arg = cursor' /\ cursor' # 0
                          /\ asks'[j].state = "answered" =>
                                (Stretch(asks[j].said.listing, asks[j].said.next, cursor)
                                 /\ Apart(asks[j].said.listing, listing))'
      BY <1>3, <2>2 DEF PageInv
    <3>2. asks[i].arg = cursor /\ cursor # 0 /\ Whole(listing, cursor)
      BY <3>1 DEF TimelineInv, PageInv
    <3>3. SUFFICES ASSUME state = "answered"
                   PROVE  (Stretch(asks[j].said.listing, asks[j].said.next, cursor)
                           /\ Apart(asks[j].said.listing, listing))'
      BY <1>3, <2>2, <3>2
    <3>4. PICK s, next, top : s = Page(cursor).listing /\ next = Page(cursor).next /\ top = cursor
      OBVIOUS
    <3>5. said = Page(cursor)
      BY <3>1, <3>2, <3>3 DEF Answers
    <3>6. Stretch(s, next, top) /\ Apart(s, listing)
      BY <1>1, <3>2, <3>4, NextPage
    <3>7. Stretch(s, next, top)'
      BY <1>1, <3>6, StretchKept DEF Archives
    <3>8. s = asks'[j].said.listing /\ next = asks'[j].said.next /\ top = cursor'
      BY <1>3, <2>2, <3>4, <3>5
    <3>9. Stretch(asks[j].said.listing, asks[j].said.next, cursor)'
      BY <3>7, <3>8, PageMade
    <3>10. Apart(asks[j].said.listing, listing)'
      BY <3>6, <3>8 DEF Apart
    <3>11. QED
      BY <3>9, <3>10
  <2>3. QED
    BY <2>1, <2>2
<1>7. QED
  BY <1>1, <1>2, <1>4, <1>5, <1>6 DEF TimelineInv

(* The reader asks for the next page, and no other is on its way.           *)
LEMMA TimelineAsks ==
  ASSUME AsksInv, TimelineInv, LoadMoreTimeline
  PROVE  TimelineInv'
<1>1. /\ Asks(asks, "page", cursor) /\ cursor # 0 /\ ~loadingMore /\ loadingMore' = TRUE
      /\ UNCHANGED <<archive, listing, cursor, torn>>
  BY DEF LoadMoreTimeline, OffersOlder
<1>2. /\ Goes(0, {"page"}) /\ Len(asks') = Len(asks) + 1 /\ IsNew(Len(asks) + 1, "page", cursor)
      /\ \A j \in 1 .. Len(asks) : asks'[j] = asks[j]
  BY <1>1, Sends DEF Kinds
<1>3. IsRows(archive)' /\ NewestFirst(archive)' /\ Archives
  BY <1>1 DEF TimelineInv, IsRows, NewestFirst, Archives
<1>4. ~torn' => Whole(listing, cursor)'
  BY <1>1, <1>3, ListingKept
<1>5. \A j \in 1 .. Len(asks) : asks[j].kind # "page"
  BY <1>1 DEF TimelineInv, PagesAreApart
<1>6. \A j \in 1 .. Len(asks') : j \in 1 .. Len(asks) \/ j = Len(asks) + 1
  BY <1>2, Indices
<1>7. ASSUME NEW j \in 1 .. Len(asks'), asks'[j].kind = "dashboard", asks'[j].state = "answered"
      PROVE  Whole(asks[j].said.page.listing, asks[j].said.page.next)'
  <2>1. j \in 1 .. Len(asks)
    BY <1>2, <1>6, <1>7 DEF IsNew
  <2>2. asks[j].kind = "dashboard" /\ asks[j].state = "answered" /\ asks'[j].said = asks[j].said
    BY <1>2, <1>7, <2>1
  <2>3. QED
    BY <1>1, <1>3, <2>1, <2>2, DashboardKept
<1>8. \A j \in 1 .. Len(asks') : asks'[j].kind = "page" => j = Len(asks) + 1
  BY <1>2, <1>5, <1>6
<1>9. PagesAreApart'
  BY <1>1, <1>8 DEF PagesAreApart
<1>10. ASSUME NEW j \in 1 .. Len(asks')
       PROVE  PageInv(j)'
  <2>1. asks'[j].kind = "page" => asks'[j].arg = cursor' /\ asks'[j].state = "sent"
    BY <1>1, <1>2, <1>8 DEF IsNew
  <2>2. QED
    BY <1>1, <2>1 DEF PageInv
<1>11. QED
  BY <1>3, <1>4, <1>7, <1>9, <1>10 DEF TimelineInv

(* A session is captured.                                                   *)
LEMMA TimelineCaptures ==
  ASSUME AsksInv, TimelineInv, NEW s, Capture(s)
  PROVE  TimelineInv'
<1>1. UNCHANGED <<asks, listing, cursor, torn, loadingMore>>
  BY DEF Capture
<1>2. IsRows(archive) /\ NewestFirst(archive)
  BY DEF TimelineInv
<1>3. CaptureMoves(s)
  BY <1>2, CaptureFirst
<1>4. IsRows(archive') /\ NewestFirst(archive') /\ Archives
  BY <1>3 DEF CaptureMoves, Archives
<1>5. ~torn' => Whole(listing, cursor)'
  BY <1>1, <1>4, ListingKept
<1>6. ASSUME NEW j \in 1 .. Len(asks'), asks'[j].kind = "dashboard", asks'[j].state = "answered"
      PROVE  Whole(asks[j].said.page.listing, asks[j].said.page.next)'
  BY <1>1, <1>4, <1>6, DashboardKept
<1>7. PagesAreApart'
  BY <1>1 DEF TimelineInv, PagesAreApart
<1>8. ASSUME NEW j \in 1 .. Len(asks')
      PROVE  PageInv(j)'
  BY <1>1, <1>4, PageKept
<1>9. QED
  BY <1>4, <1>5, <1>6, <1>7, <1>8 DEF TimelineInv, IsRows, NewestFirst

(* A dashboard replaces what is there: pages on their way are of another.    *)
LEMMA TimelineLoads ==
  ASSUME AsksInv, TimelineInv, NEW i \in 1 .. Len(asks), ArriveDashboard(i)
  PROVE  TimelineInv'
<1>1. /\ asks[i].kind = "dashboard" /\ asks[i].state = "answered" /\ torn' = FALSE
      /\ UNCHANGED <<archive, loadingMore>>
      /\ listing' = asks[i].said.page.listing /\ cursor' = asks[i].said.page.next
  BY DEF ArriveDashboard
<1>2. PICK q : q = Ageing(i)
  OBVIOUS
<1>3. asks' = q \/ Moves(entering.goal, q, Authenticated)
  BY <1>2 DEF ArriveDashboard, Ageing
<1>4. Ended(q, i) /\ \A j \in 1 .. Len(asks) : q[j].kind = "page" => q[j].fresh = FALSE
  BY <1>2, AgeingEnds
<1>5. Goes(i, {"session"})
  BY <1>3, <1>4, EndsAndMoves
<1>6. \A j \in 1 .. Len(q) : asks'[j] = q[j]
  BY <1>3, <1>4, Moved DEF Ended
<1>7. IsRows(archive)' /\ NewestFirst(archive)' /\ Archives /\ IsRows(archive)
  BY <1>1 DEF TimelineInv, IsRows, NewestFirst, Archives
<1>8. Whole(listing, cursor)'
  <2>1. PICK s, next : s = asks[i].said.page.listing /\ next = asks[i].said.page.next
    OBVIOUS
  <2>2. Whole(s, next)
    BY <1>1, <2>1 DEF TimelineInv
  <2>3. Whole(s, next)'
    BY <1>7, <2>2, WholeKept DEF Archives
  <2>4. s = listing' /\ next = cursor'
    BY <1>1, <2>1
  <2>5. QED
    BY <2>3, <2>4, ListingMade
<1>9. ASSUME NEW j \in 1 .. Len(asks'), asks'[j].kind = "dashboard", asks'[j].state = "answered"
      PROVE  Whole(asks[j].said.page.listing, asks[j].said.page.next)'
  <2>1. j \in 1 .. Len(asks) /\ Stands(j)
    BY <1>5, <1>9, TimedStands
  <2>2. QED
    BY <1>7, <1>9, <2>1, DashboardKept DEF Stands
<1>10. \A j \in 1 .. Len(asks') : asks'[j].kind = "page" => j \in 1 .. Len(asks) /\ j # i /\ Stands(j)
  BY <1>5, KindStands
<1>11. PagesAreApart'
  BY <1>1, <1>10 DEF TimelineInv, PagesAreApart, Stands
<1>12. ASSUME NEW j \in 1 .. Len(asks'), asks'[j].kind = "page"
       PROVE  ~asks'[j].fresh
  <2>1. j \in 1 .. Len(asks) /\ j \in 1 .. Len(q)
    BY <1>4, <1>10, <1>12 DEF Ended
  <2>2. q[j].kind = "page" /\ asks'[j].fresh = q[j].fresh
    BY <1>6, <1>12, <2>1
  <2>3. QED
    BY <1>4, <2>1, <2>2
<1>13. \A j \in 1 .. Len(asks') : PageInv(j)'
  BY <1>12 DEF PageInv
<1>14. QED
  BY <1>7, <1>8, <1>9, <1>11, <1>13 DEF TimelineInv

(* The next page is put below what is there.                                *)
LEMMA TimelineMerges ==
  ASSUME AsksInv, TimelineInv, NEW i \in 1 .. Len(asks), ArrivePage(i)
  PROVE  TimelineInv'
<1>1. /\ asks[i].kind = "page" /\ asks[i].state = "answered" /\ asks' = Closed(i) /\ archive' = archive
      /\ listing' = MergeTimelinePage(listing, asks[i].said.listing) /\ cursor' = asks[i].said.next
  BY DEF ArrivePage
<1>2. ~torn' => ~torn /\ asks[i].fresh
  BY Zenon DEF ArrivePage
<1>3. Goes(i, {})
  BY <1>1, Ends
<1>4. IsRows(archive)' /\ NewestFirst(archive)' /\ Archives /\ IsRows(archive)
  BY <1>1 DEF TimelineInv, IsRows, NewestFirst, Archives
<1>5. ASSUME ~torn'
      PROVE  Whole(listing, cursor)'
  <2>1. PICK s, next, page, low : /\ s = MergeTimelinePage(listing, page) /\ page = asks[i].said.listing
                                  /\ next = asks[i].said.next /\ low = cursor
    OBVIOUS
  <2>2. ~torn /\ PageInv(i)
    BY <1>2, <1>5 DEF TimelineInv
  <2>3. cursor # 0 /\ Stretch(page, next, low) /\ Apart(page, listing)
    BY <1>1, <1>2, <1>5, <2>1, <2>2 DEF PageInv
  <2>4. Whole(listing, cursor)
    BY <2>2 DEF TimelineInv
  <2>5. Whole(s, next)
    BY <1>4, <2>1, <2>3, <2>4, MergeIsWhole
  <2>6. Whole(s, next)'
    BY <1>4, <2>5, WholeKept DEF Archives
  <2>7. s = listing' /\ next = cursor'
    BY <1>1, <2>1
  <2>8. QED
    BY <2>6, <2>7, ListingMade
<1>6. ASSUME NEW j \in 1 .. Len(asks'), asks'[j].kind = "dashboard", asks'[j].state = "answered"
      PROVE  Whole(asks[j].said.page.listing, asks[j].said.page.next)'
  <2>1. j \in 1 .. Len(asks) /\ Stands(j)
    BY <1>3, <1>6, TimedStands
  <2>2. QED
    BY <1>4, <1>6, <2>1, DashboardKept DEF Stands
<1>7. ASSUME NEW j \in 1 .. Len(asks'), asks'[j].kind = "page"
      PROVE  FALSE
  <2>1. \A k \in 1 .. Len(asks') : asks'[k].kind = "page" => k \in 1 .. Len(asks) /\ k # i /\ Stands(k)
    <3>1. PICK kinds : kinds = {} /\ Goes(i, kinds)
      BY <1>3
    <3>2. "page" \notin kinds
      BY <3>1
    <3>3. QED
      BY <3>1, <3>2, KindStands
  <2>2. j \in 1 .. Len(asks) /\ j # i /\ Stands(j)
    BY <1>7, <2>1
  <2>3. QED
    BY <1>1, <1>7, <2>2 DEF TimelineInv, PagesAreApart, Stands
<1>8. PagesAreApart' /\ \A j \in 1 .. Len(asks') : PageInv(j)'
  BY <1>7 DEF PagesAreApart, PageInv
<1>9. QED
  BY <1>4, <1>5, <1>6, <1>8 DEF TimelineInv

(* The tab is opened anew.                                                  *)
LEMMA TimelineOpens ==
  ASSUME TimelineInv, NEW p, Boots(asks', p), OpenAddress(p)
  PROVE  TimelineInv'
<1>1. archive' = archive /\ listing' = << >> /\ cursor' = 0
  BY DEF OpenAddress
<1>2. IsRows(archive)' /\ NewestFirst(archive)'
  BY <1>1 DEF TimelineInv, IsRows, NewestFirst
<1>3. Whole(listing, cursor)'
  BY <1>1 DEF Whole
<1>4. \A j \in 1 .. Len(asks') : asks'[j].kind # "page" /\ asks'[j].state # "answered"
  BY DEF Boots, IsSent
<1>5. PagesAreApart' /\ \A j \in 1 .. Len(asks') : PageInv(j)'
  BY <1>4 DEF PagesAreApart, PageInv
<1>6. QED
  BY <1>2, <1>3, <1>4, <1>5 DEF TimelineInv

LEMMA TimelineNext ==
  ASSUME AsksInv, TimelineInv, [ConsoleNext]_consoleVars
  PROVE  TimelineInv'
<1> DEFINE Same == UNCHANGED <<archive, listing, cursor, torn, loadingMore>>
<1>1. ASSUME NEW i, NEW kinds, Goes(i, kinds), "page" \notin kinds, Same
      PROVE  TimelineInv'
  BY <1>1, TimelineGoes
<1>2. CASE Stays /\ Same
  <2>1. PICK kinds : kinds = {} /\ Goes(0, kinds)
    BY <1>2, Quiet DEF Stays
  <2>2. QED
    BY <1>1, <1>2, <2>1
<1>3. CASE Wanders /\ Same
  <2>1. PICK kinds : kinds = {"session"} /\ Goes(0, kinds)
    BY <1>3, WandersGoes
  <2>2. QED
    BY <1>1, <1>3, <2>1
<1>4. ASSUME NEW kind \in Kinds, NEW arg, Asks(asks, kind, arg), kind # "page", Same
      PROVE  TimelineInv'
  <2>1. PICK kinds : kinds = {kind} /\ Goes(0, kinds)
    BY <1>4, Sends
  <2>2. QED
    BY <1>1, <1>4, <2>1
<1>5. ASSUME NEW i \in 1 .. Len(asks), ServeAsk(i)
      PROVE  TimelineInv'
  <2>1. Same
    BY <1>5 DEF ServeAsk
  <2>2. CASE \E said : TurnsTo(i, "answered", said, serves') /\ Answers(i, said)
    BY <2>1, <2>2, TimelineTurns
  <2>3. CASE \E state \in {"refused", "dropped"} : TurnsTo(i, state, asks[i].said, 0)
    BY <2>1, <2>3, TimelineTurns
  <2>4. QED
    BY <1>5, <2>2, <2>3, ServeEffect
<1>6. ASSUME NEW i \in 1 .. Len(asks), Drop(i)
      PROVE  TimelineInv'
  <2>1. Same
    BY <1>6 DEF Drop
  <2>2. TurnsTo(i, "dropped", asks[i].said, asks[i].at)
    BY <1>6, DropEffect
  <2>3. QED
    BY <2>1, <2>2, TimelineTurns
<1>7. ASSUME NEW i \in 1 .. Len(asks), ArriveSession(i) \/ ArriveCollection(i)
      PROVE  TimelineInv'
  <2>1. Same /\ asks' = Closed(i)
    BY <1>7 DEF ArriveSession, ArriveCollection
  <2>2. PICK kinds : kinds = {} /\ Goes(i, kinds)
    BY <2>1, Ends
  <2>3. QED
    BY <1>1, <2>1, <2>2
<1>8. ASSUME NEW i \in 1 .. Len(asks), ArriveLogin(i)
      PROVE  TimelineInv'
  <2>1. Same
    BY <1>8 DEF ArriveLogin
  <2>2. PICK kinds : kinds = {"dashboard"} /\ Goes(i, kinds)
    BY <1>8, ArrivesThenLoads
  <2>3. QED
    BY <1>1, <2>1, <2>2
<1>9. ASSUME NEW i \in 1 .. Len(asks), ArriveNothing(i) \/ ArriveRefused(i)
      PROVE  TimelineInv'
  <2>1. UNCHANGED <<archive, listing, cursor, torn>> /\ loadingMore' = (loadingMore /\ asks[i].kind # "page")
    BY <1>9 DEF ArriveNothing, ArriveRefused, Fails
  <2>2. loadingMore => loadingMore' \/ (i \in 1 .. Len(asks) /\ asks[i].kind = "page")
    BY Zenon, <2>1
  <2>3. PICK kinds : kinds = {"session"} /\ Goes(i, kinds)
    BY <1>9, ArrivingEnds, EndsWithGoes
  <2>4. "page" \notin kinds
    BY <2>3
  <2>5. QED
    BY <2>1, <2>2, <2>3, <2>4, TimelineGoes
<1>10. ASSUME NEW i \in 1 .. Len(asks), ArriveAnswer(i)
       PROVE  TimelineInv'
  BY <1>7, <1>8, <1>9, <1>10, TimelineLoads, TimelineMerges DEF ArriveAnswer
<1>11. ASSUME NEW p \in Screens[errand], OpenAddress(p)
       PROVE  TimelineInv'
  <2>1. Boots(asks', p)
    BY <1>11, BootedBoots DEF OpenAddress
  <2>2. QED
    BY <1>11, <2>1, TimelineOpens
<1>12. CASE UNCHANGED consoleVars \/ (\E w \in {0, 1} : Edit(w)) \/ CloseCreate \/ EndToken
  <2>1. Stays /\ Same
    BY <1>12 DEF Stays, Edit, CloseCreate, EndToken
  <2>2. QED
    BY <1>2, <2>1
<1>13. CASE \/ (\E p \in Screens[errand] : NavigateTo(p)) \/ (\E p \in Screens[errand] \cup {"signin"} : Back(p))
            \/ SwitchUser \/ SignInAgain
  <2>1. Same
    BY <1>13 DEF NavigateTo, Back, SwitchUser, SignInAgain
  <2>2. QED
    BY <1>3, <1>13, <2>1, MovingWanders
<1>14. CASE SubmitSignIn \/ LoadDashboard \/ SubmitCollection
  <2>1. Same
    BY <1>14 DEF SubmitSignIn, LoadDashboard, SubmitCollection
  <2>2. \E kind, arg : kind \in Kinds /\ Asks(asks, kind, arg) /\ kind # "page"
    BY <1>14 DEF SubmitSignIn, LoadDashboard, SubmitCollection, Kinds
  <2>3. QED
    BY <1>4, <2>1, <2>2
<1>15. QED
  BY <1>5, <1>6, <1>10, <1>11, <1>12, <1>13, <1>14, TimelineAsks, TimelineCaptures DEF ConsoleNext

-----------------------------------------------------------------------------
(* The tab is opened for the first time.                                    *)
LEMMA FirstArchive ==
  ASSUME ConsoleInit
  PROVE  IsRows(archive) /\ NewestFirst(archive)
<1>1. PICK L \in Nat : L = Len(History)
  BY ConsoleAssumption
<1>2. PICK row : row = [i \in 1 .. L |-> <<History[i], L + 1 - i>>]
  OBVIOUS
<1>3. archive = row
  BY <1>1, <1>2 DEF ConsoleInit
<1>4. PICK S : S = {row[i] : i \in 1 .. L}
  OBVIOUS
<1>5. row \in [1 .. L -> S]
  BY <1>2, <1>4
<1>6. row \in Seq(S) /\ Len(row) = L
  BY <1>5, IsASeq
<1>7. IsSequence(row)
  BY <1>6, IsSequenceOf
<1>8. ASSUME NEW i \in 1 .. L
      PROVE  row[i][1] = History[i] /\ row[i][2] = L + 1 - i /\ IsRow(row[i])
  <2>1. row[i] = <<History[i], L + 1 - i>>
    BY <1>2
  <2>2. L + 1 - i \in Nat \ {0}
    OBVIOUS
  <2>3. QED
    BY <2>1, <2>2 DEF IsRow
<1>9. ASSUME NEW i \in 1 .. L, NEW j \in 1 .. L, i < j
      PROVE  row[j][2] < row[i][2] /\ row[j][1] # row[i][1]
  BY <1>1, <1>8, <1>9, ConsoleAssumption
<1>10. QED
  BY <1>3, <1>6, <1>7, <1>8, <1>9 DEF IsRows, NewestFirst

LEMMA ConsoleStarts ==
  ASSUME ConsoleInit
  PROVE  ConsoleInv
<1>1. PICK p \in Screens[errand] :
        /\ place = IF bearer = 1 THEN p ELSE "signin"
        /\ intended = IF bearer = 1 THEN Nowhere ELSE p
        /\ left = IF errand = "returning" THEN intended ELSE Nowhere
        /\ asks = Booted(p, bearer) /\ opening = IF Len(asks) = 2 THEN 2 ELSE 0
  BY DEF ConsoleInit
<1>2. /\ errand \in Errands /\ bearer \in {0, 1} /\ entering = Unawaited
      /\ listing = << >> /\ cursor = 0 /\ failed = FALSE /\ form = Shut
      /\ library = 0 /\ serves = 0 /\ drops = 0 /\ opens = 0
      /\ behind = TRUE /\ seen = 0 /\ torn = FALSE
  BY DEF ConsoleInit
<1>3. Boots(asks, p) /\ (bearer = 0 => Len(asks) = 0)
  BY <1>1, BootedBoots
<1>4. \A i \in 1 .. Len(asks) : /\ IsAsk(asks[i]) /\ asks[i].state = "sent" /\ asks[i].at = 0
                                /\ asks[i].kind \in {"dashboard", "session"}
  BY <1>3 DEF Boots, IsSent
<1>5. AsksInv
  BY <1>2, <1>3, <1>4 DEF AsksInv, Boots
<1>6. SessionInv
  <2>1. OpeningInv
    <3>1. CASE Len(asks) = 2
      <4>1. p \in Conversation /\ bearer = 1 /\ place = p
        BY <1>1, <1>2, <1>3, <3>1 DEF Boots
      <4>2. SessionOf(place) = p /\ p # Nowhere
        BY <4>1, ConsoleAssumption DEF SessionOf, Nowhere
      <4>3. IsSent(asks[2], "session", p)
        BY <1>3, <3>1 DEF Boots
      <4>4. QED
        BY <1>1, <3>1, <4>2, <4>3 DEF OpeningInv, IsSent
    <3>2. CASE Len(asks) # 2
      BY <1>1, <1>3, <3>2 DEF OpeningInv, Boots
    <3>3. QED
      BY <3>1, <3>2
  <2>2. SaidInv
    BY <1>4 DEF SaidInv
  <2>3. QED
    BY <2>1, <2>2 DEF SessionInv
<1>7. SignInInv
  <2>1. IsEntering(entering) /\ entering.ask = 0
    BY <1>2 DEF IsEntering, Unawaited
  <2>2. QED
    BY <1>1, <1>4, <2>1 DEF SignInInv
<1>8. CuratingInv
  <2>1. p = "collections" => errand = "curating"
    BY <1>2, WritingScreen
  <2>2. entering.goal = Nowhere
    BY <1>2 DEF Unawaited
  <2>3. QED
    BY <1>1, <1>2, <1>4, <2>1, <2>2 DEF CuratingInv, Nowhere
<1>9. FormInv
  BY <1>2 DEF FormInv, IsForm, WordsAreKept, Shut
<1>10. ShelfInv
  BY <1>2, <1>4 DEF ShelfInv, CarriedInv, OnShelfInv, TimesInv, Timed, Made
<1>11. TimelineInv
  <2>1. Whole(listing, cursor)
    BY <1>2 DEF Whole
  <2>2. QED
    BY <1>4, <2>1, FirstArchive DEF TimelineInv, PagesAreApart, PageInv
<1>12. QED
  BY <1>5, <1>6, <1>7, <1>8, <1>9, <1>10, <1>11 DEF ConsoleInv

LEMMA ConsoleSteps ==
  ASSUME ConsoleInv, [ConsoleNext]_consoleVars
  PROVE  ConsoleInv'
  BY AsksNext, OpeningNext, SaidNext, SignInNext, CuratingNext, FormNext, ShelfNext, TimelineNext
  DEF ConsoleInv, SessionInv

-----------------------------------------------------------------------------
(* What the invariant says of the page.                                     *)
LEMMA ShelfIsTrue ==
  ASSUME ConsoleInv
  PROVE  UndisturbedDashboardIsTrue
<1> SUFFICES ASSUME AllAnswered, ~behind
             PROVE  shelf = Shelf(library)
  BY DEF UndisturbedDashboardIsTrue, Shelf
<1>1. \A i \in 1 .. Len(asks) : ~Made(i)
  BY DEF AllAnswered, ConsoleInv, AsksInv, IsAsk, Made, Over
<1>2. PICK n \in 0 .. library : shelf = Shelf(n) /\ AsOf(n, seen)
  BY <1>1 DEF ConsoleInv, ShelfInv, OnShelfInv, Spoiling
<1>3. \A k \in n + 1 .. library : FALSE
  BY <1>1, <1>2 DEF AsOf, ConsoleInv, AsksInv
<1>4. n = library
  BY <1>2, <1>3 DEF ConsoleInv, ShelfInv, CarriedInv
<1>5. QED
  BY <1>2, <1>4

LEMMA ListingIsWhole ==
  ASSUME ConsoleInv
  PROVE  TimelineIsWhole
<1> SUFFICES ASSUME ~torn, listing # << >>
             PROVE  /\ \A i, j \in 1 .. Len(listing) : i < j => listing[j][1] # listing[i][1] /\ listing[j][2] < listing[i][2]
                    /\ \A r \in Ids(archive) :
                         r[2] <= listing[1][2] /\ (cursor = 0 \/ r[2] >= listing[Len(listing)][2]) => r \in Ids(listing)
  BY DEF TimelineIsWhole
<1>1. Len(listing) # 0 /\ Stretch(listing, cursor, listing[1][2] + 1) /\ IsRows(archive)
  BY DEF ConsoleInv, TimelineInv, Whole
<1>2. /\ NewestFirst(listing) /\ Fills(listing, cursor, listing[1][2] + 1) /\ IsRows(listing)
      /\ cursor # 0 => cursor = listing[Len(listing)][2]
  BY <1>1 DEF Stretch
<1>3. ASSUME NEW k \in 1 .. Len(archive), archive[k][2] <= listing[1][2],
             cursor = 0 \/ archive[k][2] >= listing[Len(listing)][2]
      PROVE  archive[k] \in Ids(listing)
  <2>1. archive[k][2] \in Nat /\ listing[1][2] \in Nat
    BY <1>1, <1>2 DEF IsRows, IsRow, IsSequence
  <2>2. archive[k][2] < listing[1][2] + 1 /\ (cursor = 0 \/ archive[k][2] >= cursor)
    BY <1>2, <1>3, <2>1
  <2>3. PICK i \in 1 .. Len(listing) : listing[i] = archive[k]
    BY <1>2, <2>2 DEF Fills
  <2>4. QED
    BY <2>3 DEF Ids
<1>4. QED
  BY <1>2, <1>3 DEF NewestFirst, Ids

(* The console holds what it promises: the collections shown are those of   *)
(* the archive once every answer is in, the timeline has no hole, typed     *)
(* words are kept, an answer for another session never takes the place of   *)
(* the one shown, and signing in brings the reader back.                    *)
THEOREM ConsoleIsTrue == ConsoleSpec => ConsoleHolds
<1>1. ConsoleInit => ConsoleInv
  BY ConsoleStarts
<1>2. ConsoleInv /\ [ConsoleNext]_consoleVars => ConsoleInv'
  BY ConsoleSteps
<1>3. ConsoleInv => UndisturbedDashboardIsTrue /\ TimelineIsWhole /\ WordsAreKept
  BY ShelfIsTrue, ListingIsWhole DEF ConsoleInv, FormInv
<1>4. ConsoleInv /\ [ConsoleNext]_consoleVars =>
        [opens' = opens /\ place' = place /\ OpenDetail # Nowhere => detail' = detail]_consoleVars
  BY ShownStep DEF ConsoleInv
<1>5. ConsoleInv /\ [ConsoleNext]_consoleVars =>
        [\A i \in 1 .. Len(asks) :
            /\ opens' = opens /\ opening = i /\ opening' = i
            /\ asks[i].state # "done" /\ asks'[i].state = "done"
            => failed' \/ detail' = SessionOf(place)]_consoleVars
  BY AnsweredStep DEF ConsoleInv
<1>6. ConsoleInv /\ [ConsoleNext]_consoleVars =>
        [entering.ask # 0 /\ entering'.ask = 0 /\ opens' = opens /\ place = "signin" /\ place' # "signin"
         /\ left # Nowhere => place' = left]_consoleVars
  BY BackStep DEF ConsoleInv
<1>7. QED
  BY <1>1, <1>2, <1>3, <1>4, <1>5, <1>6, PTL
  DEF ConsoleSpec, ConsoleHolds, ShownStays, AnsweredIsShown, SigningInBringsYouBack
=============================================================================
