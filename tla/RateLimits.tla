----------------------------- MODULE RateLimits -----------------------------
(* server/src/rate-limit.ts over Redis: the ordinary budget of a route, spent  *)
(* by requests before they run, and the credential budget of an account, spent *)
(* by refused guesses after they ran.  INCR and EXPIRE are two commands and    *)
(* the process can die between them.  Requests of one caller about one account *)
(* to one credential route.                                                    *)
EXTENDS Naturals, FiniteSets

CONSTANTS Request,    \* requests that can be in flight at once
          Limit,      \* MEMOAR_RATE_LIMIT's limit
          Failures,   \* MEMOAR_CREDENTIAL_RATE_LIMIT's limit
          MaxHits,    \* no request starts when a counter stands here
          MaxLost     \* requests whose process dies

ASSUME RateAssumption ==
    IsFiniteSet(Request) /\ Limit \in Nat \ {0} /\ Failures \in Nat \ {0} /\ {MaxHits, MaxLost} \subseteq Nat

Key == {"flood", "failed"}

VARIABLES
    counter,   \* Redis: key -> its value, and whether it was given an expiry
    attempt,   \* request -> where its handling stands, the count it read, and
               \* whether the window it was counted in has lapsed since
    orphaned,  \* keys a process counted first and died before it gave an expiry
    through,   \* requests the ordinary budget let through since its window opened
    lostProcesses

rateVars == <<counter, attempt, orphaned, through, lostProcesses>>

NoAttempt == [at |-> "idle", count |-> 0, late |-> FALSE]

RateInit ==
    /\ counter = [k \in Key |-> [count |-> 0, expires |-> FALSE]]
    /\ attempt = [r \in Request |-> NoAttempt]
    /\ orphaned = {} /\ through = 0 /\ lostProcesses = 0

IsAt(r, place) == attempt[r].at = place

Moves(r, place) ==
    attempt' = [attempt EXCEPT ![r] = IF place = "idle" THEN NoAttempt ELSE [@ EXCEPT !.at = place]]

(* INCR: the value it returns is the attempt's to act on. *)
Incr(r, k, place) ==
    /\ counter' = [counter EXCEPT ![k].count = @ + 1]
    /\ attempt' = [attempt EXCEPT ![r] = [at |-> place, count |-> counter[k].count + 1, late |-> FALSE]]

Hit(r) ==
    /\ IsAt(r, "idle")
    /\ \A k \in Key : counter[k].count < MaxHits
    /\ Incr(r, "flood", "expire flood")
    /\ UNCHANGED <<orphaned, through, lostProcesses>>

(* Only who opened the window gives it its end. *)
OpenWindow(r, k, place) ==
    /\ counter' = [counter EXCEPT ![k].expires = @ \/ attempt[r].count = 1]
    /\ Moves(r, place)

Expire(r) ==
    /\ IsAt(r, "expire flood")
    /\ OpenWindow(r, "flood", "counted")
    /\ UNCHANGED <<orphaned, through, lostProcesses>>

CanActivate(r) ==
    /\ IsAt(r, "counted")
    /\ IF attempt[r].count > Limit
       THEN Moves(r, "idle") /\ UNCHANGED through
       ELSE /\ Moves(r, "peek")
            /\ through' = through + (IF attempt[r].late THEN 0 ELSE 1)
    /\ UNCHANGED <<counter, orphaned, lostProcesses>>

(* Mutant: the failures so far are not asked for. *)
PeekUnchecked(r) ==
    /\ IsAt(r, "peek")
    /\ Moves(r, "guess")
    /\ UNCHANGED <<counter, orphaned, through, lostProcesses>>

Peek(r) ==
    /\ IsAt(r, "peek")
    /\ Moves(r, IF counter["failed"].count >= Failures THEN "idle" ELSE "guess")
    /\ UNCHANGED <<counter, orphaned, through, lostProcesses>>

(* The handler: a refused credential is recorded beside the answer, and not at *)
(* all when the store cannot be reached. *)
Answer(r) ==
    /\ IsAt(r, "guess")
    /\ \E place \in {"idle", "record"} : Moves(r, place)
    /\ UNCHANGED <<counter, orphaned, through, lostProcesses>>

RecordFailure(r) ==
    /\ IsAt(r, "record")
    /\ Incr(r, "failed", "expire failed")
    /\ UNCHANGED <<orphaned, through, lostProcesses>>

ExpireFailures(r) ==
    /\ IsAt(r, "expire failed")
    /\ OpenWindow(r, "failed", "idle")
    /\ UNCHANGED <<orphaned, through, lostProcesses>>

Handle(r) ==
    \/ Expire(r) \/ CanActivate(r) \/ Peek(r) \/ Answer(r)
    \/ RecordFailure(r) \/ ExpireFailures(r)

Die(r) ==
    /\ lostProcesses < MaxLost
    /\ ~IsAt(r, "idle")
    /\ lostProcesses' = lostProcesses + 1
    /\ Moves(r, "idle")
    /\ orphaned' = orphaned \cup
          (IF attempt[r].count # 1 THEN {}
           ELSE IF IsAt(r, "expire flood") THEN {"flood"}
           ELSE IF IsAt(r, "expire failed") THEN {"failed"} ELSE {})
    /\ UNCHANGED <<counter, through>>

(* Redis drops a key whose time has come. *)
Lapse(k) ==
    /\ counter[k].expires
    /\ counter' = [counter EXCEPT ![k] = [count |-> 0, expires |-> FALSE]]
    /\ IF k = "flood"
       THEN through' = 0 /\ attempt' = [r \in Request |-> [attempt[r] EXCEPT !.late = ~IsAt(r, "idle")]]
       ELSE UNCHANGED <<through, attempt>>
    /\ UNCHANGED <<orphaned, lostProcesses>>

RateNext ==
    \/ \E r \in Request : Hit(r) \/ Handle(r) \/ Die(r)
    \/ \E k \in Key : Lapse(k)

RateFairness ==
    /\ \A r \in Request : WF_rateVars(Handle(r))
    /\ \A k \in Key : WF_rateVars(Lapse(k))

-----------------------------------------------------------------------------
(* However many requests race, one window lets through what it allows; an      *)
(* account takes at most as many wrong guesses beyond its budget as there are  *)
(* requests between their peek and their record (rate-limit.ts:225, 300).      *)
WindowHolds == through <= Limit

GuessesAreBounded == counter["failed"].count <= Failures - 1 + Cardinality(Request)

(* Whoever is refused is let in again some time: no counter stays at its limit *)
(* for good, but one whose first request died between INCR and EXPIRE.         *)
LimitsLift == \A k \in Key : []<>(counter[k].count = 0 \/ k \in orphaned)

(* Nobody gets in beyond the budget (rate-limit.ts). *)
RatesAreKept == WindowHolds /\ GuessesAreBounded

-----------------------------------------------------------------------------
(* What is inductive about it.                                                 *)
RateSpec == RateInit /\ [][RateNext]_rateVars

Handled == {"idle", "expire flood", "counted", "peek", "guess", "record", "expire failed"}
Handling == [at: Handled, count: Nat, late: BOOLEAN]

RateTypeOK ==
    /\ counter \in [Key -> [count: Nat, expires: BOOLEAN]]
    /\ attempt \in [Request -> Handling]
    /\ through \in Nat

(* Those counted in the window that is open who will be let through, and the   *)
(* guesses that will be recorded if they are refused.                          *)
Admissible == {r \in Request : /\ attempt[r].at \in {"expire flood", "counted"}
                               /\ ~attempt[r].late /\ attempt[r].count <= Limit}
Guessing == {r \in Request : attempt[r].at \in {"guess", "record"}}

RateInv ==
    /\ RateTypeOK
    /\ through + Cardinality(Admissible) <= Limit
    /\ through + Cardinality(Admissible) <= counter["flood"].count
    /\ counter["failed"].count + Cardinality(Guessing) <= Failures - 1 + Cardinality(Request)
=============================================================================
