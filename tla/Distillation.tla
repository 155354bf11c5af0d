---------------------------- MODULE Distillation ----------------------------
(* server/src/distillation.service.ts and the budget statements of             *)
(* store/postgres/settings.ts: a run reserves its estimate, asks the provider, *)
(* settles for what it cost and writes its notes, each step a statement of its *)
(* own, while the account's settings are edited as a read followed by a write  *)
(* of the whole row, the month turns and the session is deleted.               *)
EXTENDS Naturals, FiniteSets, FiniteSetsExt

CONSTANTS Distil,     \* calls of run, each about the one session
          Estimate, Cost, Budget,  \* the provider's estimate, what a call may cost, the budgets an account sets
          MaxTroubles \* of an edit of the settings, a turn of the month and a break

ASSUME DistilAssumption ==
    IsFiniteSet(Distil) /\ Estimate \in Nat /\ Cost \subseteq Nat /\ Budget \subseteq Nat /\ MaxTroubles \in Nat

VARIABLES
    settings,   \* the account_settings row: enabled, budget, spent, whether its window is over, which window
    distilling, \* run -> where it stands, what it cost, the window it reserved in
    jobs,       \* run -> the status of its job
    edit,       \* updateSettings: whether one is under way, and the row it read
    alive,      \* the session is there
    paid,       \* what this window's settled runs cost
    lost,       \* estimates of this window whose run broke off before it settled
    disturbed,  \* the counter was overwritten, or settled from another window, since this one opened
    count       \* edits, months and breaks so far

distilVars == <<settings, distilling, jobs, edit, alive, paid, lost, disturbed, count>>

DistilInit ==
    /\ settings = [enabled |-> TRUE, budget |-> Max(Budget), spent |-> 0, over |-> FALSE, window |-> 0]
    /\ distilling = [r \in Distil |-> [at |-> "idle", cost |-> 0, window |-> 0]]
    /\ jobs = [r \in Distil |-> "none"]
    /\ edit = [open |-> FALSE, read |-> settings]
    /\ alive = TRUE /\ paid = 0 /\ lost = 0 /\ disturbed = FALSE
    /\ count = [edits |-> 0, months |-> 0, breaks |-> 0, windows |-> 0]

Stands(r, place) == distilling[r].at = place

(* One of each kind, and no more than MaxTroubles in all. *)
MayHappen(kind) == count[kind] = 0 /\ count.edits + count.months + count.breaks < MaxTroubles

Steps(r, place) == distilling' = [distilling EXCEPT ![r].at = place]

InFlight == {r \in Distil : distilling[r].window = settings.window /\ distilling[r].at \in {"save", "distil", "settle", "refund"}}

(* run: the session and the switch are read first, the budget is not. *)
Ask(r) ==
    /\ Stands(r, "idle") /\ alive /\ settings.enabled
    /\ Steps(r, "reserve")
    /\ UNCHANGED <<settings, jobs, edit, alive, paid, lost, disturbed, count>>

(* The first statement of reserveDistillationBudget: a window that is over. *)
Opened == IF settings.over
          THEN [settings EXCEPT !.spent = 0, !.over = FALSE, !.window = count.windows + 1]
          ELSE settings

Affordable(row) == row.enabled /\ row.spent + Estimate <= row.budget

Charged(row) == [row EXCEPT !.spent = @ + Estimate]

Reserve(r) ==
    /\ Stands(r, "reserve")
    /\ IF Affordable(Opened)
       THEN /\ settings' = Charged(Opened)
            /\ distilling' = [distilling EXCEPT ![r] = [@ EXCEPT !.at = "save", !.window = Opened.window]]
       ELSE settings' = Opened /\ Steps(r, "over")
    /\ IF settings.over
       THEN /\ paid' = 0 /\ lost' = 0 /\ disturbed' = FALSE
            /\ count' = [count EXCEPT !.windows = @ + 1]
       ELSE UNCHANGED <<paid, lost, disturbed, count>>
    /\ UNCHANGED <<jobs, edit, alive>>

SaveRunning(r) ==
    /\ Stands(r, "save")
    /\ jobs' = [jobs EXCEPT ![r] = "running"]
    /\ Steps(r, "distil")
    /\ UNCHANGED <<settings, edit, alive, paid, lost, disturbed, count>>

(* The provider answers with what it cost, or fails. *)
Answers(r) ==
    /\ Stands(r, "distil")
    /\ \/ \E c \in Cost : distilling' = [distilling EXCEPT ![r] = [@ EXCEPT !.at = "settle", !.cost = c]]
       \/ Steps(r, "refund")
    /\ UNCHANGED <<settings, jobs, edit, alive, paid, lost, disturbed, count>>

(* settleDistillationSpend: GREATEST(0, spent + cost - estimate). *)
SettleAt(r, c, place) ==
    /\ settings' = [settings EXCEPT !.spent = IF @ + c < Estimate THEN 0 ELSE @ + c - Estimate]
    /\ Steps(r, place)
    /\ IF distilling[r].window = settings.window
       THEN paid' = paid + c /\ UNCHANGED disturbed
       ELSE disturbed' = TRUE /\ UNCHANGED paid
    /\ UNCHANGED <<jobs, edit, alive, lost, count>>

Settle(r) == Stands(r, "settle") /\ SettleAt(r, distilling[r].cost, "notes")

(* Mutant: a run that failed keeps what it reserved. *)
RefundForgotten(r) ==
    /\ Stands(r, "refund") /\ Steps(r, "fail")
    /\ UNCHANGED <<settings, jobs, edit, alive, paid, lost, disturbed, count>>

Refund(r) == Stands(r, "refund") /\ SettleAt(r, 0, "fail")

SaveFailure(r) ==
    /\ Stands(r, "fail")
    /\ jobs' = [jobs EXCEPT ![r] = "failed"]
    /\ Steps(r, "over")
    /\ UNCHANGED <<settings, edit, alive, paid, lost, disturbed, count>>

(* createAnnotation throws when the session has gone, and nothing catches it. *)
WriteNotes(r) ==
    /\ Stands(r, "notes")
    /\ Steps(r, IF alive THEN "finish" ELSE "over")
    /\ UNCHANGED <<settings, jobs, edit, alive, paid, lost, disturbed, count>>

FinishJob(r) ==
    /\ Stands(r, "finish")
    /\ jobs' = [jobs EXCEPT ![r] = "ready"]
    /\ Steps(r, "over")
    /\ UNCHANGED <<settings, edit, alive, paid, lost, disturbed, count>>

Proceed(r) ==
    \/ Reserve(r) \/ SaveRunning(r) \/ Answers(r) \/ Settle(r) \/ Refund(r)
    \/ SaveFailure(r) \/ WriteNotes(r) \/ FinishJob(r)

(* A statement of a run throws, or its process dies: what it reserved stays reserved. *)
BreakOff(r) ==
    /\ MayHappen("breaks")
    /\ distilling[r].at \notin {"idle", "over", "broken"}
    /\ count' = [count EXCEPT !.breaks = @ + 1]
    /\ lost' = lost + (IF r \in InFlight THEN Estimate ELSE 0)
    /\ Steps(r, "broken")
    /\ UNCHANGED <<settings, jobs, edit, alive, paid, disturbed>>

ReadSettings ==
    /\ ~edit.open /\ MayHappen("edits")
    /\ edit' = [open |-> TRUE, read |-> settings]
    /\ count' = [count EXCEPT !.edits = @ + 1]
    /\ UNCHANGED <<settings, distilling, jobs, alive, paid, lost, disturbed>>

(* saveDistillationSettings writes the whole row it read, the counter with it. *)
SaveSettings ==
    /\ edit.open
    /\ \E enabled \in BOOLEAN, budget \in Budget :
          settings' = [edit.read EXCEPT !.enabled = enabled, !.budget = budget]
    /\ edit' = [edit EXCEPT !.open = FALSE]
    /\ disturbed' = (disturbed \/ edit.read.spent # settings.spent
                               \/ edit.read.window # settings.window)
    /\ UNCHANGED <<distilling, jobs, alive, paid, lost, count>>

MonthTurns ==
    /\ MayHappen("months")
    /\ settings' = [settings EXCEPT !.over = TRUE]
    /\ edit' = [edit EXCEPT !.read.over = TRUE]
    /\ count' = [count EXCEPT !.months = @ + 1]
    /\ UNCHANGED <<distilling, jobs, alive, paid, lost, disturbed>>

SessionGoes ==
    /\ alive /\ alive' = FALSE
    /\ UNCHANGED <<settings, distilling, jobs, edit, paid, lost, disturbed, count>>

DistilNext ==
    \/ \E r \in Distil : Ask(r) \/ Proceed(r) \/ BreakOff(r)
    \/ ReadSettings \/ SaveSettings \/ MonthTurns \/ SessionGoes

DistilFairness == \A r \in Distil : WF_distilVars(Proceed(r))

-----------------------------------------------------------------------------
(* settings.ts:83: short of an edit saved over a moved counter and of a run    *)
(* that settles after the month it reserved in, the counter is what this       *)
(* window's runs cost and what those under way, or broken off, still hold.     *)
SpendIsAccounted ==
    settings.spent = paid + lost + Estimate * Cardinality(InFlight)

(* A job that says running is settled one way or the other, unless its run      *)
(* broke off or its session went before the notes were written.                *)
DistillationSettles ==
    \A r \in Distil :
        jobs[r] = "running" ~> (jobs[r] \in {"ready", "failed"} \/ Stands(r, "broken") \/ ~alive)

(* The account's spend of a month (settings.ts:69-106). *)
DistillationIsTrue == disturbed \/ SpendIsAccounted

-----------------------------------------------------------------------------
(* What is inductive about it.                                                 *)
DistilSpec == DistilInit /\ [][DistilNext]_distilVars

SettingsRow == [enabled: BOOLEAN, budget: Budget \cup {Max(Budget)}, spent: Nat, over: BOOLEAN, window: Nat]
RunRow == [at: {"idle", "reserve", "save", "distil", "settle", "refund", "fail", "notes", "finish", "over", "broken"},
         cost: Nat, window: Nat]

DistilTypeOK ==
    /\ settings \in SettingsRow /\ edit \in [open: BOOLEAN, read: SettingsRow]
    /\ distilling \in [Distil -> RunRow]
    /\ paid \in Nat /\ lost \in Nat /\ disturbed \in BOOLEAN
    /\ count \in [edits: Nat, months: Nat, breaks: Nat, windows: Nat]

(* No run, and no row anybody holds, is of a window that has not been opened.  *)
WindowsAreOpened ==
    /\ settings.window <= count.windows /\ edit.read.window <= count.windows
    /\ \A r \in Distil : distilling[r].window <= count.windows

DistilInv == DistilTypeOK /\ WindowsAreOpened /\ (disturbed \/ SpendIsAccounted)
=============================================================================
