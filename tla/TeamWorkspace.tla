---------------------------- MODULE TeamWorkspace ----------------------------
(***************************************************************************)
(* One account's standing consent to share with teams, and what it does to *)
(* the visibility of the account's sessions: membership (teams.ts,         *)
(* store/postgres/teams.ts), enrolment (team-workspace.ts,                 *)
(* store/postgres/team-optins.ts), the stamp a parse writes                *)
(* (ingest/team-stamp.ts) and the owner's own changes                      *)
(* (sharing/sharing.service.ts, updateVisibility), all under server/src/.  *)
(*                                                                         *)
(* Every action is one statement or one transaction.  Checks made one      *)
(* await apart are one action where the change between them could as well  *)
(* come right after both.                                                  *)
(***************************************************************************)
EXTENDS Naturals, FiniteSets

CONSTANTS
    Team, Session, Worker,
    Caller,       \* requests of the account in flight at once
    Machine,      \* enrolled machines
    Uploads,      \* the machine of a parse that names none: reprocess.ts, an import
    AnyMachine,   \* machineId IS NULL
    Private,      \* the scope "private", and "no team"
    Home,         \* the machine that captures each session
    HandChanges,  \* does the owner change visibilities by hand?
    MaxParses,    \* bound on the parses of a behaviour
    MaxCalls      \* bound on the requests of a behaviour

ASSUME WorkspaceAssumption ==
    /\ Private \notin Team
    /\ AnyMachine \notin Machine \cup {Uploads}
    /\ Home \in [Session -> Machine]
    /\ HandChanges \in BOOLEAN
    /\ MaxParses \in Nat /\ MaxCalls \in Nat

VARIABLES
    member,     \* team_members.status of the account's person
    optins,     \* team_share_optins of the account's tenant
    rows,       \* the sessions table: who may see a session, and what it holds
    vetted,     \* sessions whose content a completed review describes
    at,         \* where a worker is
    job,        \* what a worker parses, and the team it resolved
    doing,      \* where a request is
    args,       \* what a request names, and when it began
    picked,     \* session ids revokeTeamVisibility selected
    parses,     \* parses so far
    calls,      \* requests so far, and the clock of createdAt
    overtaken,  \* history: workers that resolved a team before a consent was withdrawn
    withdrawn,  \* history: consents withdrawn, the past too, and not given again
    consented,  \* history: sessions a member's consent or own hand put before a team
    slipped     \* history: sessions whose last save fell between the check and the
                \* write of a change by hand

workerVars == <<at, job, parses>>
callVars == <<doing, args, picked, calls>>
historyVars == <<overtaken, withdrawn, consented, slipped>>
workspaceVars == <<member, optins, rows, vetted, workerVars, callVars, historyVars>>

MachineScope == Machine \cup {AnyMachine}
Visibility == Team \cup {Private}
Row == [there : BOOLEAN, vis : Visibility, clear : BOOLEAN,
        machine : Machine \cup {Uploads}, by : {"parse", "overtaken", "bundle", "hand"}]
Optin == [team : Team, machine : MachineScope, created : Nat]
Job == [on : SUBSET Session, machine : Machine \cup {Uploads}, clear : BOOLEAN,
        said : Visibility, team : Visibility]
NoJob == [on |-> {}, machine |-> Uploads, clear |-> TRUE, said |-> Private, team |-> Private]

WorkspaceTypeOK ==
    /\ member \in [Team -> {"none", "invited", "active"}]
    /\ optins \subseteq Optin
    /\ rows \in [Session -> Row]
    /\ vetted \subseteq Session
    /\ at \in [Worker -> {"idle", "parsed", "stamped"}]
    /\ job \in [Worker -> Job]
    /\ doing \in [Caller -> {"idle", "enrolling", "selecting", "erasing", "setting"}]
    /\ args \in [Caller -> [team : Visibility, machine : MachineScope, on : SUBSET Session,
                           created : Nat]]
    /\ picked \in [Caller -> SUBSET Session]
    /\ parses \in Nat /\ calls \in Nat
    /\ overtaken \subseteq Worker
    /\ withdrawn \subseteq Team \X (Machine \cup {Uploads})
    /\ consented \subseteq Session \X Team
    /\ slipped \subseteq Session
    /\ \A w \in Worker : at[w] # "idle" => \E s \in Session : job[w].on = {s}
    /\ \A c \in Caller : doing[c] \in {"enrolling", "selecting", "erasing"} => args[c].team \in Team

NoArgs == [team |-> Private, machine |-> AnyMachine, on |-> {}, created |-> 0]

Args(t, machine, on) == [team |-> t, machine |-> machine, on |-> on, created |-> calls + 1]

WorkspaceInit ==
    /\ member = [t \in Team |-> "active"]
    /\ optins = {}
    /\ rows = [s \in Session |-> [there |-> FALSE, vis |-> Private, clear |-> TRUE,
                                  machine |-> Home[s], by |-> "parse"]]
    /\ vetted = {}
    /\ at = [w \in Worker |-> "idle"]
    /\ job = [w \in Worker |-> NoJob]
    /\ doing = [c \in Caller |-> "idle"]
    /\ args = [c \in Caller |-> NoArgs]
    /\ picked = [c \in Caller |-> {}]
    /\ parses = 0
    /\ calls = 0
    /\ overtaken = {}
    /\ withdrawn = {}
    /\ consented = {}
    /\ slipped = {}

-----------------------------------------------------------------------------
(* Membership: one row per team and person.                                 *)

SetMember(t, before, after) ==
    /\ member[t] = before
    /\ member' = [member EXCEPT ![t] = after]
    /\ UNCHANGED <<optins, rows, vetted, workerVars, callVars, historyVars>>

Invite(t) == SetMember(t, "none", "invited")

AcceptInvitation(t) == SetMember(t, "invited", "active")

(* declineInvitation, or another member takes the invitation back.          *)
DeclineInvitation(t) == SetMember(t, "invited", "none")

(* The person leaves, or another member removes them.  Their consent rows   *)
(* stay.                                                                    *)
RemoveMember(t) == SetMember(t, "active", "none")

-----------------------------------------------------------------------------
(* A parse.                                                                 *)

(* The transcript is parsed and scanned: findings or not.  Every parser      *)
(* leaves a session private, but the one of Memoar's own bundles, which     *)
(* returns the sessions as they were uploaded, whoever they were for        *)
(* (CanonicalBundleParser).                                                 *)
StartParse(w, s, machine, clear, said) ==
    /\ at[w] = "idle"
    /\ parses < MaxParses
    /\ parses' = parses + 1
    /\ at' = [at EXCEPT ![w] = "parsed"]
    /\ job' = [job EXCEPT ![w] = [on |-> {s}, machine |-> machine, clear |-> clear,
                                  said |-> said, team |-> Private]]
    /\ UNCHANGED <<member, optins, rows, vetted, callVars, historyVars>>

(* Mutant: whether the person is still in the team is not asked.            *)
StandingUnjoined(machine) == {o \in optins : o.machine \in {AnyMachine, machine}}

(* Consents that cover a machine, of teams the person is in.                *)
Standing(machine) ==
    {o \in optins : o.machine \in {AnyMachine, machine} /\ member[o.team] = "active"}

(* resolveIngestTeam: the oldest of them names the team.                    *)
Resolved(machine) ==
    IF Standing(machine) = {} THEN {Private}
    ELSE {o.team : o \in {p \in Standing(machine) :
                            \A q \in Standing(machine) : p.created <= q.created}}

(* IngestTeamStamp.visibilityFor: a session with findings, or one its        *)
(* parser did not leave private, keeps what the parser said; the others get *)
(* the team of a standing consent.  The resolved team is the worker's until *)
(* it saves.                                                                *)
Stamp(w) ==
    /\ at[w] = "parsed"
    /\ at' = [at EXCEPT ![w] = "stamped"]
    /\ \E t \in (IF job[w].clear /\ job[w].said = Private THEN Resolved(job[w].machine)
                ELSE {job[w].said}) :
          /\ job' = [job EXCEPT ![w].team = t]
          /\ consented' = IF job[w].said = Private /\ t \in Team /\ member[t] = "active"
                          THEN consented \cup (job[w].on \X {t}) ELSE consented
    /\ UNCHANGED <<member, optins, rows, vetted, parses, callVars, overtaken, withdrawn, slipped>>

(* What a save leaves of a worker: its job done, the reviews of what it     *)
(* replaced no longer current.                                              *)
Saved(w) ==
    /\ at' = [at EXCEPT ![w] = "idle"]
    /\ vetted' = vetted \ job[w].on
    /\ slipped' = (slipped \ job[w].on) \cup
          {s \in job[w].on : \E c \in Caller : doing[c] = "setting" /\ s \in args[c].on}
    /\ job' = [job EXCEPT ![w] = NoJob]
    /\ overtaken' = overtaken \ {w}
    /\ UNCHANGED <<member, optins, parses, callVars, withdrawn, consented>>

ParsedRow(w) ==
    [there |-> TRUE, vis |-> job[w].team, clear |-> job[w].clear, machine |-> job[w].machine,
     by |-> IF job[w].said # Private THEN "bundle"
            ELSE IF w \in overtaken THEN "overtaken" ELSE "parse"]

(* Mutant: a save keeps the visibility a person set, so that a capture does *)
(* not undo what the owner shared.                                          *)
SaveKeepingHand(w) ==
    /\ at[w] = "stamped"
    /\ rows' = [s \in Session |->
                  IF s \notin job[w].on THEN rows[s]
                  ELSE IF rows[s].by # "hand" THEN ParsedRow(w)
                  ELSE [ParsedRow(w) EXCEPT !.vis = rows[s].vis, !.by = "hand"]]
    /\ Saved(w)

(* saveSession writes the whole row, visibility included, over whatever is  *)
(* there.                                                                   *)
Save(w) ==
    /\ at[w] = "stamped"
    /\ rows' = [s \in Session |-> IF s \in job[w].on THEN ParsedRow(w) ELSE rows[s]]
    /\ Saved(w)

-----------------------------------------------------------------------------
(* Requests of the account.                                                 *)

Enter(c, label, a) ==
    /\ doing[c] = "idle"
    /\ calls < MaxCalls
    /\ calls' = calls + 1
    /\ doing' = [doing EXCEPT ![c] = label]
    /\ args' = [args EXCEPT ![c] = IF label = "idle" THEN NoArgs ELSE a]

Done(c) ==
    /\ doing' = [doing EXCEPT ![c] = "idle"]
    /\ args' = [args EXCEPT ![c] = NoArgs]
    /\ picked' = [picked EXCEPT ![c] = {}]

(* enrol: requireMember and getMachine, then listTenantOptins.  A consent   *)
(* for another team is a conflict, whether the person is in that team or    *)
(* not.                                                                     *)
Enrol(c, t, machine) ==
    /\ member[t] = "active"
    /\ IF \E o \in optins : o.team # t
       THEN Enter(c, "idle", NoArgs)
       ELSE Enter(c, "enrolling", Args(t, machine, {}))
    /\ UNCHANGED <<member, optins, rows, vetted, workerVars, picked, historyVars>>

(* createTeamOptin: one row per team and machine, and createdAt as it was   *)
(* when the checks had passed.                                              *)
CreateOptin(c) ==
    /\ doing[c] = "enrolling"
    /\ LET mine == {o \in optins : o.team = args[c].team /\ o.machine = args[c].machine}
       IN  optins' = IF mine # {} THEN optins
                     ELSE optins \cup {[team |-> args[c].team, machine |-> args[c].machine,
                                        created |-> args[c].created]}
    /\ withdrawn' = {x \in withdrawn : x[1] # args[c].team}
    /\ Done(c)
    /\ UNCHANGED <<member, rows, vetted, workerVars, calls, overtaken, consented, slipped>>

(* revoke: requireMember, deleteTeamOptin.  With revokePast it goes on.     *)
Withdraw(c, t, machine, past) ==
    /\ member[t] = "active"
    /\ LET gone == {o \in optins : o.team = t /\ o.machine = machine}
       IN  IF gone = {}
           THEN /\ Enter(c, "idle", NoArgs)
                /\ UNCHANGED <<optins, overtaken>>
           ELSE /\ Enter(c, IF past THEN "selecting" ELSE "idle",
                         Args(t, machine, {}))
                /\ optins' = optins \ gone
                /\ overtaken' = overtaken \cup
                      {w \in Worker : at[w] = "stamped" /\ job[w].team = t}
    /\ UNCHANGED <<member, rows, vetted, workerVars, picked, withdrawn, consented, slipped>>

InScope(c, s) == args[c].machine \in {AnyMachine, rows[s].machine}

(* revokeTeamVisibility, SELECT id.                                         *)
SelectShared(c) ==
    /\ doing[c] = "selecting"
    /\ doing' = [doing EXCEPT ![c] = "erasing"]
    /\ picked' = [picked EXCEPT ![c] =
                    {s \in Session : rows[s].vis = args[c].team /\ InScope(c, s)}]
    /\ UNCHANGED <<member, optins, rows, vetted, workerVars, args, calls, historyVars>>

(* revokeTeamVisibility, UPDATE by id, and the answer.                      *)
EraseShared(c) ==
    /\ doing[c] = "erasing"
    /\ rows' = [s \in Session |-> IF s \in picked[c] THEN [rows[s] EXCEPT !.vis = Private]
                                  ELSE rows[s]]
    /\ withdrawn' = IF \E o \in optins : o.team = args[c].team THEN withdrawn
                    ELSE withdrawn \cup ({args[c].team} \X
                           (IF args[c].machine = AnyMachine THEN Machine \cup {Uploads}
                            ELSE {args[c].machine}))
    /\ Done(c)
    /\ UNCHANGED <<member, optins, vetted, workerVars, calls, overtaken, consented, slipped>>

(* completeReview of what the session holds.                                *)
CompleteReview(s) ==
    /\ HandChanges
    /\ rows[s].there /\ s \notin vetted
    /\ vetted' = vetted \cup {s}
    /\ UNCHANGED <<member, optins, rows, workerVars, callVars, historyVars>>

(* updateVisibility: the review and the membership are checked.             *)
SetVisibility(c, s, v) ==
    /\ HandChanges
    /\ rows[s].there
    /\ v # Private => s \in vetted /\ member[v] = "active"
    /\ Enter(c, "setting", Args(v, AnyMachine, {s}))
    /\ consented' = IF v \in Team /\ member[v] = "active"
                    THEN consented \cup {<<s, v>>} ELSE consented
    /\ UNCHANGED <<member, optins, rows, vetted, workerVars, picked, overtaken, withdrawn, slipped>>

(* updateSessionVisibility: the visibility column, and nothing is asked.    *)
WriteVisibility(c) ==
    /\ doing[c] = "setting"
    /\ rows' = [s \in Session |->
                  IF s \in args[c].on THEN [rows[s] EXCEPT !.vis = args[c].team, !.by = "hand"]
                  ELSE rows[s]]
    /\ Done(c)
    /\ UNCHANGED <<member, optins, vetted, workerVars, calls, historyVars>>

-----------------------------------------------------------------------------
MemberStep(t) ==
    Invite(t) \/ AcceptInvitation(t) \/ DeclineInvitation(t) \/ RemoveMember(t)

WorkerStep(w) ==
    \/ \E s \in Session, clear \in BOOLEAN, said \in Visibility :
          \E m \in {Home[s], Uploads} : StartParse(w, s, m, clear, said)
    \/ Stamp(w)
    \/ Save(w)

CallerStep(c) ==
    \/ \E t \in Team, m \in MachineScope :
          Enrol(c, t, m) \/ \E past \in BOOLEAN : Withdraw(c, t, m, past)
    \/ \E s \in Session, v \in Visibility : SetVisibility(c, s, v)
    \/ CreateOptin(c) \/ SelectShared(c) \/ EraseShared(c) \/ WriteVisibility(c)

WorkspaceNext ==
    \/ \E t \in Team : MemberStep(t)
    \/ \E w \in Worker : WorkerStep(w)
    \/ \E c \in Caller : CallerStep(c)
    \/ \E s \in Session : CompleteReview(s)

WorkspaceSpec == WorkspaceInit /\ [][WorkspaceNext]_workspaceVars

-----------------------------------------------------------------------------
(* Properties.                                                              *)

(* A session with findings that a team may read was reviewed as it is now:   *)
(* "Every other way of widening a session past private goes through a       *)
(* completed human redaction review" (IngestTeamStamp).  Two ways around    *)
(* that there are, and no third.  A bundle says itself who may read its     *)
(* sessions, and is believed whatever the scanner found.  And               *)
(* updateVisibility looks at the review in one transaction and writes the   *)
(* column in the next: a capture saved between the two is widened           *)
(* unreviewed, and stays so until the next capture of the session narrows   *)
(* it.                                                                      *)
WidenedWasReviewed ==
    \A s \in Session :
        rows[s].vis \in Team /\ ~rows[s].clear /\ s \notin vetted =>
            rows[s].by = "bundle" \/ (rows[s].by = "hand" /\ s \in slipped)

(* A session a team may read was put before it while its owner was in that  *)
(* team, so that rejoining a team reveals nothing captured while away       *)
(* (resolveIngestTeam, "retroactively revealing every one of those sessions *)
(* the day they rejoined").  Unless a bundle put it there, which asks for   *)
(* no consent and no membership.                                            *)
SharedByAMember ==
    \A s \in Session :
        rows[s].vis \in Team => <<s, rows[s].vis>> \in consented \/ rows[s].by = "bundle"

(* The account has one request in flight at most.                           *)
OneAtATime == \A c, d \in Caller : c = d

(* An account that sends one request at a time consents to one team:        *)
(* "enrolling a tenant in a second team is refused at the API"              *)
(* (resolveIngestTeam).  Two enrolments in flight both pass the test, which *)
(* no constraint repeats.                                                   *)
OneTeamOnly == \A o, p \in optins : o.team = p.team

(* Who may have put what is before a team there when the consent is gone.    *)
Escaping == {"hand", "overtaken", "bundle"}

(* After a revokePast answered, and until the account enrols in that team   *)
(* again, its sessions are private again (revoke, "puts them back to        *)
(* private").  What escapes is a parse that had resolved its team before    *)
(* the consent was deleted and saves after, a change by hand and a bundle   *)
(* that names the team.  And a second request: one that enrols and          *)
(* withdraws while the first is between its SELECT and its UPDATE leaves    *)
(* what was saved in between.                                               *)
OnlyTheOvertakenEscape ==
    \A s \in Session :
        <<rows[s].vis, rows[s].machine>> \in withdrawn => rows[s].by \in Escaping

(* A consent and what it shows of an account: given by a member, and, where *)
(* the account sends one request at a time, to one team and gone with the   *)
(* consent (team-optins.ts, resolveIngestTeam).                             *)
ConsentHolds ==
    /\ SharedByAMember
    /\ OneAtATime => OneTeamOnly /\ OnlyTheOvertakenEscape

(* The inductive invariant.  Between its stamp and its save a worker whose   *)
(* parser left the session private holds a team that was consented to when  *)
(* it stamped, for a clean transcript; if the consent is gone by now, the   *)
(* withdrawal has overtaken it.                                             *)
StampInv ==
    \A w \in Worker :
        at[w] = "stamped" /\ job[w].said = Private /\ job[w].team \in Team =>
            /\ job[w].clear
            /\ \A s \in job[w].on : <<s, job[w].team>> \in consented
            /\ (\E o \in optins : o.team = job[w].team) \/ w \in overtaken

(* Between its check and its write a change by hand is of a session that is  *)
(* reviewed still, or that a save slipped under.                             *)
SettingInv ==
    \A c \in Caller :
        doing[c] = "setting" /\ args[c].team \in Team =>
            \A s \in args[c].on :
                <<s, args[c].team>> \in consented /\ (s \in vetted \/ s \in slipped)

(* A consent withdrawn and not given again is not there.                    *)
WithdrawnInv == \A x \in withdrawn : \A o \in optins : o.team # x[1]

(* What one request at a time adds: the consents are as they were when the  *)
(* request looked at them.                                                  *)
EnrolInv ==
    \A c \in Caller : doing[c] = "enrolling" => \A o \in optins : o.team = args[c].team

EraseInv ==
    \A c \in Caller :
        doing[c] = "erasing" /\ (\A o \in optins : o.team # args[c].team) =>
            \A s \in Session \ picked[c] :
                rows[s].vis = args[c].team /\ InScope(c, s) => rows[s].by \in Escaping

WorkspaceInv ==
    /\ WorkspaceTypeOK
    /\ StampInv /\ SettingInv /\ WithdrawnInv
    /\ WidenedWasReviewed /\ SharedByAMember
    /\ OneAtATime => EnrolInv /\ EraseInv /\ OneTeamOnly /\ OnlyTheOvertakenEscape
=============================================================================
