---------------------------- MODULE PostgresStore ----------------------------
(* server/src/store/postgres: what each method of ArchiveStore does to the     *)
(* tables in its transaction, and what it answers.  A session's content is its *)
(* `at`, a machine's sessions and a person's tenant have one number: person t  *)
(* is the person of tenant t and has the address t; team 0 is none, machine 0  *)
(* every machine.  Ids the stores draw are given them.                         *)
EXTENDS Rows

Tables == [sessions |-> {}, identities |-> {}, annotations |-> {}, collections |-> {},
           collected |-> {}, artifacts |-> {}, joins |-> {}, reviews |-> {}, grants |-> {},
           tokens |-> {}, transfers |-> {}, offers |-> {}, teams |-> {}, members |-> {},
           optins |-> {}, machines |-> {}, commands |-> {}, jobs |-> {}, documents |-> {},
           revisions |-> {}, settings |-> {}]

-----------------------------------------------------------------------------
(* Sessions. *)

SaveSession(db, row) == Says([db EXCEPT !.sessions = Upsert(@, row)], "done")

ResolveSessionIdentity(db, t, native, proposed) ==
    LET known == Found(db.identities, t, native)
    IN  IF known # {}
        THEN Says(db, (CHOOSE r \in known : TRUE).session)
        ELSE Says([db EXCEPT !.identities = @ \cup {[tenant |-> t, id |-> native, session |-> proposed]}],
                  proposed)

UpdateSessionVisibility(db, t, s, team) ==
    Says([db EXCEPT !.sessions =
              Edit(@, LAMBDA r : r \in Found(@, t, s), LAMBDA r : [r EXCEPT !.team = team])],
         YesNo(Found(db.sessions, t, s) # {}))

(* The rows before the cursor, of which one more than a page is fetched. *)
ListSessions(db, t, cursor, limit) ==
    LET all  == Of(db.sessions, t)
        rest == IF cursor = <<>> THEN all
                ELSE {r \in all : Before([at |-> cursor[1], id |-> cursor[2]], r)}
        rows == Newest(rest)
        more == Len(rows) > limit
        page == IF more THEN SubSeq(rows, 1, limit) ELSE rows
    IN  [items |-> page, total |-> Cardinality(all),
         next |-> IF more THEN <<Last(page).at, Last(page).id>> ELSE <<>>]

GetSession(db, t, s) == Found(db.sessions, t, s)

GetSessions(db, t, wanted) == SelectSeq(wanted, LAMBDA s : Found(db.sessions, t, s) # {})

CountSessionsByMachineSource(db, t) ==
    {<<m, Cardinality({r \in Of(db.sessions, t) : r.machine = m})>> :
        m \in {r.machine : r \in Of(db.sessions, t)}}

SessionExists(db, t, s) == Found(db.sessions, t, s) # {}

(* What ON DELETE CASCADE takes with a tenant's sessions `gone`. *)
Cascade(db, t, gone) ==
    LET Kept(table) == {r \in table : ~(r.tenant = t /\ r.session \in gone)}
    IN  [db EXCEPT !.sessions = {r \in @ : ~(r.tenant = t /\ r.id \in gone)},
                   !.annotations = Kept(@), !.collected = Kept(@), !.reviews = Kept(@),
                   !.grants = Kept(@), !.transfers = Kept(@)]

DeleteSession(db, t, s) == Says(Cascade(db, t, {s}), YesNo(SessionExists(db, t, s)))

-----------------------------------------------------------------------------
(* Annotations and collections. *)

ListAnnotations(db, t, s) == {r \in Of(db.annotations, t) : r.session = s}

CreateAnnotation(db, row) ==
    IF SessionExists(db, row.tenant, row.session)
    THEN Says([db EXCEPT !.annotations = @ \cup {row}], "done")
    ELSE Says(db, "session_not_found")

(* The rows of one producer give way to its new ones. *)
ReplaceAnnotations(db, t, s, origin, rows) ==
    Says([db EXCEPT !.annotations =
              {r \in @ : ~(r.tenant = t /\ r.session = s /\ r.origin = origin)} \cup rows], "done")

UpdateAnnotation(db, t, id, value) ==
    Says([db EXCEPT !.annotations =
              Edit(@, LAMBDA r : r \in Found(@, t, id), LAMBDA r : [r EXCEPT !.value = value])],
         YesNo(Found(db.annotations, t, id) # {}))

DeleteAnnotation(db, t, id) ==
    Says([db EXCEPT !.annotations = Without(@, t, id)], YesNo(Found(db.annotations, t, id) # {}))

ListCollections(db, t) ==
    {[tenant |-> c.tenant, id |-> c.id, team |-> c.team,
      sessions |-> {r.session : r \in Found(db.collected, t, c.id)}] : c \in Of(db.collections, t)}

SaveCollection(db, row) ==
    Says([db EXCEPT
              !.collections = Upsert(@, [tenant |-> row.tenant, id |-> row.id, team |-> row.team]),
              !.collected = Without(@, row.tenant, row.id)
                  \cup {[tenant |-> row.tenant, id |-> row.id, session |-> s] : s \in row.sessions}],
         "done")

-----------------------------------------------------------------------------
(* Raw artifacts, jobs and retention. *)

SaveRawArtifact(db, t, sha, source) ==
    IF Found(db.artifacts, t, sha) # {} THEN Says(db, "no")
    ELSE Says([db EXCEPT !.artifacts = @ \cup {[tenant |-> t, id |-> sha, source |-> source, verdict |-> 0]}],
              "yes")

UpdateRawArtifact(db, t, sha, verdict, made) ==
    Says([db EXCEPT
              !.artifacts = Edit(@, LAMBDA r : r \in Found(@, t, sha), LAMBDA r : [r EXCEPT !.verdict = verdict]),
              !.joins = Without(@, t, sha) \cup {[tenant |-> t, id |-> sha, session |-> s] : s \in made}],
         "done")

SessionIdsFor(db, t, sha) == {r.session : r \in Found(db.joins, t, sha)}

GetRawArtifact(db, t, sha) ==
    {[tenant |-> a.tenant, id |-> a.id, source |-> a.source, verdict |-> a.verdict,
      sessions |-> SessionIdsFor(db, t, sha)] : a \in Found(db.artifacts, t, sha)}

ListRawArtifacts(db, t) == UNION {GetRawArtifact(db, t, a.id) : a \in Of(db.artifacts, t)}

ListArtifactHashes(db, t, hashes) == hashes \cap {a.id : a \in Of(db.artifacts, t)}

(* Per source: how many artifacts nobody could read and the commonest reason, *)
(* the first by name of those tied. *)
CountUnparsedArtifactsBySource(db, t, Reasons) ==
    LET bad == {a \in Of(db.artifacts, t) : a.verdict \in Reasons}
        reasons == {[source |-> a.source, reason |-> a.verdict,
                     n |-> Cardinality({b \in bad : b.source = a.source /\ b.verdict = a.verdict})] : a \in bad}
    IN  {[source |-> src, artifacts |-> Cardinality({a \in bad : a.source = src}),
          reason |-> (CHOOSE x \in {r \in reasons : r.source = src} :
                         \A y \in {r \in reasons : r.source = src} :
                            x.n > y.n \/ (x.n = y.n /\ x.reason <= y.reason)).reason] :
            src \in {a.source : a \in bad}}

SaveJob(db, row) == Says([db EXCEPT !.jobs = Upsert(@, row)], "done")

GetJob(db, t, id) == Found(db.jobs, t, id)

(* Sessions older than the cutoff, and the artifacts that made no others. *)
ApplyRetention(db, t, cutoff, exempt) ==
    LET held  == IF exempt THEN {r.session : r \in Of(db.collected, t)} ELSE {}
        gone  == {r.id : r \in {x \in Of(db.sessions, t) : x.at < cutoff /\ x.id \notin held}}
        spent == {a.id : a \in {x \in Of(db.artifacts, t) :
                                   LET made == SessionIdsFor(db, t, x.id)
                                   IN  made # {} /\ made \subseteq gone}}
    IN  IF gone = {} THEN Says(db, <<0, 0>>)
        ELSE Says([Cascade(db, t, gone) EXCEPT
                      !.artifacts = {a \in @ : ~(a.tenant = t /\ a.id \in spent)},
                      !.joins = {r \in @ : ~(r.tenant = t /\ r.session \in gone)}],
                  <<Cardinality(gone), Cardinality(spent)>>)

-----------------------------------------------------------------------------
(* Machines and their commands. *)

ListMachines(db, t) ==
    {[tenant |-> m.tenant, id |-> m.id, name |-> m.name, installation |-> m.installation] :
        m \in {x \in Of(db.machines, t) : ~x.retired}}

GetMachine(db, t, id) == Found(ListMachines(db, t), t, id)

FindMachineByInstallation(db, t, i) == {m \in ListMachines(db, t) : m.installation = i}

RetireMachine(db, t, id) ==
    Says([db EXCEPT !.machines =
              Edit(@, LAMBDA r : r \in Found(@, t, id), LAMBDA r : [r EXCEPT !.retired = TRUE])],
         YesNo(GetMachine(db, t, id) # {}))

(* A record carries no retirement: what the row says of one stays. *)
SaveMachine(db, row) ==
    LET over == \E m \in Found(db.machines, row.tenant, row.id) : m.retired
    IN  Says([db EXCEPT !.machines =
                  Upsert(@, [tenant |-> row.tenant, id |-> row.id, name |-> row.name,
                             installation |-> row.installation, retired |-> over])], "done")

CreateMachineCommand(db, row) == Says([db EXCEPT !.commands = @ \cup {row}], "done")

ListUnackedMachineCommands(db, t, m) ==
    {c \in Of(db.commands, t) : c.machine = m /\ c.status \in {"pending", "delivered"}}

MarkMachineCommandsDelivered(db, t, ids) ==
    Says([db EXCEPT !.commands =
              Edit(@, LAMBDA c : c.tenant = t /\ c.id \in ids /\ c.status = "pending",
                      LAMBDA c : [c EXCEPT !.status = "delivered"])], "done")

AckMachineCommand(db, t, m, id, status) ==
    LET Named(c) == c.tenant = t /\ c.machine = m /\ c.id = id
    IN  Says([db EXCEPT !.commands = Edit(@, Named, LAMBDA c : [c EXCEPT !.status = status])],
             YesNo(\E c \in db.commands : Named(c)))

-----------------------------------------------------------------------------
(* Reviews, links and transfers. *)

SaveReview(db, row) == Says([db EXCEPT !.reviews = Upsert(@, row)], "done")

GetReview(db, t, id) == Found(db.reviews, t, id)

GetCurrentReview(db, t, s, digest) ==
    {r \in Of(db.reviews, t) : r.session = s /\ r.digest = digest}

(* Two writes: the grant in its tenant, then the token anybody may present. *)
SaveShareGrant(db, row) ==
    Says([db EXCEPT !.grants = Upsert(@, row), !.tokens = Upsert(@, row)], "done")

ListShareGrants(db, t) == Of(db.grants, t)

GetShareGrantByTokenHash(db, hash) == {r \in db.tokens : r.id = hash}

SaveTransfer(db, row) == Says([db EXCEPT !.transfers = Upsert(@, row)], "done")

CreateTransferOffer(db, row) == Says([db EXCEPT !.offers = Upsert(@, row)], "done")

(* What the account sent, and the offers of others with its address. *)
ListTransfers(db, t) == Of(db.transfers, t) \cup {o \in db.offers : o.to = t /\ o.tenant # t}

GetTransfer(db, t, id) == Found(db.transfers, t, id)

Pending(db, t, id) == {o \in db.offers : o.id = id /\ o.status = "pending" /\ o.to = t}

Answered(db, id, status) ==
    LET Answer(table) == Edit(table, LAMBDA r : r.id = id, LAMBDA r : [r EXCEPT !.status = status])
    IN  [db EXCEPT !.offers = Answer(@), !.transfers = Answer(@)]

DeclineTransferOffer(db, t, id) ==
    IF Pending(db, t, id) = {} THEN Says(db, "refused")
    ELSE Says(Answered(db, id, "declined"), "done")

(* The copy is a session of the recipient's own, with an id of its own. *)
AcceptTransferOffer(db, t, id, fresh) ==
    LET offers == Pending(db, t, id)
        offer  == CHOOSE o \in offers : TRUE
        source == Found(db.sessions, offer.tenant, offer.session)
    IN  IF offers = {} THEN Says(db, "refused")
        ELSE IF source = {} THEN Says(db, "transfer_session_missing")
        ELSE LET s == CHOOSE r \in source : TRUE
             IN  IF GetCurrentReview(db, offer.tenant, s.id, s.at) = {}
                 THEN Says(db, "transfer_review_stale")
                 ELSE Says(SaveSession(Answered(db, id, "accepted"),
                               [s EXCEPT !.tenant = t, !.id = fresh, !.team = 0]).db, "done")

-----------------------------------------------------------------------------
(* Teams: their tables are of no tenant.  A row's `id` is its team. *)

CreateTeam(db, team, user) ==
    Says([db EXCEPT !.teams = @ \cup {team},
                    !.members = @ \cup {[tenant |-> user, id |-> team, status |-> "active"]}], "done")

ActiveIn(db, team) == {m.tenant : m \in {x \in db.members : x.id = team /\ x.status = "active"}}

ListTeamsForUser(db, user) ==
    {<<m.id, Cardinality(ActiveIn(db, m.id))>> :
        m \in {x \in Of(db.members, user) : x.status = "active"}}

IsTeamMember(db, team, user) == user \in ActiveIn(db, team)

InviteTeamMember(db, team, user) ==
    IF team \notin db.teams THEN Says(db, "team_not_found")
    ELSE IF Found(db.members, user, team) # {} THEN Says(db, "done")
    ELSE Says([db EXCEPT !.members = @ \cup {[tenant |-> user, id |-> team, status |-> "invited"]}], "done")

ListTeamInvitations(db, user) == {m.id : m \in {x \in Of(db.members, user) : x.status = "invited"}}

ListTeamMembers(db, team) == {m \in db.members : m.id = team}

AcceptTeamInvitation(db, team, user) ==
    LET Invited(m) == m.tenant = user /\ m.id = team /\ m.status = "invited"
    IN  Says([db EXCEPT !.members = Edit(@, Invited, LAMBDA m : [m EXCEPT !.status = "active"])],
             YesNo(\E m \in db.members : Invited(m)))

RemoveTeamMember(db, team, user) ==
    Says([db EXCEPT !.members = Without(@, user, team)], YesNo(Found(db.members, user, team) # {}))

(* A loop over the accepted members' tenants. *)
ListTeamMemberTenants(db, team) == ActiveIn(db, team)

ListTeamSessions(db, team) ==
    UNION {{r \in Of(db.sessions, t) : r.team = team} : t \in ListTeamMemberTenants(db, team)}

GetTeamSession(db, team, s) == {r \in ListTeamSessions(db, team) : r.id = s}

ListTeamCollections(db, team) ==
    UNION {{c \in ListCollections(db, t) : c.team = team} : t \in ListTeamMemberTenants(db, team)}

ListTeamOptins(db, team, t) == Found(db.optins, t, team)

ListTenantOptins(db, t) == Of(db.optins, t)

CreateTeamOptin(db, row) ==
    IF \E o \in Found(db.optins, row.tenant, row.id) : o.machine = row.machine THEN Says(db, "no")
    ELSE Says([db EXCEPT !.optins = @ \cup {row}], "yes")

DeleteTeamOptin(db, team, t, machine) ==
    LET named == {o \in Found(db.optins, t, team) : o.machine = machine}
    IN  Says([db EXCEPT !.optins = @ \ named], YesNo(named # {}))

(* The first enrolment whose person is still in its team; 0 for none. *)
ResolveIngestTeam(db, t, machine) ==
    LET meant == {o \in Of(db.optins, t) : o.machine \in {0, machine} /\ IsTeamMember(db, o.id, t)}
    IN  IF meant = {} THEN 0
        ELSE (CHOOSE o \in meant : \A x \in meant : o.since <= x.since).id

RevokeTeamVisibility(db, t, team, machine) ==
    LET Shared(r) == r.tenant = t /\ r.team = team /\ machine \in {0, r.machine}
    IN  Says([db EXCEPT !.sessions = Edit(@, Shared, LAMBDA r : [r EXCEPT !.team = 0])],
             Cardinality({r \in db.sessions : Shared(r)}))

-----------------------------------------------------------------------------
(* Memory documents. *)

ListMemoryDocuments(db, t) == Of(db.documents, t)

GetMemoryDocument(db, t, id) == Found(db.documents, t, id)

ListMemoryRevisions(db, t, id) == Found(db.revisions, t, id)

(* A completed review survives a capture of the same text, and no other. *)
CaptureMemoryDocument(db, t, id, hash, scanned) ==
    LET same == {d \in Found(db.documents, t, id) : d.hash = hash}
        kept == \E d \in same : d.status = "reviewed"
        doc  == [tenant |-> t, id |-> id, hash |-> hash,
                 status |-> IF kept THEN "reviewed" ELSE scanned]
        next == [db EXCEPT !.documents = Upsert(@, doc)]
    IN  IF same # {} THEN Says(next, "unchanged")
        ELSE Says([next EXCEPT !.revisions = @ \cup {[tenant |-> t, id |-> id, hash |-> hash]}], "revision")

ReviewMemoryDocument(db, t, id, hash) ==
    LET Seen(d) == d.tenant = t /\ d.id = id /\ d.hash = hash
    IN  Says([db EXCEPT !.documents = Edit(@, Seen, LAMBDA d : [d EXCEPT !.status = "reviewed"])],
             YesNo(\E d \in db.documents : Seen(d)))

DeleteMemoryDocument(db, t, id) ==
    Says([db EXCEPT !.documents = Without(@, t, id), !.revisions = Without(@, t, id)],
         YesNo(Found(db.documents, t, id) # {}))

-----------------------------------------------------------------------------
(* Settings: one row of account_settings for both kinds. *)

Defaults(t) == [tenant |-> t, id |-> 1, tuned |-> 0, enabled |-> FALSE,
                budget |-> 0, spent |-> 0, window |-> "null"]

Row(db, t) == IF Of(db.settings, t) = {} THEN Defaults(t) ELSE CHOOSE r \in Of(db.settings, t) : TRUE

GetTenantSettings(db, t) == Row(db, t).tuned

SaveTenantSettings(db, t, tuned) ==
    Says([db EXCEPT !.settings = Upsert(@, [Row(db, t) EXCEPT !.tuned = tuned])], "done")

GetDistillationSettings(db, t) ==
    LET r == Row(db, t)
    IN  [enabled |-> r.enabled, budget |-> r.budget, spent |-> r.spent,
         window |-> IF r.window = "null" THEN "this month" ELSE r.window]

SaveDistillationSettings(db, t, s) ==
    Says([db EXCEPT !.settings =
              Upsert(@, [Row(db, t) EXCEPT !.enabled = s.enabled, !.budget = s.budget,
                                           !.spent = s.spent, !.window = s.window])], "done")

Left(s) == IF s.spent > s.budget THEN 0 ELSE s.budget - s.spent

(* Mutant: the window that is over is charged as it stands. *)
ReserveUnturned(db, t, cost) ==
    LET row    == Row(db, t)
        fits   == row.enabled /\ row.spent + cost <= row.budget
        result == IF fits THEN [row EXCEPT !.spent = @ + cost] ELSE row
    IN  IF Of(db.settings, t) = {} THEN Says(db, <<"no", 0>>)
        ELSE Says([db EXCEPT !.settings = Upsert(@, result)], <<YesNo(fits), Left(result)>>)

(* Two statements that reach no row an account has not got. *)
ReserveDistillationBudget(db, t, cost) ==
    LET Turned(r)  == IF r.window = "this month" THEN r
                      ELSE [r EXCEPT !.spent = 0, !.window = "this month"]
        row    == Turned(Row(db, t))
        fits   == row.enabled /\ row.spent + cost <= row.budget
        result == IF fits THEN [row EXCEPT !.spent = @ + cost] ELSE row
    IN  IF Of(db.settings, t) = {} THEN Says(db, <<"no", 0>>)
        ELSE Says([db EXCEPT !.settings = Upsert(@, result)], <<YesNo(fits), Left(result)>>)

SettleDistillationSpend(db, t, delta) ==
    Says([db EXCEPT !.settings =
              Edit(@, LAMBDA r : r.tenant = t,
                      LAMBDA r : [r EXCEPT !.spent = IF @ + delta < 0 THEN 0 ELSE @ + delta])], "done")

(* Thirty days go by. *)
MonthPasses(db, t) ==
    [db EXCEPT !.settings = Edit(@, LAMBDA r : r.tenant = t /\ r.window = "this month",
                                    LAMBDA r : [r EXCEPT !.window = "before"])]
=============================================================================
