----------------------------- MODULE MemoryStore -----------------------------
(* server/src/store/memory: the store development and most tests run on.  The  *)
(* same methods over maps of whole records: an artifact carries its sessions,  *)
(* a collection its members, the retired machines are a set apart, a link is   *)
(* one record, and nothing goes with a deleted session.                        *)
EXTENDS Rows

Tables == [sessions |-> {}, identities |-> {}, annotations |-> {}, collections |-> {},
           artifacts |-> {}, reviews |-> {}, grants |-> {}, transfers |-> {}, offers |-> {},
           teams |-> {}, members |-> {}, optins |-> {}, machines |-> {}, retired |-> {},
           commands |-> {}, jobs |-> {}, documents |-> {}, revisions |-> {},
           tuned |-> {}, distillation |-> {}]

SaveSession(db, row) == Says([db EXCEPT !.sessions = Upsert(@, row)], "done")

ResolveSessionIdentity(db, t, native, proposed) ==
    IF Found(db.identities, t, native) = {}
    THEN Says([db EXCEPT !.identities = @ \cup {[tenant |-> t, id |-> native, session |-> proposed]}], proposed)
    ELSE Says(db, (CHOOSE r \in Found(db.identities, t, native) : TRUE).session)

UpdateSessionVisibility(db, t, s, team) ==
    IF Found(db.sessions, t, s) = {} THEN Says(db, "no")
    ELSE Says([db EXCEPT !.sessions = Edit(@, LAMBDA r : r.tenant = t /\ r.id = s,
                                              LAMBDA r : [r EXCEPT !.team = team])], "yes")

(* Everything is sorted, then cut at the cursor, then at the page's end. *)
ListSessions(db, t, cursor, limit) ==
    LET items == Newest(Of(db.sessions, t))
        after == SelectSeq(items, LAMBDA r : cursor = <<>>
                                     \/ Before([at |-> cursor[1], id |-> cursor[2]], r))
        page  == SubSeq(after, 1, IF limit < Len(after) THEN limit ELSE Len(after))
    IN  [items |-> page, total |-> Len(items),
         next |-> IF Len(after) > Len(page) THEN <<Last(page).at, Last(page).id>> ELSE <<>>]

GetSession(db, t, s) == Found(db.sessions, t, s)

GetSessions(db, t, wanted) == SelectSeq(wanted, LAMBDA s : GetSession(db, t, s) # {})

CountSessionsByMachineSource(db, t) ==
    LET OnMachine(m) == {r \in Of(db.sessions, t) : r.machine = m}
    IN  {<<r.machine, Cardinality(OnMachine(r.machine))>> : r \in Of(db.sessions, t)}

SessionExists(db, t, s) == GetSession(db, t, s) # {}

DeleteSession(db, t, s) ==
    Says([db EXCEPT !.sessions = Without(@, t, s)], YesNo(SessionExists(db, t, s)))

-----------------------------------------------------------------------------
ListAnnotations(db, t, s) == {r \in Of(db.annotations, t) : r.session = s}

CreateAnnotation(db, row) ==
    IF GetSession(db, row.tenant, row.session) = {} THEN Says(db, "session_not_found")
    ELSE Says([db EXCEPT !.annotations = Upsert(@, row)], "done")

(* One at a time, each asking for its session. *)
ReplaceAnnotations(db, t, s, origin, rows) ==
    LET old == {r \in ListAnnotations(db, t, s) : r.origin = origin}
    IN  IF rows # {} /\ GetSession(db, t, s) = {} THEN Says(db, "session_not_found")
        ELSE Says([db EXCEPT !.annotations = (@ \ old) \cup rows], "done")

UpdateAnnotation(db, t, id, value) ==
    IF Found(db.annotations, t, id) = {} THEN Says(db, "no")
    ELSE Says([db EXCEPT !.annotations = Edit(@, LAMBDA r : r.tenant = t /\ r.id = id,
                                                 LAMBDA r : [r EXCEPT !.value = value])], "yes")

DeleteAnnotation(db, t, id) ==
    Says([db EXCEPT !.annotations = Without(@, t, id)], YesNo(Found(db.annotations, t, id) # {}))

ListCollections(db, t) == Of(db.collections, t)

SaveCollection(db, row) == Says([db EXCEPT !.collections = Upsert(@, row)], "done")

-----------------------------------------------------------------------------
SaveRawArtifact(db, t, sha, source) ==
    IF Found(db.artifacts, t, sha) # {} THEN Says(db, "no")
    ELSE Says([db EXCEPT !.artifacts = Upsert(@, [tenant |-> t, id |-> sha, source |-> source,
                                                  verdict |-> 0, sessions |-> {}])], "yes")

(* The record the caller read, with what it changes: written whether or not it *)
(* is still there. *)
UpdateRawArtifact(db, t, sha, verdict, made) ==
    LET read == CHOOSE a \in Found(db.artifacts, t, sha) : TRUE
    IN  Says([db EXCEPT !.artifacts = Upsert(@, [read EXCEPT !.verdict = verdict, !.sessions = made])], "done")

GetRawArtifact(db, t, sha) == Found(db.artifacts, t, sha)

ListRawArtifacts(db, t) == Of(db.artifacts, t)

ListArtifactHashes(db, t, hashes) == {h \in hashes : Found(db.artifacts, t, h) # {}}

CountUnparsedArtifactsBySource(db, t, Reasons) ==
    LET Failed(src, why) == {a \in Of(db.artifacts, t) : a.source = src /\ a.verdict = why}
        Unread(src) == UNION {Failed(src, why) : why \in Reasons}
        Commonest(src, why) == \A other \in Reasons :
            \/ Cardinality(Failed(src, why)) > Cardinality(Failed(src, other))
            \/ Cardinality(Failed(src, why)) = Cardinality(Failed(src, other)) /\ why <= other
    IN  {[source |-> src, artifacts |-> Cardinality(Unread(src)),
          reason |-> CHOOSE why \in Reasons : Commonest(src, why)] :
            src \in {a.source : a \in {x \in Of(db.artifacts, t) : x.verdict \in Reasons}}}

SaveJob(db, row) == Says([db EXCEPT !.jobs = Upsert(@, row)], "done")

GetJob(db, t, id) == Found(db.jobs, t, id)

(* Sessions first; then an artifact goes when none of its sessions is left, and *)
(* forgets the ones that went. *)
ApplyRetention(db, t, cutoff, exempt) ==
    LET collected == IF exempt THEN UNION {c.sessions : c \in Of(db.collections, t)} ELSE {}
        deleted   == {r \in Of(db.sessions, t) : ~(r.at >= cutoff \/ r.id \in collected)}
        names     == {r.id : r \in deleted}
        made      == {a \in Of(db.artifacts, t) : a.sessions # {}}
        emptied   == {a \in made : a.sessions \ names = {}}
    IN  Says([db EXCEPT
                  !.sessions = @ \ deleted,
                  !.artifacts = (@ \ made) \cup {[a EXCEPT !.sessions = @ \ names] : a \in made \ emptied}],
             <<Cardinality(deleted), Cardinality(emptied)>>)

-----------------------------------------------------------------------------
Live(db, m) == <<m.tenant, m.id>> \notin db.retired

ListMachines(db, t) == {m \in Of(db.machines, t) : Live(db, m)}

GetMachine(db, t, id) == {m \in Found(db.machines, t, id) : Live(db, m)}

FindMachineByInstallation(db, t, i) ==
    {m \in Of(db.machines, t) : m.installation = i /\ Live(db, m)}

RetireMachine(db, t, id) ==
    IF GetMachine(db, t, id) = {} THEN Says(db, "no")
    ELSE Says([db EXCEPT !.retired = @ \cup {<<t, id>>}], "yes")

SaveMachine(db, row) == Says([db EXCEPT !.machines = Upsert(@, row)], "done")

CreateMachineCommand(db, row) == Says([db EXCEPT !.commands = Upsert(@, row)], "done")

ListUnackedMachineCommands(db, t, m) ==
    {c \in Of(db.commands, t) : c.machine = m /\ c.status \in {"pending", "delivered"}}

MarkMachineCommandsDelivered(db, t, ids) ==
    Says([db EXCEPT !.commands =
              {IF c.tenant = t /\ c.id \in ids /\ c.status = "pending"
               THEN [c EXCEPT !.status = "delivered"] ELSE c : c \in @}], "done")

AckMachineCommand(db, t, m, id, status) ==
    LET command == {c \in Found(db.commands, t, id) : c.machine = m}
    IN  IF command = {} THEN Says(db, "no")
        ELSE Says([db EXCEPT !.commands = (@ \ command) \cup {[c EXCEPT !.status = status] : c \in command}], "yes")

-----------------------------------------------------------------------------
SaveReview(db, row) == Says([db EXCEPT !.reviews = Upsert(@, row)], "done")

GetReview(db, t, id) == Found(db.reviews, t, id)

GetCurrentReview(db, t, s, digest) == {r \in Of(db.reviews, t) : r.session = s /\ r.digest = digest}

SaveShareGrant(db, row) == Says([db EXCEPT !.grants = Upsert(@, row)], "done")

ListShareGrants(db, t) == Of(db.grants, t)

GetShareGrantByTokenHash(db, hash) == {g \in db.grants : g.id = hash}

SaveTransfer(db, row) == Says([db EXCEPT !.transfers = Upsert(@, row)], "done")

CreateTransferOffer(db, row) == Says([db EXCEPT !.offers = Upsert(@, row)], "done")

(* One table answers for both sides. *)
ListTransfers(db, t) == {r \in db.transfers : r.tenant = t \/ r.to = t}

GetTransfer(db, t, id) == Found(db.transfers, t, id)

AddressedTo(db, t, id) == {o \in db.offers : o.id = id /\ o.status = "pending" /\ o.to = t}

Settled(db, id, status) ==
    [db EXCEPT !.offers = Edit(@, LAMBDA o : o.id = id, LAMBDA o : [o EXCEPT !.status = status]),
               !.transfers = Edit(@, LAMBDA r : r.id = id, LAMBDA r : [r EXCEPT !.status = status])]

DeclineTransferOffer(db, t, id) ==
    IF AddressedTo(db, t, id) = {} THEN Says(db, "refused") ELSE Says(Settled(db, id, "declined"), "done")

(* What an accept may copy, or why it may not: the offer is claimed before and *)
(* handed back when nothing is copied. *)
CopyOffered(db, offer) ==
    LET source == Found(db.sessions, offer.tenant, offer.session)
        s      == CHOOSE r \in source : TRUE
    IN  IF source = {} THEN "transfer_session_missing"
        ELSE IF GetCurrentReview(db, offer.tenant, s.id, s.at) = {} THEN "transfer_review_stale"
        ELSE "done"

AcceptTransferOffer(db, t, id, fresh) ==
    LET offer == CHOOSE o \in AddressedTo(db, t, id) : TRUE
        s     == CHOOSE r \in Found(db.sessions, offer.tenant, offer.session) : TRUE
    IN  IF AddressedTo(db, t, id) = {} THEN Says(db, "refused")
        ELSE IF CopyOffered(db, offer) # "done" THEN Says(db, CopyOffered(db, offer))
        ELSE Says([Settled(db, id, "accepted") EXCEPT
                      !.sessions = Upsert(@, [s EXCEPT !.tenant = t, !.id = fresh, !.team = 0])], "done")

-----------------------------------------------------------------------------
CreateTeam(db, team, user) ==
    Says([db EXCEPT !.teams = @ \cup {team},
                    !.members = @ \cup {[tenant |-> user, id |-> team, status |-> "active"]}], "done")

Members(db, team) == {m \in db.members : m.id = team}

IsTeamMember(db, team, user) == \E m \in Members(db, team) : m.tenant = user /\ m.status = "active"

ListTeamsForUser(db, user) ==
    {<<team, Cardinality({m \in Members(db, team) : m.status = "active"})>> :
        team \in {x \in db.teams : IsTeamMember(db, x, user)}}

InviteTeamMember(db, team, user) ==
    IF team \notin db.teams THEN Says(db, "team_not_found")
    ELSE Says([db EXCEPT !.members =
                   IF \E m \in Members(db, team) : m.tenant = user THEN @
                   ELSE @ \cup {[tenant |-> user, id |-> team, status |-> "invited"]}], "done")

ListTeamInvitations(db, user) ==
    {team \in db.teams : \E m \in Members(db, team) : m.tenant = user /\ m.status = "invited"}

ListTeamMembers(db, team) == Members(db, team)

AcceptTeamInvitation(db, team, user) ==
    LET pending == {m \in Members(db, team) : m.tenant = user /\ m.status = "invited"}
    IN  IF pending = {} THEN Says(db, "no")
        ELSE Says([db EXCEPT !.members = (@ \ pending) \cup {[m EXCEPT !.status = "active"] : m \in pending}], "yes")

RemoveTeamMember(db, team, user) ==
    LET remaining == {m \in Members(db, team) : m.tenant # user}
    IN  Says([db EXCEPT !.members = (@ \ Members(db, team)) \cup remaining],
             YesNo(remaining # Members(db, team)))

ListTeamMemberTenants(db, team) == {m.tenant : m \in {x \in Members(db, team) : x.status = "active"}}

ListTeamSessions(db, team) ==
    {r \in db.sessions : r.tenant \in ListTeamMemberTenants(db, team) /\ r.team = team}

GetTeamSession(db, team, s) ==
    {r \in db.sessions : r.tenant \in ListTeamMemberTenants(db, team) /\ r.id = s /\ r.team = team}

(* Anybody's: the members' tenants are not asked for. *)
ListTeamCollections(db, team) == {c \in db.collections : c.team = team}

ListTeamOptins(db, team, t) == Found(db.optins, t, team)

ListTenantOptins(db, t) == Of(db.optins, t)

CreateTeamOptin(db, row) ==
    LET known == {o \in db.optins : o.id = row.id /\ o.tenant = row.tenant /\ o.machine = row.machine}
    IN  IF known # {} THEN Says(db, "no") ELSE Says([db EXCEPT !.optins = @ \cup {row}], "yes")

DeleteTeamOptin(db, team, t, machine) ==
    LET named == {o \in db.optins : o.id = team /\ o.tenant = t /\ o.machine = machine}
    IN  Says([db EXCEPT !.optins = @ \ named], YesNo(named # {}))

StillAMember(db, o) == IsTeamMember(db, o.id, o.tenant)

ResolveIngestTeam(db, t, machine) ==
    LET matches == {o \in Of(db.optins, t) : (o.machine = 0 \/ o.machine = machine) /\ StillAMember(db, o)}
    IN  IF matches = {} THEN 0 ELSE (CHOOSE o \in matches : \A x \in matches : o.since <= x.since).id

RevokeTeamVisibility(db, t, team, machine) ==
    LET reset == {r \in Of(db.sessions, t) : r.team = team /\ (machine = 0 \/ r.machine = machine)}
    IN  Says([db EXCEPT !.sessions = (@ \ reset) \cup {[r EXCEPT !.team = 0] : r \in reset}], Cardinality(reset))

-----------------------------------------------------------------------------
ListMemoryDocuments(db, t) == Of(db.documents, t)

GetMemoryDocument(db, t, id) == Found(db.documents, t, id)

ListMemoryRevisions(db, t, id) == Found(db.revisions, t, id)

CaptureMemoryDocument(db, t, id, hash, scanned) ==
    LET existing == Found(db.documents, t, id)
        same     == \E d \in existing : d.hash = hash
        status   == IF same /\ \E d \in existing : d.status = "reviewed" THEN "reviewed" ELSE scanned
        next     == [db EXCEPT !.documents =
                        Upsert(@, [tenant |-> t, id |-> id, hash |-> hash, status |-> status])]
    IN  IF same THEN Says(next, "unchanged")
        ELSE IF \E r \in Found(db.revisions, t, id) : r.hash = hash THEN Says(next, "revision")
        ELSE Says([next EXCEPT !.revisions = @ \cup {[tenant |-> t, id |-> id, hash |-> hash]}], "revision")

ReviewMemoryDocument(db, t, id, hash) ==
    LET seen == {d \in Found(db.documents, t, id) : d.hash = hash}
    IN  IF seen = {} THEN Says(db, "no")
        ELSE Says([db EXCEPT !.documents = (@ \ seen) \cup {[d EXCEPT !.status = "reviewed"] : d \in seen}], "yes")

DeleteMemoryDocument(db, t, id) ==
    Says([db EXCEPT !.documents = Without(@, t, id), !.revisions = Without(@, t, id)],
         YesNo(Found(db.documents, t, id) # {}))

-----------------------------------------------------------------------------
GetTenantSettings(db, t) ==
    IF Of(db.tuned, t) = {} THEN 0 ELSE (CHOOSE r \in Of(db.tuned, t) : TRUE).tuned

SaveTenantSettings(db, t, tuned) ==
    Says([db EXCEPT !.tuned = Upsert(@, [tenant |-> t, id |-> 1, tuned |-> tuned])], "done")

GetDistillationSettings(db, t) ==
    IF Of(db.distillation, t) = {}
    THEN [enabled |-> FALSE, budget |-> 0, spent |-> 0, window |-> "this month"]
    ELSE (CHOOSE r \in Of(db.distillation, t) : TRUE).settings

SaveDistillationSettings(db, t, s) ==
    Says([db EXCEPT !.distillation = Upsert(@, [tenant |-> t, id |-> 1, settings |-> s])], "done")

ReserveDistillationBudget(db, t, cost) ==
    LET kept == GetDistillationSettings(db, t)
        now  == IF kept.window = "before" THEN [kept EXCEPT !.spent = 0, !.window = "this month"] ELSE kept
        fits == now.enabled /\ ~(now.spent + cost > now.budget)
        next == IF fits THEN [now EXCEPT !.spent = @ + cost] ELSE now
    IN  Says(SaveDistillationSettings(db, t, next).db,
             <<YesNo(fits), IF next.budget > next.spent THEN next.budget - next.spent ELSE 0>>)

SettleDistillationSpend(db, t, delta) ==
    LET kept == GetDistillationSettings(db, t)
        left == kept.spent + delta
    IN  SaveDistillationSettings(db, t, [kept EXCEPT !.spent = IF left < 0 THEN 0 ELSE left])

MonthPasses(db, t) ==
    [db EXCEPT !.distillation =
        {IF r.tenant = t THEN [r EXCEPT !.settings.window = "before"] ELSE r : r \in @}]
=============================================================================
