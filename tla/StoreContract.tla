---------------------------- MODULE StoreContract ----------------------------
(* Both implementations of ArchiveStore (server/src/store/interfaces.ts) take  *)
(* the calls the services make, one after the other, each call with the same   *)
(* arguments.  A behaviour is of one `group` of calls, those that share rows.  *)
(* A session that is gone does not come back: the in-memory store kept its     *)
(* annotations, and the two part ways.                                         *)
EXTENDS Integers, Sequences

CONSTANTS Groups,    \* which groups are explored
          MaxCalls   \* group -> the calls in a behaviour of it

Pg  == INSTANCE PostgresStore
Dev == INSTANCE MemoryStore

Tenant  == 1..2
Teams   == 1..2
SessionId == 1..4
Text    == 1..2
Verdict == 1..2

OwnerOf(s) == (s + 1) \div 2
Machine(s) == IF s % 2 = 0 THEN 2 ELSE 1

VARIABLES group, pg, dev, agreed, calls, gone

contractVars == <<group, pg, dev, agreed, calls, gone>>

ContractInit ==
    /\ group \in Groups
    /\ pg = Pg!Tables /\ dev = Dev!Tables
    /\ agreed = TRUE /\ calls = 0 /\ gone = {}

Here(s) == Pg!SessionExists(pg, OwnerOf(s), s)

Lost(before, after) == {r.id : r \in before.sessions} \ {r.id : r \in after.sessions}

Call(kind, p, d) ==
    /\ calls < MaxCalls[group]
    /\ kind = group
    /\ pg' = p.db /\ dev' = d.db
    /\ agreed' = (p.says = d.says)
    /\ calls' = calls + 1
    /\ gone' = gone \cup Lost(pg, p.db)
    /\ UNCHANGED group

-----------------------------------------------------------------------------
(* Sessions and what is kept about them. *)

SessionRow(s, at, team) ==
    [tenant |-> OwnerOf(s), id |-> s, at |-> at, team |-> team, machine |-> Machine(s)]

SaveSession == \E s \in SessionId \ gone, at \in Text : LET row == SessionRow(s, at, 0) IN
    \E kind \in {"archive", "sharing"} : Call(kind, Pg!SaveSession(pg, row), Dev!SaveSession(dev, row))

DeleteSession == \E s \in SessionId, kind \in {"archive", "curation", "sharing"} :
    Call(kind, Pg!DeleteSession(pg, OwnerOf(s), s), Dev!DeleteSession(dev, OwnerOf(s), s))

ResolveSessionIdentity == \E t \in Tenant, native \in 1..2, s \in {1, 3} :
    Call("curation", Pg!ResolveSessionIdentity(pg, t, native, s), Dev!ResolveSessionIdentity(dev, t, native, s))

SaveCurated == \E s \in SessionId \ gone : LET row == SessionRow(s, 1, 0) IN
    Call("curation", Pg!SaveSession(pg, row), Dev!SaveSession(dev, row))

CreateAnnotation == \E s \in {1, 3}, id \in 1..2, origin \in {"person", "scanner"} :
    LET row == [tenant |-> OwnerOf(s), id |-> id, session |-> s, origin |-> origin, value |-> 0]
    IN  /\ Pg!Found(pg.annotations, row.tenant, id) = {}
        /\ Call("curation", Pg!CreateAnnotation(pg, row), Dev!CreateAnnotation(dev, row))

(* The scanner's findings, of a session that was just saved. *)
ReplaceAnnotations == \E s \in {1, 3}, ids \in SUBSET {3, 4} :
    LET rows == {[tenant |-> OwnerOf(s), id |-> id, session |-> s, origin |-> "scanner", value |-> 0] : id \in ids}
    IN  /\ Here(s)
        /\ Call("curation", Pg!ReplaceAnnotations(pg, OwnerOf(s), s, "scanner", rows),
                            Dev!ReplaceAnnotations(dev, OwnerOf(s), s, "scanner", rows))

(* Of an annotation whose session is there: the in-memory store keeps the others. *)
UpdateAnnotation == \E r \in pg.annotations :
    Call("curation", Pg!UpdateAnnotation(pg, r.tenant, r.id, 1), Dev!UpdateAnnotation(dev, r.tenant, r.id, 1))

DeleteAnnotation == \E r \in pg.annotations, t \in Tenant :
    /\ t = r.tenant \/ Pg!Found(pg.annotations, t, r.id) = {}
    /\ t = r.tenant \/ Dev!Found(dev.annotations, t, r.id) = {}
    /\ Call("curation", Pg!DeleteAnnotation(pg, t, r.id), Dev!DeleteAnnotation(dev, t, r.id))

(* setMembership saves the collection it read, of sessions that are there. *)
SaveCollection == \E t \in Tenant, team \in {0, 1}, in \in SUBSET SessionId :
    LET row == [tenant |-> t, id |-> 1, team |-> team, sessions |-> in]
    IN  /\ \A s \in in : OwnerOf(s) = t /\ Here(s)
        /\ team = 1 => group = "teams"
        /\ \E kind \in {"archive", "teams"} :
              Call(kind, Pg!SaveCollection(pg, row), Dev!SaveCollection(dev, row))

SaveRawArtifact == \E t \in Tenant, a \in 1..3, source \in 1..2 :
    /\ IF group = "unread" THEN t = 1 ELSE a < 3 /\ source = 1
    /\ \E kind \in {"archive", "unread"} :
        Call(kind, Pg!SaveRawArtifact(pg, t, a, source), Dev!SaveRawArtifact(dev, t, a, source))

(* A parse writes back the artifact it read, with what it made of it. *)
UpdateRawArtifact == \E t \in Tenant, a \in 1..3, v \in Verdict, made \in SUBSET SessionId :
    /\ Pg!GetRawArtifact(pg, t, a) # {}
    /\ \A s \in made : OwnerOf(s) = t /\ Here(s)
    /\ \E kind \in {"archive", "unread"} :
        Call(kind, Pg!UpdateRawArtifact(pg, t, a, v, made), Dev!UpdateRawArtifact(dev, t, a, v, made))

ApplyRetention == \E t \in Tenant, cutoff \in Text, exempt \in BOOLEAN :
    Call("archive", Pg!ApplyRetention(pg, t, cutoff, exempt), Dev!ApplyRetention(dev, t, cutoff, exempt))

SaveJob == \E t \in Tenant, id \in 1..2, status \in {"queued", "ready"} :
    LET row == [tenant |-> t, id |-> id, status |-> status]
    IN  Call("devices", Pg!SaveJob(pg, row), Dev!SaveJob(dev, row))

-----------------------------------------------------------------------------
(* Machines. *)

(* register and update: an installation is one live machine's. *)
SaveMachine == \E t \in Tenant, id \in 1..2, name \in 1..2 :
    LET row == [tenant |-> t, id |-> id, name |-> name, installation |-> id]
    IN  Call("devices", Pg!SaveMachine(pg, row), Dev!SaveMachine(dev, row))

RetireMachine == \E t \in Tenant, id \in 1..2 :
    Call("devices", Pg!RetireMachine(pg, t, id), Dev!RetireMachine(dev, t, id))

CreateMachineCommand == \E t \in Tenant, m \in 1..2 :
    LET id  == calls
        row == [tenant |-> t, id |-> id, machine |-> m, status |-> "pending"]
    IN  Call("devices", Pg!CreateMachineCommand(pg, row), Dev!CreateMachineCommand(dev, row))

MarkMachineCommandsDelivered == \E t \in Tenant, c \in pg.commands :
    Call("devices", Pg!MarkMachineCommandsDelivered(pg, t, {c.id}),
                    Dev!MarkMachineCommandsDelivered(dev, t, {c.id}))

AckMachineCommand == \E t \in Tenant, c \in pg.commands, m \in 1..2, status \in {"completed", "failed"} :
    Call("devices", Pg!AckMachineCommand(pg, t, m, c.id, status), Dev!AckMachineCommand(dev, t, m, c.id, status))

-----------------------------------------------------------------------------
(* Reviews, links and transfers. *)

SaveReview == \E s \in {1, 3}, at \in Text :
    LET row == [tenant |-> OwnerOf(s), id |-> at, session |-> s, digest |-> at]
    IN  /\ Here(s)
        /\ Call("sharing", Pg!SaveReview(pg, row), Dev!SaveReview(dev, row))

SaveShareGrant == \E s \in {1, 3}, status \in {"active", "revoked"} :
    LET row == [tenant |-> OwnerOf(s), id |-> s, session |-> s, status |-> status]
    IN  /\ Here(s)
        /\ Call("sharing", Pg!SaveShareGrant(pg, row), Dev!SaveShareGrant(dev, row))

(* requestTransfer: the sender's row, then the offer. *)
RequestTransfer == \E s \in {1, 3}, to \in Tenant :
    LET row == [tenant |-> OwnerOf(s), id |-> s, session |-> s, to |-> to, status |-> "pending"]
        p   == Pg!SaveTransfer(pg, row).db
        d   == Dev!SaveTransfer(dev, row).db
    IN  /\ Here(s)
        /\ {o \in pg.offers : o.id = s} = {}
        /\ Call("sharing", Pg!CreateTransferOffer(p, row), Dev!CreateTransferOffer(d, row))

DeclineTransferOffer == \E t \in Tenant, id \in {1, 3} :
    Call("sharing", Pg!DeclineTransferOffer(pg, t, id), Dev!DeclineTransferOffer(dev, t, id))

AcceptTransferOffer == \E t \in Tenant, id \in {1, 3} :
    Call("sharing", Pg!AcceptTransferOffer(pg, t, id, id + 10), Dev!AcceptTransferOffer(dev, t, id, id + 10))

-----------------------------------------------------------------------------
(* Teams. *)

SaveVisible == \E s \in {1, 3, 4}, team \in {0, 1} : LET row == SessionRow(s, 1, team) IN
    Call("teams", Pg!SaveSession(pg, row), Dev!SaveSession(dev, row))

UpdateSessionVisibility == \E s \in {1, 3}, team \in {0, 1} :
    Call("teams", Pg!UpdateSessionVisibility(pg, OwnerOf(s), s, team),
                  Dev!UpdateSessionVisibility(dev, OwnerOf(s), s, team))

CreateTeam == \E t \in Tenant, team \in Teams :
    /\ team \notin pg.teams
    /\ Call("teams", Pg!CreateTeam(pg, team, t), Dev!CreateTeam(dev, team, t))

InviteTeamMember == \E t \in Tenant, team \in Teams :
    Call("teams", Pg!InviteTeamMember(pg, team, t), Dev!InviteTeamMember(dev, team, t))

AcceptTeamInvitation == \E t \in Tenant, team \in Teams :
    Call("teams", Pg!AcceptTeamInvitation(pg, team, t), Dev!AcceptTeamInvitation(dev, team, t))

RemoveTeamMember == \E t \in Tenant, team \in Teams :
    Call("teams", Pg!RemoveTeamMember(pg, team, t), Dev!RemoveTeamMember(dev, team, t))

CreateTeamOptin == \E t \in Tenant, team \in Teams, m \in 0..1 :
    LET row == [tenant |-> t, id |-> team, machine |-> m, since |-> calls]
    IN  /\ team \in pg.teams
        /\ Call("teams", Pg!CreateTeamOptin(pg, row), Dev!CreateTeamOptin(dev, row))

DeleteTeamOptin == \E t \in Tenant, team \in Teams, m \in 0..1 :
    Call("teams", Pg!DeleteTeamOptin(pg, team, t, m), Dev!DeleteTeamOptin(dev, team, t, m))

RevokeTeamVisibility == \E t \in Tenant, m \in 0..2 :
    Call("teams", Pg!RevokeTeamVisibility(pg, t, 1, m), Dev!RevokeTeamVisibility(dev, t, 1, m))

-----------------------------------------------------------------------------
(* Memory documents and settings. *)

CaptureMemoryDocument == \E t \in Tenant, id \in 1..2, hash \in Text, scanned \in {"clear", "findings"} :
    Call("memory", Pg!CaptureMemoryDocument(pg, t, id, hash, scanned),
                   Dev!CaptureMemoryDocument(dev, t, id, hash, scanned))

ReviewMemoryDocument == \E t \in Tenant, id \in 1..2, hash \in Text :
    Call("memory", Pg!ReviewMemoryDocument(pg, t, id, hash), Dev!ReviewMemoryDocument(dev, t, id, hash))

DeleteMemoryDocument == \E t \in Tenant, id \in 1..2 :
    Call("memory", Pg!DeleteMemoryDocument(pg, t, id), Dev!DeleteMemoryDocument(dev, t, id))

SaveTenantSettings == \E t \in Tenant, v \in 1..2 :
    Call("settings", Pg!SaveTenantSettings(pg, t, v), Dev!SaveTenantSettings(dev, t, v))

(* updateSettings saves what it read, with what it was asked to change. *)
SaveDistillationSettings == \E t \in Tenant, enabled \in BOOLEAN, budget \in 0..2 :
    LET Asked(s) == [s EXCEPT !.enabled = enabled, !.budget = budget]
    IN  Call("settings", Pg!SaveDistillationSettings(pg, t, Asked(Pg!GetDistillationSettings(pg, t))),
                         Dev!SaveDistillationSettings(dev, t, Asked(Dev!GetDistillationSettings(dev, t))))

(* run asks for a reservation where distillation is enabled. *)
ReserveDistillationBudget == \E t \in Tenant, cost \in 1..2 :
    /\ Pg!GetDistillationSettings(pg, t).enabled
    /\ Call("settings", Pg!ReserveDistillationBudget(pg, t, cost), Dev!ReserveDistillationBudget(dev, t, cost))

SettleDistillationSpend == \E t \in Tenant, delta \in {-2, -1, 1} :
    /\ Pg!Of(pg.settings, t) # {} /\ Dev!Of(dev.distillation, t) # {}
    /\ Call("settings", Pg!SettleDistillationSpend(pg, t, delta), Dev!SettleDistillationSpend(dev, t, delta))

MonthPasses == \E t \in Tenant :
    Call("settings", [db |-> Pg!MonthPasses(pg, t), says |-> 0], [db |-> Dev!MonthPasses(dev, t), says |-> 0])

ContractNext ==
    \/ SaveSession \/ DeleteSession \/ ResolveSessionIdentity \/ SaveCurated
    \/ CreateAnnotation \/ ReplaceAnnotations \/ UpdateAnnotation \/ DeleteAnnotation
    \/ SaveCollection \/ SaveRawArtifact \/ UpdateRawArtifact \/ ApplyRetention \/ SaveJob
    \/ SaveMachine \/ RetireMachine \/ CreateMachineCommand \/ MarkMachineCommandsDelivered
    \/ AckMachineCommand \/ SaveReview \/ SaveShareGrant \/ RequestTransfer
    \/ DeclineTransferOffer \/ AcceptTransferOffer \/ SaveVisible \/ UpdateSessionVisibility
    \/ CreateTeam \/ InviteTeamMember \/ AcceptTeamInvitation \/ RemoveTeamMember
    \/ CreateTeamOptin \/ DeleteTeamOptin \/ RevokeTeamVisibility
    \/ CaptureMemoryDocument \/ ReviewMemoryDocument \/ DeleteMemoryDocument
    \/ SaveTenantSettings \/ SaveDistillationSettings \/ ReserveDistillationBudget
    \/ SettleDistillationSpend \/ MonthPasses

-----------------------------------------------------------------------------
Kept(rows) == {r \in rows : r.session \notin gone}

Cursors == {<<>>} \cup {<<at, s>> : at \in Text, s \in SessionId}

SessionsAgree == \A t \in Tenant :
    /\ \A cursor \in Cursors, limit \in 1..2 :
          Pg!ListSessions(pg, t, cursor, limit) = Dev!ListSessions(dev, t, cursor, limit)
    /\ \A s \in SessionId :
          /\ Pg!GetSession(pg, t, s) = Dev!GetSession(dev, t, s)
          /\ Pg!SessionExists(pg, t, s) = Dev!SessionExists(dev, t, s)
    /\ Pg!GetSessions(pg, t, <<4, 1, 2, 3, 1>>) = Dev!GetSessions(dev, t, <<4, 1, 2, 3, 1>>)
    /\ Pg!CountSessionsByMachineSource(pg, t) = Dev!CountSessionsByMachineSource(dev, t)

CurationAgrees == \A t \in Tenant :
    /\ \A s \in SessionId \ gone : Pg!ListAnnotations(pg, t, s) = Dev!ListAnnotations(dev, t, s)
    /\ Pg!ListCollections(pg, t) =
          {[c EXCEPT !.sessions = @ \ gone] : c \in Dev!ListCollections(dev, t)}

ArtifactsAgree == \A t \in Tenant :
    /\ Pg!ListRawArtifacts(pg, t) = Dev!ListRawArtifacts(dev, t)
    /\ \A a \in 1..3 : Pg!GetRawArtifact(pg, t, a) = Dev!GetRawArtifact(dev, t, a)
    /\ Pg!ListArtifactHashes(pg, t, {1, 3}) = Dev!ListArtifactHashes(dev, t, {1, 3})
    /\ Pg!CountUnparsedArtifactsBySource(pg, t, Verdict) = Dev!CountUnparsedArtifactsBySource(dev, t, Verdict)

DevicesAgree == \A t \in Tenant :
    /\ Pg!ListMachines(pg, t) = Dev!ListMachines(dev, t)
    /\ \A m \in 1..2 :
          /\ Pg!GetMachine(pg, t, m) = Dev!GetMachine(dev, t, m)
          /\ Pg!FindMachineByInstallation(pg, t, m) = Dev!FindMachineByInstallation(dev, t, m)
          /\ Pg!ListUnackedMachineCommands(pg, t, m) = Dev!ListUnackedMachineCommands(dev, t, m)
          /\ Pg!GetJob(pg, t, m) = Dev!GetJob(dev, t, m)

SharingAgrees == \A t \in Tenant :
    /\ \A id \in 1..2 : Pg!GetReview(pg, t, id) = Kept(Dev!GetReview(dev, t, id))
    /\ \A s \in SessionId \ gone, at \in Text :
          Pg!GetCurrentReview(pg, t, s, at) = Dev!GetCurrentReview(dev, t, s, at)
    /\ Pg!ListShareGrants(pg, t) = Kept(Dev!ListShareGrants(dev, t))
    /\ Kept(Pg!ListTransfers(pg, t)) = Kept(Dev!ListTransfers(dev, t))
    /\ \A id \in {1, 3} :
          /\ Pg!GetTransfer(pg, t, id) = Kept(Dev!GetTransfer(dev, t, id))
          /\ Pg!GetShareGrantByTokenHash(pg, id) = Dev!GetShareGrantByTokenHash(dev, id)

TeamsAgree == \A team \in Teams :
    LET inside == Pg!ListTeamMemberTenants(pg, team)
    IN  /\ inside = Dev!ListTeamMemberTenants(dev, team)
        /\ Pg!ListTeamMembers(pg, team) = Dev!ListTeamMembers(dev, team)
        /\ Pg!ListTeamSessions(pg, team) = Dev!ListTeamSessions(dev, team)
        /\ \A s \in SessionId : Pg!GetTeamSession(pg, team, s) = Dev!GetTeamSession(dev, team, s)
        /\ Pg!ListTeamCollections(pg, team) =
              {c \in Dev!ListTeamCollections(dev, team) : c.tenant \in inside}
        /\ \A t \in Tenant :
              /\ Pg!IsTeamMember(pg, team, t) = Dev!IsTeamMember(dev, team, t)
              /\ Pg!ListTeamsForUser(pg, t) = Dev!ListTeamsForUser(dev, t)
              /\ Pg!ListTeamInvitations(pg, t) = Dev!ListTeamInvitations(dev, t)
              /\ Pg!ListTeamOptins(pg, team, t) = Dev!ListTeamOptins(dev, team, t)
              /\ Pg!ListTenantOptins(pg, t) = Dev!ListTenantOptins(dev, t)
              /\ \A m \in 1..2 : Pg!ResolveIngestTeam(pg, t, m) = Dev!ResolveIngestTeam(dev, t, m)

MemoryAgrees == \A t \in Tenant :
    /\ Pg!ListMemoryDocuments(pg, t) = Dev!ListMemoryDocuments(dev, t)
    /\ \A id \in 1..2 :
          /\ Pg!GetMemoryDocument(pg, t, id) = Dev!GetMemoryDocument(dev, t, id)
          /\ Pg!ListMemoryRevisions(pg, t, id) = Dev!ListMemoryRevisions(dev, t, id)

SettingsAgree == \A t \in Tenant :
    /\ Pg!GetTenantSettings(pg, t) = Dev!GetTenantSettings(dev, t)
    /\ Pg!GetDistillationSettings(pg, t) = Dev!GetDistillationSettings(dev, t)

(* Whatever sequence of calls the services make, the store the tests run on     *)
(* answers every read and every call as Postgres does; of a session that was    *)
(* deleted it keeps what Postgres cascades away, and it lists a team the        *)
(* collections of those who left.                                               *)
ReadsAgree ==
    /\ group \in {"archive", "curation", "sharing"} => SessionsAgree
    /\ group \in {"archive", "curation"} => CurationAgrees
    /\ group \in {"archive", "unread"} => ArtifactsAgree
    /\ group = "devices" => DevicesAgree
    /\ group = "sharing" => SharingAgrees
    /\ group = "teams" => TeamsAgree
    /\ group = "memory" => MemoryAgrees
    /\ group = "settings" => SettingsAgree

(* Raw bytes go only with a retention sweep that took every session they made: *)
(* an artifact no session came of, or whose session a person deleted, stays.   *)
SweepTakesItsOwn == [][\A t \in Tenant, a \in 1..3 :
    Pg!GetRawArtifact(pg, t, a) # {} /\ Pg!GetRawArtifact(pg', t, a) = {} =>
        LET made == Pg!SessionIdsFor(pg, t, a)
        IN  made # {} /\ \A s \in made : Pg!SessionExists(pg, t, s) /\ ~Pg!SessionExists(pg', t, s)]_contractVars

(* The two stores as a whole: they answer alike, and the sweep both make takes  *)
(* only what belongs to it.                                                    *)
StoresHold == [](agreed /\ ReadsAgree) /\ SweepTakesItsOwn
=============================================================================
