--------------------------- MODULE SharingProofs ---------------------------
(***************************************************************************)
(* Theorems about what leaves its owner's hands: ShareLinks, for every set *)
(* of links and bearers, and TeamWorkspace, for every set of teams,        *)
(* sessions, machines, workers and requests; and every bound.              *)
(***************************************************************************)
EXTENDS ShareLinks, TeamWorkspace, ReviewedSessionProofs, TLAPS

-----------------------------------------------------------------------------
(* Share links.                                                             *)

USE DEF sessionVars, bearerVars, vars

(* Every step is one of the session's as far as the session is concerned.   *)
LEMMA StepOfSession ==
  ASSUME [Next]_vars
  PROVE  SessionStep \/ DeleteRow \/ UNCHANGED sessionVars
  BY DEF Next, OwnerStep, DeleteSession, LinkStep, MintCheck, MintGrant, MintToken, MintCrash,
         RevokeFind, RevokeGrant, RevokeToken, RevokeCrash, Expire, BearerStep, Present,
         ReadShared, Serve

LEMMA LinkInit == Init => LinkInv
  BY DEF Init, SessionInit, LinkInv, TypeOK, SessionTypeOK, ServedWasReviewed, RowStatus,
         Digest, Gone

LEMMA LinkStepInv == LinkInv /\ [Next]_vars => LinkInv'
<1> SUFFICES ASSUME LinkInv, [Next]_vars PROVE LinkInv'
  OBVIOUS
<1>s. SessionTypeOK' /\ reviewed \subseteq reviewed' /\ (reviews \subseteq reviewed)'
  BY SessionStepType, SessionStepReviews, StepOfSession DEF LinkInv, TypeOK
<1> USE <1>s DEF LinkInv, TypeOK, ServedWasReviewed, RowStatus
<1>1. CASE OwnerStep \/ UNCHANGED vars
  BY <1>1 DEF OwnerStep
<1>2. CASE DeleteSession
  BY <1>2 DEF DeleteSession
<1>3. ASSUME NEW l \in Link, LinkStep(l) PROVE LinkInv'
  <2>1. CASE MintCheck(l) \/ MintGrant(l) \/ MintToken(l) \/ MintCrash(l)
    BY <2>1 DEF MintCheck, MintGrant, MintToken, MintCrash, Mint
  <2>2. CASE RevokeFind(l) \/ RevokeGrant(l) \/ RevokeToken(l) \/ RevokeCrash(l)
    BY <2>2 DEF RevokeFind, RevokeGrant, RevokeToken, RevokeCrash, Revoke
  <2>3. CASE Expire(l)
    BY <2>3 DEF Expire
  <2>4. QED
    BY <1>3, <2>1, <2>2, <2>3 DEF LinkStep
<1>4. ASSUME NEW b \in Bearer, BearerStep(b) PROVE LinkInv'
  <2>1. ASSUME NEW l \in Link, Present(b, l) PROVE LinkInv'
    BY <2>1 DEF Present
  <2>2. CASE ReadShared(b)
    BY <2>2 DEF ReadShared, Finish, SessionTypeOK, Gone
  <2>3. CASE Serve(b)
    <3>1. IsReviewed(read[b]) => read[b] \in Digest /\ read[b] \in reviewed
      BY DEF IsReviewed, SessionTypeOK
    <3>2. served' \subseteq [link : Link, digest : Digest]
      BY <2>3, <3>1 DEF Serve
    <3>3. \A s \in served' : s.digest \in reviewed'
      BY <2>3, <3>1 DEF Serve
    <3>4. QED
      BY <2>3, <3>2, <3>3 DEF Serve, Finish, Gone
  <2>4. QED
    BY <1>4, <2>1, <2>2, <2>3 DEF BearerStep
<1>5. QED
  BY <1>1, <1>2, <1>3, <1>4 DEF Next

(* The inductive invariant of a link and the review it serves: LinkInv      *)
(* (createLink, completeReview, resolveShareToken).                         *)
THEOREM LinkSafe == Spec => []LinkInv
  BY LinkInit, LinkStepInv, PTL DEF Spec

(* The state is well typed (TypeOK).                                        *)
THEOREM LinkTypeCorrect == Spec => []TypeOK
  BY LinkSafe, PTL DEF LinkInv

(* However a transcript grows after its link was minted, what the link      *)
(* serves was reviewed (resolveShareToken, getCurrentReview).               *)
THEOREM OnlyReviewedServed == Spec => []ServedWasReviewed
  BY LinkSafe, PTL DEF LinkInv

-----------------------------------------------------------------------------
(* Where a link is revoked only after its createLink has answered.          *)

LEMMA CutInit == Init => CutInv
  BY DEF Init, CutInv

LEMMA CutStep ==
  ASSUME ~RevokeUnminted, LinkInv, CutInv, [Next]_vars
  PROVE  CutInv'
<1> USE DEF CutInv, LinkInv, TypeOK
<1>1. CASE OwnerStep \/ DeleteSession \/ UNCHANGED vars
  BY <1>1 DEF OwnerStep, DeleteSession
<1>2. ASSUME NEW l \in Link, LinkStep(l) PROVE CutInv'
  <2>1. CASE MintCheck(l) \/ MintGrant(l) \/ MintToken(l) \/ MintCrash(l)
    BY <2>1 DEF MintCheck, MintGrant, MintToken, MintCrash, Mint
  <2>2. CASE RevokeFind(l) \/ RevokeGrant(l) \/ RevokeToken(l) \/ RevokeCrash(l)
    BY <2>2 DEF RevokeFind, RevokeGrant, RevokeToken, RevokeCrash, Revoke
  <2>3. CASE Expire(l)
    BY <2>3 DEF Expire
  <2>4. QED
    BY <1>2, <2>1, <2>2, <2>3 DEF LinkStep
<1>3. ASSUME NEW b \in Bearer, BearerStep(b) PROVE CutInv'
  BY <1>3 DEF BearerStep, Present, ReadShared, Serve
<1>4. QED
  BY <1>1, <1>2, <1>3 DEF Next

(* Where a link is revoked only after createLink answered, no write of      *)
(* createLink is still to come for it: CutInv (saveShareGrant, revoke).     *)
THEOREM CutSafe ==
  ASSUME ~RevokeUnminted
  PROVE  Spec => [](LinkInv /\ CutInv)
<1>1. Init => LinkInv /\ CutInv
  BY LinkInit, CutInit
<1>2. LinkInv /\ CutInv /\ [Next]_vars => (LinkInv /\ CutInv)'
  BY LinkStepInv, CutStep
<1>3. QED
  BY <1>1, <1>2, PTL DEF Spec

(* Once a revocation has answered, the token row says revoked (revoke).     *)
THEOREM AnsweredRevocationHolds ==
  ASSUME ~RevokeUnminted
  PROVE  Spec => []RevokedIsCutOff
<1>1. Spec => []CutInv
  BY CutSafe, PTL
<1>2. LinkInv /\ CutInv => RevokedIsCutOff
  BY DEF LinkInv, TypeOK, CutInv, RevokedIsCutOff
<1>3. QED
  BY <1>2, CutSafe, PTL

(* No step makes a revoked token active again (saveShareGrant).             *)
THEOREM RevokedForGood ==
  ASSUME ~RevokeUnminted
  PROVE  Spec => NoPathBack
<1>1. ASSUME LinkInv, CutInv, [Next]_vars, NEW l \in Link, token[l] = "revoked"
      PROVE  token'[l] = "revoked"
  <2>1. minting[l] \in {"done", "failed"}
    BY <1>1 DEF CutInv
  <2>2. CASE OwnerStep \/ DeleteSession \/ UNCHANGED vars
    BY <1>1, <2>2 DEF OwnerStep, DeleteSession
  <2>3. ASSUME NEW k \in Link, LinkStep(k) PROVE token'[l] = "revoked"
    BY <1>1, <2>1, <2>3 DEF LinkInv, TypeOK, LinkStep, MintCheck, MintGrant, MintToken, MintCrash,
       RevokeFind, RevokeGrant, RevokeToken, RevokeCrash, Expire
  <2>4. ASSUME NEW b \in Bearer, BearerStep(b) PROVE token'[l] = "revoked"
    BY <1>1, <2>4 DEF BearerStep, Present, ReadShared, Serve
  <2>5. QED
    BY <1>1, <2>2, <2>3, <2>4 DEF Next
<1>2. LinkInv /\ CutInv /\ [Next]_vars
        => [\A l \in Link : token[l] = "revoked" => token'[l] = "revoked"]_vars
  BY <1>1
<1>3. QED
  BY <1>2, CutSafe, PTL DEF Spec, NoPathBack

(* A request that comes after the answer gets nothing (resolveShareToken).  *)
THEOREM NobodyNewAfterRevocation ==
  ASSUME ~RevokeUnminted
  PROVE  Spec => CutOffServesNobodyNew
<1>1. ASSUME LinkInv, CutInv, [Next]_vars, NEW c \in Bearer, using'[c] \in cutOff
      PROVE  using[c] = using'[c]
  <2> USE <1>1 DEF LinkInv, TypeOK
  <2>1. using'[c] # NoLink
    BY LinkAssumption
  <2>2. CASE OwnerStep \/ DeleteSession \/ UNCHANGED vars
    BY <2>2 DEF OwnerStep, DeleteSession
  <2>3. ASSUME NEW l \in Link, LinkStep(l) PROVE using[c] = using'[c]
    BY <2>3 DEF LinkStep, MintCheck, MintGrant, MintToken, MintCrash, RevokeFind, RevokeGrant,
       RevokeToken, RevokeCrash, Expire
  <2>4. ASSUME NEW b \in Bearer, BearerStep(b) PROVE using[c] = using'[c]
    <3>1. ASSUME NEW l \in Link, Present(b, l) PROVE using[c] = using'[c]
      <4>1. l \notin cutOff
        BY <3>1 DEF Present, CutInv
      <4>2. QED
        BY <3>1, <4>1 DEF Present
    <3>2. CASE ReadShared(b) \/ Serve(b)
      BY <2>1, <3>2 DEF ReadShared, Serve, Finish
    <3>3. QED
      BY <2>4, <3>1, <3>2 DEF BearerStep
  <2>5. QED
    BY <2>2, <2>3, <2>4 DEF Next
<1>2. LinkInv /\ CutInv /\ [Next]_vars
        => [\A b \in Bearer : using'[b] \in cutOff => using[b] = using'[b]]_vars
  BY <1>1
<1>3. QED
  BY <1>2, CutSafe, PTL DEF Spec, CutOffServesNobodyNew

-----------------------------------------------------------------------------
(* The owner's list.                                                        *)

ListInv == LinkInv /\ CutInv /\ UndisturbedInv

(* Only a deletion takes the session's row away.                            *)
LEMMA StillThere ==
  ASSUME SessionTypeOK, deletes = 0 => content # Gone,
         SessionStep \/ DeleteRow \/ UNCHANGED sessionVars
  PROVE  /\ deletes' = 0 => deletes = 0
         /\ deletes' = 0 => content' # Gone
<1> USE DEF SessionTypeOK, Digest, Gone
<1>1. CASE DeleteRow
  BY <1>1 DEF DeleteRow
<1>2. CASE Capture \/ Reprocess \/ ReadForReview \/ SaveReview \/ UNCHANGED sessionVars
  BY <1>2 DEF Capture, Reprocess, ReadForReview, SaveReview
<1>3. QED
  BY <1>1, <1>2 DEF SessionStep

LEMMA ListStep ==
  ASSUME ~RevokeUnminted, ListInv, [Next]_vars
  PROVE  UndisturbedInv'
<1> USE DEF ListInv, LinkInv, TypeOK, RowStatus
<1>1. (deletes' = 0 => deletes = 0) /\ (deletes' = 0 => content' # Gone)
  BY StillThere, StepOfSession DEF UndisturbedInv
<1> SUFFICES ASSUME crashes' = 0, deletes' = 0, NEW l \in Link PROVE RowsInStep(l)'
  BY <1>1 DEF UndisturbedInv
<1>2. CASE OwnerStep \/ UNCHANGED vars
  BY <1>1, <1>2 DEF OwnerStep, UndisturbedInv, RowsInStep
<1>3. CASE DeleteSession
  BY <1>1, <1>3 DEF DeleteSession, DeleteRow
<1>4. ASSUME NEW k \in Link, LinkStep(k) PROVE RowsInStep(l)'
  <2>1. content # Gone /\ UNCHANGED deletes
    BY <1>1, <1>4 DEF UndisturbedInv, LinkStep, MintCheck, MintGrant, MintToken, MintCrash,
       RevokeFind, RevokeGrant, RevokeToken, RevokeCrash, Expire
  <2>2. crashes = 0
    BY <1>4 DEF LinkStep, MintCheck, MintGrant, MintToken, MintCrash,
       RevokeFind, RevokeGrant, RevokeToken, RevokeCrash, Expire
  <2>3. RowsInStep(l)
    BY <2>1, <2>2 DEF UndisturbedInv
  <2>4. CASE k # l
    BY <1>4, <2>3, <2>4 DEF RowsInStep, LinkStep, MintCheck, MintGrant, MintToken, MintCrash, Mint,
       RevokeFind, RevokeGrant, RevokeToken, RevokeCrash, Revoke, Expire
  <2>5. CASE k = l
    <3> USE <2>1, <2>2, <2>3, <2>5 DEF RowsInStep
    <3>1. CASE MintCheck(k) \/ MintGrant(k) \/ MintToken(k)
      BY <3>1 DEF MintCheck, MintGrant, MintToken, Mint
    <3>2. CASE RevokeFind(k) \/ RevokeGrant(k) \/ RevokeToken(k) \/ Expire(k)
      BY <3>2 DEF RevokeFind, RevokeGrant, RevokeToken, Revoke, Expire
    <3>3. CASE MintCrash(k) \/ RevokeCrash(k)
      BY <3>3 DEF MintCrash, RevokeCrash
    <3>4. QED
      BY <1>4, <3>1, <3>2, <3>3 DEF LinkStep
  <2>6. QED
    BY <2>4, <2>5
<1>5. ASSUME NEW b \in Bearer, BearerStep(b) PROVE RowsInStep(l)'
  BY <1>1, <1>5 DEF BearerStep, Present, ReadShared, Serve, UndisturbedInv, RowsInStep
<1>6. QED
  BY <1>2, <1>3, <1>4, <1>5 DEF Next

(* Where no process died and the session was not deleted, the owner's list  *)
(* and the tokens say the same of every link no request is at work on       *)
(* (saveShareGrant, listShareGrants).                                       *)
THEOREM OwnersListIsTrue ==
  ASSUME ~RevokeUnminted
  PROVE  Spec => []UndisturbedListIsTrue
<1>1. Init => ListInv
  BY LinkInit, CutInit DEF Init, SessionInit, ListInv, UndisturbedInv, RowsInStep, Gone
<1>2. ListInv /\ [Next]_vars => ListInv'
  BY LinkStepInv, CutStep, ListStep DEF ListInv
<1>3. ListInv => UndisturbedListIsTrue
  BY DEF ListInv, UndisturbedInv, RowsInStep, UndisturbedListIsTrue, ListedRevokedIsCutOff,
     LiveLinkIsListed, Quiet
<1>4. QED
  BY <1>1, <1>2, <1>3, PTL DEF Spec

-----------------------------------------------------------------------------
(* Team workspaces.                                                         *)

USE DEF workerVars, callVars, historyVars, workspaceVars

-----------------------------------------------------------------------------
(* Where it starts, and type correctness.                                   *)

LEMMA WorkspaceInitInv == WorkspaceInit => WorkspaceInv
<1> SUFFICES ASSUME WorkspaceInit PROVE WorkspaceInv
  OBVIOUS
<1> USE WorkspaceAssumption DEF WorkspaceInit, Visibility, MachineScope
<1>1. WorkspaceTypeOK
  BY DEF WorkspaceTypeOK, Row, Job, NoJob, NoArgs
<1>2. StampInv /\ SettingInv /\ WithdrawnInv /\ WidenedWasReviewed /\ SharedByAMember
  BY DEF StampInv, SettingInv, WithdrawnInv, WidenedWasReviewed, SharedByAMember
<1>3. EnrolInv /\ EraseInv /\ OneTeamOnly /\ OnlyTheOvertakenEscape
  BY DEF EnrolInv, EraseInv, OneTeamOnly, OnlyTheOvertakenEscape
<1>4. QED
  BY <1>1, <1>2, <1>3 DEF WorkspaceInv

(* What resolveIngestTeam answers: no team, or one that was consented to by *)
(* someone who is in it.                                                    *)
LEMMA ResolvedMeans ==
  ASSUME NEW machine, NEW t \in Resolved(machine), t # Private
  PROVE  \E o \in optins : o.team = t /\ member[t] = "active"
  BY DEF Resolved, Standing

LEMMA ResolvedType ==
  ASSUME WorkspaceTypeOK, NEW machine, NEW t \in Resolved(machine)
  PROVE  t \in Visibility
  BY DEF WorkspaceTypeOK, Resolved, Standing, Optin, Visibility

(* The entry of a request and its end, as the types see them.               *)
LEMMA EnterType ==
  ASSUME WorkspaceTypeOK, NEW c \in Caller, NEW a,
         NEW label \in {"idle", "enrolling", "selecting", "setting"},
         Enter(c, label, a),
         label # "idle" => a \in [team : Visibility, machine : MachineScope,
                                  on : SUBSET Session, created : Nat],
         label \in {"enrolling", "selecting"} => a.team \in Team
  PROVE  /\ doing' \in [Caller -> {"idle", "enrolling", "selecting", "erasing", "setting"}]
         /\ args' \in [Caller -> [team : Visibility, machine : MachineScope,
                                  on : SUBSET Session, created : Nat]]
         /\ calls' \in Nat
         /\ \A d \in Caller : doing'[d] \in {"enrolling", "selecting", "erasing"} => args'[d].team \in Team
<1>1. NoArgs \in [team : Visibility, machine : MachineScope, on : SUBSET Session, created : Nat]
  BY DEF NoArgs, Visibility, MachineScope
<1>2. QED
  BY <1>1 DEF Enter, WorkspaceTypeOK

LEMMA DoneType ==
  ASSUME WorkspaceTypeOK, NEW c \in Caller, Done(c)
  PROVE  /\ doing' \in [Caller -> {"idle", "enrolling", "selecting", "erasing", "setting"}]
         /\ args' \in [Caller -> [team : Visibility, machine : MachineScope,
                                  on : SUBSET Session, created : Nat]]
         /\ picked' \in [Caller -> SUBSET Session]
         /\ \A d \in Caller : doing'[d] \in {"enrolling", "selecting", "erasing"} => args'[d].team \in Team
<1>1. NoArgs \in [team : Visibility, machine : MachineScope, on : SUBSET Session, created : Nat]
  BY DEF NoArgs, Visibility, MachineScope
<1>2. QED
  BY <1>1 DEF Done, WorkspaceTypeOK

(* A row stays a row when its visibility is written.                        *)
LEMMA RowKept ==
  ASSUME NEW r \in Row, NEW v \in Visibility
  PROVE  /\ [r EXCEPT !.vis = v] \in Row
         /\ [r EXCEPT !.vis = v, !.by = "hand"] \in Row
  BY DEF Row

(* What updateSessionVisibility leaves.                                     *)
LEMMA HandWritten ==
  ASSUME WorkspaceTypeOK, NEW c \in Caller, WriteVisibility(c), NEW s \in Session
  PROVE  IF s \in args[c].on THEN rows'[s].vis = args[c].team /\ rows'[s].by = "hand"
         ELSE rows'[s] = rows[s]
<1>1. rows'[s] = IF s \in args[c].on THEN [rows[s] EXCEPT !.vis = args[c].team, !.by = "hand"]
                 ELSE rows[s]
  BY DEF WriteVisibility
<1>2. rows[s] \in Row
  BY DEF WorkspaceTypeOK
<1>3. QED
  BY ONLY <1>1, <1>2 DEF Row

LEMMA WorkspaceNextType == WorkspaceTypeOK /\ [WorkspaceNext]_workspaceVars => WorkspaceTypeOK'
<1> SUFFICES ASSUME WorkspaceTypeOK, [WorkspaceNext]_workspaceVars PROVE WorkspaceTypeOK'
  OBVIOUS
<1>1. ASSUME NEW t \in Team, MemberStep(t) PROVE WorkspaceTypeOK'
  BY <1>1 DEF MemberStep, Invite, AcceptInvitation, DeclineInvitation, RemoveMember, SetMember,
     WorkspaceTypeOK
<1>2. ASSUME NEW w \in Worker, NEW s \in Session, NEW clear \in BOOLEAN, NEW said \in Visibility,
             NEW m \in {Home[s], Uploads}, StartParse(w, s, m, clear, said)
      PROVE  WorkspaceTypeOK'
  <2>1. m \in Machine \cup {Uploads}
    BY WorkspaceAssumption
  <2>2. QED
    BY <1>2, <2>1 DEF StartParse, WorkspaceTypeOK, Visibility, Job
<1>3. ASSUME NEW w \in Worker, Stamp(w) PROVE WorkspaceTypeOK'
  <2>1. PICK t \in (IF job[w].clear /\ job[w].said = Private THEN Resolved(job[w].machine)
                   ELSE {job[w].said}) :
            /\ job' = [job EXCEPT ![w].team = t]
            /\ consented' = IF job[w].said = Private /\ t \in Team /\ member[t] = "active"
                            THEN consented \cup (job[w].on \X {t}) ELSE consented
    BY <1>3 DEF Stamp
  <2>2. t \in Visibility
    BY <2>1, ResolvedType DEF WorkspaceTypeOK, Job
  <2>3. job' \in [Worker -> Job]
    <3>1. job \in [Worker -> Job] /\ job' = [job EXCEPT ![w].team = t]
      BY <2>1 DEF WorkspaceTypeOK
    <3>2. QED
      BY ONLY <2>2, <3>1 DEF Job
  <2>4. consented' \subseteq Session \X Team
    BY <2>1 DEF WorkspaceTypeOK, Job
  <2>5. \A x \in Worker : job'[x].on = job[x].on
    BY <2>1 DEF WorkspaceTypeOK, Job
  <2>6. \A x \in Worker : at'[x] # "idle" => at[x] # "idle"
    BY <1>3 DEF Stamp, WorkspaceTypeOK
  <2>7. at' \in [Worker -> {"idle", "parsed", "stamped"}]
    BY <1>3 DEF Stamp, WorkspaceTypeOK
  <2>8. \A x \in Worker : at'[x] # "idle" => \E s \in Session : job'[x].on = {s}
    BY <2>5, <2>6 DEF WorkspaceTypeOK
  <2>9. UNCHANGED <<member, optins, rows, vetted, parses, callVars, overtaken, withdrawn, slipped>>
    BY <1>3 DEF Stamp
  <2>10. QED
    BY <2>3, <2>4, <2>7, <2>8, <2>9 DEF WorkspaceTypeOK
<1>4. ASSUME NEW w \in Worker, Save(w) PROVE WorkspaceTypeOK'
  <2>1. ParsedRow(w) \in Row
    BY <1>4 DEF Save, WorkspaceTypeOK, Job, ParsedRow, Row
  <2>2. rows' \in [Session -> Row]
    BY <1>4, <2>1 DEF Save, WorkspaceTypeOK
  <2>3. job' \in [Worker -> Job]
    BY <1>4 DEF Save, Saved, WorkspaceTypeOK, Job, NoJob, Visibility
  <2>4. \A x \in Worker : at'[x] # "idle" => x # w /\ at[x] # "idle" /\ job'[x] = job[x]
    BY <1>4 DEF Save, Saved, WorkspaceTypeOK
  <2>5. slipped' \subseteq Session /\ vetted' \subseteq Session
    BY <1>4 DEF Save, Saved, WorkspaceTypeOK, Job
  <2>6. at' \in [Worker -> {"idle", "parsed", "stamped"}] /\ overtaken' \subseteq Worker
    BY <1>4 DEF Save, Saved, WorkspaceTypeOK
  <2>7. UNCHANGED <<member, optins, parses, callVars, withdrawn, consented>>
    BY <1>4 DEF Save, Saved
  <2>8. QED
    BY <2>2, <2>3, <2>4, <2>5, <2>6, <2>7 DEF WorkspaceTypeOK
<1>5. ASSUME NEW c \in Caller, NEW t \in Team, NEW m \in MachineScope, Enrol(c, t, m)
      PROVE  WorkspaceTypeOK'
  <2>1. Args(t, m, {}) \in [team : Visibility, machine : MachineScope, on : SUBSET Session, created : Nat]
        /\ Args(t, m, {}).team \in Team
    BY DEF Args, Visibility, WorkspaceTypeOK
  <2>2. \/ Enter(c, "idle", NoArgs)
        \/ Enter(c, "enrolling", Args(t, m, {}))
    BY <1>5 DEF Enrol
  <2>3. QED
    BY <1>5, <2>1, <2>2, EnterType DEF Enrol, WorkspaceTypeOK
<1>6. ASSUME NEW c \in Caller, NEW t \in Team, NEW m \in MachineScope, NEW past \in BOOLEAN,
             Withdraw(c, t, m, past)
      PROVE  WorkspaceTypeOK'
  <2>1. Args(t, m, {}) \in [team : Visibility, machine : MachineScope, on : SUBSET Session, created : Nat]
        /\ Args(t, m, {}).team \in Team
    BY DEF Args, Visibility, WorkspaceTypeOK
  <2>2. \/ Enter(c, "idle", NoArgs)
        \/ Enter(c, "selecting", Args(t, m, {}))
        \/ Enter(c, "idle", Args(t, m, {}))
    BY <1>6 DEF Withdraw
  <2>3. optins' \subseteq optins /\ overtaken' \subseteq overtaken \cup Worker
    BY <1>6 DEF Withdraw
  <2>4. QED
    BY <1>6, <2>1, <2>2, <2>3, EnterType DEF Withdraw, WorkspaceTypeOK
<1>7. ASSUME NEW c \in Caller, CreateOptin(c) PROVE WorkspaceTypeOK'
  <2>1. [team |-> args[c].team, machine |-> args[c].machine, created |-> args[c].created] \in Optin
    BY <1>7 DEF CreateOptin, WorkspaceTypeOK, Optin
  <2>2. optins' \subseteq Optin
    BY <1>7, <2>1 DEF CreateOptin, WorkspaceTypeOK
  <2>3. QED
    BY <1>7, <2>2, DoneType DEF CreateOptin, WorkspaceTypeOK
<1>8. ASSUME NEW c \in Caller, SelectShared(c) PROVE WorkspaceTypeOK'
  BY <1>8 DEF SelectShared, WorkspaceTypeOK
<1>9. ASSUME NEW c \in Caller, EraseShared(c) PROVE WorkspaceTypeOK'
  <2>1. rows' \in [Session -> Row]
    BY <1>9, RowKept, Private \in Visibility DEF EraseShared, WorkspaceTypeOK, Visibility
  <2>2. args[c].team \in Team /\ args[c].machine \in MachineScope
    BY <1>9 DEF EraseShared, WorkspaceTypeOK
  <2>3. withdrawn' \subseteq Team \X (Machine \cup {Uploads})
    BY <1>9, <2>2 DEF EraseShared, WorkspaceTypeOK, MachineScope
  <2>4. QED
    BY <1>9, <2>1, <2>3, DoneType DEF EraseShared, WorkspaceTypeOK
<1>10. ASSUME NEW s \in Session, CompleteReview(s) PROVE WorkspaceTypeOK'
  BY <1>10 DEF CompleteReview, WorkspaceTypeOK
<1>11. ASSUME NEW c \in Caller, NEW s \in Session, NEW v \in Visibility, SetVisibility(c, s, v)
       PROVE  WorkspaceTypeOK'
  <2>1. Args(v, AnyMachine, {s})
          \in [team : Visibility, machine : MachineScope, on : SUBSET Session, created : Nat]
    BY DEF Args, MachineScope, WorkspaceTypeOK
  <2>2. Enter(c, "setting", Args(v, AnyMachine, {s})) /\ consented' \subseteq Session \X Team
    BY <1>11 DEF SetVisibility, WorkspaceTypeOK
  <2>3. QED
    BY <1>11, <2>1, <2>2, EnterType DEF SetVisibility, WorkspaceTypeOK
<1>12. ASSUME NEW c \in Caller, WriteVisibility(c) PROVE WorkspaceTypeOK'
  <2>1. args[c].team \in Visibility
    BY DEF WorkspaceTypeOK
  <2>2. \A s \in Session : [rows[s] EXCEPT !.vis = args[c].team, !.by = "hand"] \in Row
    BY <2>1, RowKept DEF WorkspaceTypeOK
  <2>3. rows' \in [Session -> Row]
    BY <1>12, <2>2 DEF WriteVisibility, WorkspaceTypeOK
  <2>4. QED
    BY <1>12, <2>3, DoneType DEF WriteVisibility, WorkspaceTypeOK
<1>13. CASE UNCHANGED workspaceVars
  BY <1>13 DEF WorkspaceTypeOK
<1>14. QED
  BY <1>1, <1>2, <1>3, <1>4, <1>5, <1>6, <1>7, <1>8, <1>9, <1>10, <1>11, <1>12, <1>13
  DEF WorkspaceNext, WorkerStep, CallerStep

(* The state is well typed (WorkspaceTypeOK).                               *)
THEOREM WorkspaceTypeCorrect == WorkspaceSpec => []WorkspaceTypeOK
<1>1. WorkspaceInit => WorkspaceTypeOK
  BY WorkspaceInitInv DEF WorkspaceInv
<1>2. QED
  BY <1>1, WorkspaceNextType, PTL DEF WorkspaceSpec

-----------------------------------------------------------------------------
(* The invariant, a part at a time.                                         *)

(* A worker between its stamp and its save.                                 *)
LEMMA NextStamp == WorkspaceInv /\ [WorkspaceNext]_workspaceVars => StampInv'
<1> SUFFICES ASSUME WorkspaceInv, [WorkspaceNext]_workspaceVars PROVE StampInv'
  OBVIOUS
<1> USE WorkspaceAssumption DEF WorkspaceInv, WorkspaceTypeOK, StampInv
<1>1. ASSUME UNCHANGED <<at, job, optins, overtaken>>, consented \subseteq consented'
      PROVE  StampInv'
  BY <1>1
<1>2. ASSUME NEW w \in Worker, NEW s \in Session, NEW clear \in BOOLEAN, NEW said, NEW m,
             StartParse(w, s, m, clear, said)
      PROVE  StampInv'
  BY <1>2 DEF StartParse
<1>3. ASSUME NEW w \in Worker, Stamp(w) PROVE StampInv'
  <2>1. PICK t \in (IF job[w].clear /\ job[w].said = Private THEN Resolved(job[w].machine)
                   ELSE {job[w].said}) :
            /\ job' = [job EXCEPT ![w].team = t]
            /\ consented' = IF job[w].said = Private /\ t \in Team /\ member[t] = "active"
                            THEN consented \cup (job[w].on \X {t}) ELSE consented
    BY <1>3 DEF Stamp
  <2>2. UNCHANGED <<optins, overtaken>> /\ consented \subseteq consented'
    BY <1>3, <2>1 DEF Stamp
  <2>3. \A x \in Worker \ {w} : at'[x] = at[x] /\ job'[x] = job[x]
    BY <1>3, <2>1 DEF Stamp
  <2>4. ASSUME t \in Team, job[w].said = Private
        PROVE  /\ job[w].clear
               /\ \A s \in job[w].on : <<s, t>> \in consented'
               /\ \E o \in optins : o.team = t
    <3>1. t # Private
      BY <2>4
    <3>2. job[w].clear /\ t \in Resolved(job[w].machine)
      BY <2>1, <2>4, <3>1
    <3>3. (\E o \in optins : o.team = t) /\ member[t] = "active"
      BY <3>1, <3>2, ResolvedMeans
    <3>4. consented' = consented \cup (job[w].on \X {t})
      BY <2>1, <2>4, <3>3
    <3>5. QED
      BY <3>2, <3>3, <3>4
  <2>5. /\ job'[w].team = t /\ job'[w].clear = job[w].clear /\ job'[w].on = job[w].on
        /\ job'[w].said = job[w].said
    BY <2>1 DEF Job
  <2>6. QED
    BY <2>2, <2>3, <2>4, <2>5
<1>4. ASSUME NEW w \in Worker, Save(w) PROVE StampInv'
  <2>1. UNCHANGED <<optins, consented>> /\ overtaken' = overtaken \ {w}
    BY <1>4 DEF Save, Saved
  <2>2. at'[w] = "idle" /\ \A x \in Worker \ {w} : at'[x] = at[x] /\ job'[x] = job[x]
    BY <1>4 DEF Save, Saved
  <2>3. QED
    BY <2>1, <2>2
<1>5. ASSUME NEW c \in Caller, NEW t \in Team, NEW m \in MachineScope, NEW past \in BOOLEAN,
             Withdraw(c, t, m, past)
      PROVE  StampInv'
  <2>1. UNCHANGED <<at, job, consented>>
    BY <1>5 DEF Withdraw
  <2>2. CASE UNCHANGED <<optins, overtaken>>
    BY <2>1, <2>2, <1>1
  <2>3. CASE /\ optins' = optins \ {o \in optins : o.team = t /\ o.machine = m}
             /\ overtaken' = overtaken \cup {w \in Worker : at[w] = "stamped" /\ job[w].team = t}
    BY <2>1, <2>3
  <2>4. QED
    BY <1>5, <2>2, <2>3 DEF Withdraw
<1>6. ASSUME NEW c \in Caller, CreateOptin(c) PROVE StampInv'
  <2>1. UNCHANGED <<at, job, consented, overtaken>> /\ optins \subseteq optins'
    BY <1>6 DEF CreateOptin
  <2>2. QED
    BY <2>1
<1>7. QED
  <2>1. ASSUME NEW t \in Team, MemberStep(t) PROVE StampInv'
    BY <2>1, <1>1 DEF MemberStep, Invite, AcceptInvitation, DeclineInvitation, RemoveMember, SetMember
  <2>2. ASSUME NEW c \in Caller, NEW t \in Team, NEW m \in MachineScope, Enrol(c, t, m) PROVE StampInv'
    BY <2>2, <1>1 DEF Enrol
  <2>3. ASSUME NEW c \in Caller, NEW s \in Session, NEW v \in Visibility, SetVisibility(c, s, v)
        PROVE  StampInv'
    BY <2>3, <1>1 DEF SetVisibility
  <2>4. ASSUME NEW c \in Caller, SelectShared(c) \/ EraseShared(c) \/ WriteVisibility(c) PROVE StampInv'
    BY <2>4, <1>1 DEF SelectShared, EraseShared, WriteVisibility
  <2>5. ASSUME NEW c \in Caller, CallerStep(c) PROVE StampInv'
    BY ONLY <2>2, <2>3, <2>4, <2>5, <1>5, <1>6 DEF CallerStep
  <2>6. QED
    BY <2>1, <2>5, <1>1, <1>2, <1>3, <1>4 DEF WorkspaceNext, WorkerStep, CompleteReview

(* A change by hand between its check and its write.                        *)
LEMMA NextSetting == WorkspaceInv /\ [WorkspaceNext]_workspaceVars => SettingInv'
<1> SUFFICES ASSUME WorkspaceInv, [WorkspaceNext]_workspaceVars PROVE SettingInv'
  OBVIOUS
<1> USE WorkspaceAssumption DEF WorkspaceInv, WorkspaceTypeOK, SettingInv
<1>1. ASSUME UNCHANGED <<doing, args, slipped>>, vetted \subseteq vetted', consented \subseteq consented'
      PROVE  SettingInv'
  BY <1>1
<1>2. ASSUME NEW c \in Caller, NEW label \in {"idle", "enrolling", "selecting"}, NEW a, Enter(c, label, a),
             UNCHANGED <<consented, vetted, slipped>>
      PROVE  SettingInv'
  BY <1>2 DEF Enter
<1>3. ASSUME NEW c \in Caller, Done(c), UNCHANGED <<consented, vetted, slipped>> PROVE SettingInv'
  BY <1>3 DEF Done
<1>4. ASSUME NEW c \in Caller, NEW s \in Session, NEW v \in Visibility, SetVisibility(c, s, v)
      PROVE  SettingInv'
  <2>1. doing' = [doing EXCEPT ![c] = "setting"] /\ args' = [args EXCEPT ![c] = Args(v, AnyMachine, {s})]
    BY <1>4 DEF SetVisibility, Enter
  <2>2. args'[c].team = v /\ args'[c].on = {s}
    BY <2>1 DEF Args
  <2>3. /\ consented \subseteq consented' /\ UNCHANGED <<vetted, slipped>>
        /\ v \in Team => <<s, v>> \in consented' /\ s \in vetted
    BY <1>4 DEF SetVisibility
  <2>4. QED
    BY <2>1, <2>2, <2>3
<1>5. ASSUME NEW c \in Caller, NEW t \in Team, NEW m \in MachineScope, Enrol(c, t, m) PROVE SettingInv'
  BY <1>5, <1>2 DEF Enrol
<1>6. ASSUME NEW c \in Caller, NEW t \in Team, NEW m \in MachineScope, NEW past \in BOOLEAN,
             Withdraw(c, t, m, past)
      PROVE  SettingInv'
  BY <1>6, <1>2 DEF Withdraw
<1>7. ASSUME NEW c \in Caller, SelectShared(c) PROVE SettingInv'
  BY <1>7 DEF SelectShared
<1>8. QED
  <2>1. ASSUME NEW t \in Team, MemberStep(t) PROVE SettingInv'
    BY <2>1, <1>1 DEF MemberStep, Invite, AcceptInvitation, DeclineInvitation, RemoveMember, SetMember
  <2>2. ASSUME NEW c \in Caller, CreateOptin(c) \/ EraseShared(c) \/ WriteVisibility(c) PROVE SettingInv'
    BY <2>2, <1>3 DEF CreateOptin, EraseShared, WriteVisibility
  <2>3. ASSUME NEW c \in Caller, CallerStep(c) PROVE SettingInv'
    BY ONLY <2>2, <2>3, <1>4, <1>5, <1>6, <1>7 DEF CallerStep
  <2>4. ASSUME NEW w \in Worker, WorkerStep(w) PROVE SettingInv'
    <3>1. CASE Save(w)
      <4>1. UNCHANGED <<doing, args, consented>> /\ vetted' = vetted \ job[w].on
        BY <3>1 DEF Save, Saved
      <4>2. slipped' = (slipped \ job[w].on) \cup
              {s \in job[w].on : \E c \in Caller : doing[c] = "setting" /\ s \in args[c].on}
        BY <3>1 DEF Save, Saved
      <4>3. ASSUME NEW c \in Caller, doing[c] = "setting", args[c].team \in Team, NEW s \in args[c].on
            PROVE  s \in vetted' \/ s \in slipped'
        BY <4>1, <4>2, <4>3
      <4>4. QED
        BY <4>1, <4>3
    <3>2. CASE ~Save(w)
      <4>1. UNCHANGED <<doing, args, slipped, vetted>> /\ consented \subseteq consented'
        BY <2>4, <3>2 DEF WorkerStep, StartParse, Stamp
      <4>2. QED
        BY <4>1, <1>1
    <3>3. QED
      BY <3>1, <3>2
  <2>5. QED
    BY <2>1, <2>3, <2>4, <1>1 DEF WorkspaceNext, CompleteReview

(* Who changes what a session shows: a save, the two ends of a request.     *)
LEMMA RowsChangedBy ==
  ASSUME [WorkspaceNext]_workspaceVars
  PROVE  \/ UNCHANGED <<rows, slipped>> /\ vetted \subseteq vetted'
         \/ \E w \in Worker : Save(w)
         \/ \E c \in Caller : EraseShared(c) \/ WriteVisibility(c)
<1>1. ASSUME NEW t \in Team, MemberStep(t) PROVE UNCHANGED <<rows, vetted, slipped>>
  BY <1>1 DEF MemberStep, Invite, AcceptInvitation, DeclineInvitation, RemoveMember, SetMember
<1>2. ASSUME NEW w \in Worker, WorkerStep(w) PROVE UNCHANGED <<rows, vetted, slipped>> \/ Save(w)
  BY <1>2 DEF WorkerStep, StartParse, Stamp
<1>3. ASSUME NEW c \in Caller, CallerStep(c)
      PROVE  UNCHANGED <<rows, vetted, slipped>> \/ EraseShared(c) \/ WriteVisibility(c)
  BY <1>3 DEF CallerStep, Enrol, Withdraw, SetVisibility, CreateOptin, SelectShared
<1>4. QED
  BY <1>1, <1>2, <1>3 DEF WorkspaceNext, CompleteReview

(* Who changes the consents: a withdrawal takes some away, the end of an    *)
(* enrolment adds one.                                                      *)
LEMMA OptinsChangedBy ==
  ASSUME [WorkspaceNext]_workspaceVars
  PROVE  \/ optins' \subseteq optins /\ UNCHANGED withdrawn
         \/ \E c \in Caller : CreateOptin(c)
         \/ \E c \in Caller : EraseShared(c)
<1>1. ASSUME NEW t \in Team, MemberStep(t) PROVE UNCHANGED <<optins, withdrawn>>
  BY <1>1 DEF MemberStep, Invite, AcceptInvitation, DeclineInvitation, RemoveMember, SetMember
<1>2. ASSUME NEW w \in Worker, WorkerStep(w) PROVE UNCHANGED <<optins, withdrawn>>
  BY <1>2 DEF WorkerStep, StartParse, Stamp, Save, Saved
<1>3. ASSUME NEW c \in Caller, NEW t \in Team, NEW m \in MachineScope, NEW past \in BOOLEAN,
             Withdraw(c, t, m, past)
      PROVE  optins' \subseteq optins /\ UNCHANGED withdrawn
  BY <1>3 DEF Withdraw
<1>4. ASSUME NEW c \in Caller, CallerStep(c)
      PROVE  \/ optins' \subseteq optins /\ UNCHANGED withdrawn
             \/ CreateOptin(c) \/ EraseShared(c)
  BY <1>4, <1>3 DEF CallerStep, Enrol, SetVisibility, SelectShared, WriteVisibility
<1>5. QED
  BY <1>1, <1>2, <1>4 DEF WorkspaceNext, CompleteReview

LEMMA NextWithdrawn == WorkspaceInv /\ [WorkspaceNext]_workspaceVars => WithdrawnInv'
<1> SUFFICES ASSUME WorkspaceInv, [WorkspaceNext]_workspaceVars PROVE WithdrawnInv'
  OBVIOUS
<1> USE DEF WorkspaceInv, WithdrawnInv
<1>1. CASE optins' \subseteq optins /\ UNCHANGED withdrawn
  BY <1>1
<1>2. ASSUME NEW c \in Caller, CreateOptin(c) PROVE WithdrawnInv'
  <2>1. withdrawn' = {x \in withdrawn : x[1] # args[c].team}
    BY <1>2 DEF CreateOptin
  <2>2. \A o \in optins' : o \in optins \/ o.team = args[c].team
    BY <1>2 DEF CreateOptin
  <2>3. QED
    BY <2>1, <2>2
<1>3. ASSUME NEW c \in Caller, EraseShared(c) PROVE WithdrawnInv'
  <2>1. UNCHANGED optins
    BY <1>3 DEF EraseShared
  <2>2. CASE UNCHANGED withdrawn
    BY <2>1, <2>2
  <2>3. CASE /\ \A o \in optins : o.team # args[c].team
             /\ \A x \in withdrawn' : x \in withdrawn \/ x[1] = args[c].team
    BY <2>1, <2>3
  <2>4. QED
    BY <1>3, <2>2, <2>3 DEF EraseShared
<1>4. QED
  BY <1>1, <1>2, <1>3, OptinsChangedBy

(* Consents that were given are remembered.                                 *)
LEMMA ConsentedGrows ==
  ASSUME [WorkspaceNext]_workspaceVars
  PROVE  consented \subseteq consented'
<1>1. ASSUME NEW t \in Team, MemberStep(t) PROVE UNCHANGED consented
  BY <1>1 DEF MemberStep, Invite, AcceptInvitation, DeclineInvitation, RemoveMember, SetMember
<1>2. ASSUME NEW w \in Worker, WorkerStep(w) PROVE consented \subseteq consented'
  BY <1>2 DEF WorkerStep, StartParse, Stamp, Save, Saved
<1>3. ASSUME NEW c \in Caller, CallerStep(c) PROVE consented \subseteq consented'
  BY <1>3 DEF CallerStep, Enrol, Withdraw, SetVisibility, CreateOptin, SelectShared, EraseShared,
     WriteVisibility
<1>4. QED
  BY <1>1, <1>2, <1>3 DEF WorkspaceNext, CompleteReview

LEMMA NextShown ==
  WorkspaceInv /\ [WorkspaceNext]_workspaceVars => WidenedWasReviewed' /\ SharedByAMember'
<1> SUFFICES ASSUME WorkspaceInv, [WorkspaceNext]_workspaceVars
             PROVE  WidenedWasReviewed' /\ SharedByAMember'
  OBVIOUS
<1> USE WorkspaceAssumption, ConsentedGrows
    DEF WorkspaceInv, WorkspaceTypeOK, WidenedWasReviewed, SharedByAMember
<1>1. CASE UNCHANGED <<rows, slipped>> /\ vetted \subseteq vetted'
  BY <1>1
<1>2. ASSUME NEW w \in Worker, Save(w) PROVE WidenedWasReviewed' /\ SharedByAMember'
  <2>1. ASSUME NEW s \in Session, s \notin job[w].on
        PROVE  rows'[s] = rows[s] /\ (s \in vetted => s \in vetted') /\ (s \in slipped => s \in slipped')
    BY <1>2, <2>1 DEF Save, Saved
  <2>2. ASSUME NEW s \in Session, s \in job[w].on
        PROVE  /\ rows'[s].vis = job[w].team /\ rows'[s].clear = job[w].clear
               /\ job[w].said # Private => rows'[s].by = "bundle"
    BY <1>2, <2>2 DEF Save, ParsedRow
  <2>3. job[w].said = Private /\ job[w].team \in Team =>
          job[w].clear /\ \A s \in job[w].on : <<s, job[w].team>> \in consented
    BY <1>2 DEF Save, StampInv
  <2>4. UNCHANGED consented
    BY <1>2 DEF Save, Saved
  <2>5. QED
    BY <2>1, <2>2, <2>3, <2>4
<1>3. ASSUME NEW c \in Caller, EraseShared(c) PROVE WidenedWasReviewed' /\ SharedByAMember'
  <2>1. UNCHANGED <<vetted, consented, slipped>>
    BY <1>3 DEF EraseShared
  <2>2. \A s \in Session : rows'[s] = rows[s] \/ rows'[s].vis = Private
    BY <1>3 DEF EraseShared, Row
  <2>3. QED
    BY <2>1, <2>2
<1>4. ASSUME NEW c \in Caller, WriteVisibility(c) PROVE WidenedWasReviewed' /\ SharedByAMember'
  <2>1. UNCHANGED <<vetted, consented, slipped>>
    BY <1>4 DEF WriteVisibility
  <2>2. \A s \in Session \ args[c].on : rows'[s] = rows[s]
    BY <1>4 DEF WriteVisibility
  <2>3. \A s \in Session \cap args[c].on : rows'[s].vis = args[c].team /\ rows'[s].by = "hand"
    BY <1>4, HandWritten
  <2>4. args[c].team \in Team =>
          \A s \in args[c].on : <<s, args[c].team>> \in consented /\ (s \in vetted \/ s \in slipped)
    BY <1>4 DEF WriteVisibility, SettingInv
  <2>5. QED
    BY <2>1, <2>2, <2>3, <2>4
<1>5. QED
  BY <1>1, <1>2, <1>3, <1>4, RowsChangedBy

(* One request at a time.  Every step of the request in flight is then the  *)
(* only one that touches the consents, so what it read of them is still so. *)
AloneInv == EnrolInv /\ EraseInv /\ OneTeamOnly /\ OnlyTheOvertakenEscape

(* A parse moves no consent and no request, and what it saves before a team *)
(* without a consent was overtaken.                                         *)
LEMMA WorkersLeaveAlone ==
  ASSUME WorkspaceInv, AloneInv, NEW w \in Worker, WorkerStep(w)
  PROVE  AloneInv'
<1>1. UNCHANGED <<optins, doing, args, picked, withdrawn>>
  BY DEF WorkerStep, StartParse, Stamp, Save, Saved
<1>2. CASE UNCHANGED rows
  BY <1>1, <1>2 DEF AloneInv, EnrolInv, EraseInv, OneTeamOnly, OnlyTheOvertakenEscape, InScope
<1>3. CASE Save(w)
  <2> USE DEF WorkspaceInv, WorkspaceTypeOK
  <2>1. \A s \in Session \ job[w].on : rows'[s] = rows[s]
    BY <1>3 DEF Save
  <2>2. \A s \in Session \cap job[w].on :
           /\ rows'[s].vis = job[w].team /\ rows'[s].machine = job[w].machine
           /\ job[w].said # Private \/ w \in overtaken => rows'[s].by \in Escaping
    BY <1>3 DEF Save, ParsedRow, Escaping
  <2>3. job[w].team \in Team /\ (\A o \in optins : o.team # job[w].team) =>
          job[w].said # Private \/ w \in overtaken
    BY <1>3 DEF Save, StampInv
  <2>4. EraseInv'
    <3>1. SUFFICES ASSUME NEW c \in Caller, doing[c] = "erasing", \A o \in optins : o.team # args[c].team,
                          NEW s \in Session \ picked[c], rows'[s].vis = args[c].team, InScope(c, s)'
                   PROVE  rows'[s].by \in Escaping
      BY <1>1 DEF EraseInv, InScope
    <3>2. CASE s \in job[w].on
      BY <2>2, <2>3, <3>1, <3>2
    <3>3. CASE s \notin job[w].on
      BY <1>1, <2>1, <3>1, <3>3 DEF AloneInv, EraseInv, InScope
    <3>4. QED
      BY <3>2, <3>3
  <2>5. OnlyTheOvertakenEscape'
    <3>1. SUFFICES ASSUME NEW s \in Session, <<rows'[s].vis, rows'[s].machine>> \in withdrawn
                   PROVE  rows'[s].by \in Escaping
      BY <1>1 DEF OnlyTheOvertakenEscape
    <3>2. rows'[s].vis \in Team /\ \A o \in optins : o.team # rows'[s].vis
      BY <3>1 DEF WithdrawnInv
    <3>3. CASE s \in job[w].on
      BY <2>2, <2>3, <3>2, <3>3
    <3>4. CASE s \notin job[w].on
      BY <2>1, <3>1, <3>4 DEF AloneInv, OnlyTheOvertakenEscape
    <3>5. QED
      BY <3>3, <3>4
  <2>6. EnrolInv' /\ OneTeamOnly'
    BY <1>1 DEF AloneInv, EnrolInv, OneTeamOnly
  <2>7. QED
    BY <2>4, <2>5, <2>6 DEF AloneInv
<1>4. QED
  BY <1>2, <1>3 DEF WorkerStep, StartParse, Stamp

LEMMA NextAlone ==
  WorkspaceInv /\ OneAtATime /\ [WorkspaceNext]_workspaceVars => AloneInv'
<1> SUFFICES ASSUME WorkspaceInv, OneAtATime, [WorkspaceNext]_workspaceVars PROVE AloneInv'
  OBVIOUS
<1>a. AloneInv
  BY DEF WorkspaceInv, AloneInv
<1> USE WorkspaceAssumption, <1>a
<1>1. CASE UNCHANGED <<optins, rows, doing, args, picked, withdrawn>>
  BY <1>1 DEF AloneInv, EnrolInv, EraseInv, OneTeamOnly, OnlyTheOvertakenEscape, InScope
<1>2. ASSUME NEW c \in Caller, doing'[c] \notin {"enrolling", "erasing"},
             UNCHANGED <<rows, withdrawn>>, optins' \subseteq optins
      PROVE  AloneInv'
  BY <1>2 DEF OneAtATime, AloneInv, EnrolInv, EraseInv, OneTeamOnly, OnlyTheOvertakenEscape
<1>3. ASSUME NEW c \in Caller, NEW t \in Team, NEW m \in MachineScope, Enrol(c, t, m) PROVE AloneInv'
  <2>1. UNCHANGED <<optins, rows, withdrawn>>
    BY <1>3 DEF Enrol
  <2>2. CASE Enter(c, "idle", NoArgs)
    BY <1>2, <2>1, <2>2 DEF Enter, WorkspaceInv, WorkspaceTypeOK
  <2>3. CASE (\A o \in optins : o.team = t) /\ Enter(c, "enrolling", Args(t, m, {}))
    <3>1. doing'[c] = "enrolling" /\ args'[c].team = t
      BY <2>3 DEF Enter, Args, WorkspaceInv, WorkspaceTypeOK
    <3>2. EnrolInv' /\ EraseInv'
      BY <2>1, <2>3, <3>1 DEF OneAtATime, EnrolInv, EraseInv
    <3>3. QED
      BY <2>1, <3>2 DEF AloneInv, OneTeamOnly, OnlyTheOvertakenEscape
  <2>4. QED
    BY <1>3, <2>2, <2>3 DEF Enrol
<1>4. ASSUME NEW c \in Caller, NEW t \in Team, NEW m \in MachineScope, NEW past \in BOOLEAN,
             Withdraw(c, t, m, past)
      PROVE  AloneInv'
  <2>1. UNCHANGED <<rows, withdrawn>> /\ optins' \subseteq optins
    BY <1>4 DEF Withdraw
  <2>2. doing'[c] \in {"idle", "selecting"}
    BY <1>4 DEF Withdraw, Enter, WorkspaceInv, WorkspaceTypeOK
  <2>3. QED
    BY <1>2, <2>1, <2>2
<1>5. ASSUME NEW c \in Caller, NEW s \in Session, NEW v \in Visibility, SetVisibility(c, s, v)
      PROVE  AloneInv'
  <2>1. UNCHANGED <<rows, withdrawn, optins>>
    BY <1>5 DEF SetVisibility
  <2>2. doing'[c] = "setting"
    BY <1>5 DEF SetVisibility, Enter, WorkspaceInv, WorkspaceTypeOK
  <2>3. QED
    BY <1>2, <2>1, <2>2
<1>6. ASSUME NEW c \in Caller, CreateOptin(c) PROVE AloneInv'
  <2>1. doing'[c] = "idle" /\ UNCHANGED rows /\ withdrawn' \subseteq withdrawn
    BY <1>6 DEF CreateOptin, Done, WorkspaceInv, WorkspaceTypeOK
  <2>2. \A o \in optins' : o.team = args[c].team
    BY <1>6 DEF CreateOptin, AloneInv, EnrolInv
  <2>3. QED
    BY <2>1, <2>2 DEF OneAtATime, AloneInv, EnrolInv, EraseInv, OneTeamOnly, OnlyTheOvertakenEscape
<1>7. ASSUME NEW c \in Caller, SelectShared(c) PROVE AloneInv'
  <2>1. UNCHANGED <<rows, withdrawn, optins, args>> /\ doing'[c] = "erasing"
    BY <1>7 DEF SelectShared, WorkspaceInv, WorkspaceTypeOK
  <2>2. \A s \in Session \ picked'[c] : ~(rows[s].vis = args[c].team /\ InScope(c, s))
    BY <1>7 DEF SelectShared, WorkspaceInv, WorkspaceTypeOK
  <2>3. EnrolInv' /\ EraseInv'
    BY <2>1, <2>2 DEF OneAtATime, EnrolInv, EraseInv, InScope
  <2>4. QED
    BY <2>1, <2>3 DEF AloneInv, OneTeamOnly, OnlyTheOvertakenEscape
<1>8. ASSUME NEW c \in Caller, EraseShared(c) PROVE AloneInv'
  <2>1. doing'[c] = "idle" /\ UNCHANGED optins
    BY <1>8 DEF EraseShared, Done, WorkspaceInv, WorkspaceTypeOK
  <2>2. OnlyTheOvertakenEscape'
    <3>1. SUFFICES ASSUME NEW s \in Session, <<rows'[s].vis, rows'[s].machine>> \in withdrawn'
                   PROVE  rows'[s].by \in Escaping
      BY DEF OnlyTheOvertakenEscape
    <3>2. CASE s \in picked[c]
      <4>1. rows'[s].vis = Private
        BY <1>8, <3>2 DEF EraseShared, WorkspaceInv, WorkspaceTypeOK, Row
      <4>2. withdrawn' \subseteq Team \X (Machine \cup {Uploads})
        BY WorkspaceNextType DEF WorkspaceInv, WorkspaceTypeOK
      <4>3. QED
        BY <3>1, <4>1, <4>2
    <3>3. CASE s \notin picked[c]
      <4>1. rows'[s] = rows[s]
        BY <1>8, <3>3 DEF EraseShared
      <4>2. CASE <<rows[s].vis, rows[s].machine>> \in withdrawn
        BY <4>1, <4>2 DEF AloneInv, OnlyTheOvertakenEscape
      <4>3. CASE /\ \A o \in optins : o.team # args[c].team
                 /\ rows[s].vis = args[c].team
                 /\ args[c].machine \in {AnyMachine, rows[s].machine}
        BY <1>8, <3>3, <4>1, <4>3 DEF EraseShared, AloneInv, EraseInv, InScope
      <4>4. ASSUME <<rows[s].vis, rows[s].machine>> \notin withdrawn
            PROVE  /\ \A o \in optins : o.team # args[c].team
                   /\ rows[s].vis = args[c].team
                   /\ args[c].machine \in {AnyMachine, rows[s].machine}
        <5>1. /\ \A o \in optins : o.team # args[c].team
              /\ withdrawn' = withdrawn \cup ({args[c].team} \X
                                 (IF args[c].machine = AnyMachine THEN Machine \cup {Uploads}
                                  ELSE {args[c].machine}))
          <6>1. withdrawn' # withdrawn
            BY <3>1, <4>1, <4>4
          <6>2. QED
            BY <1>8, <6>1 DEF EraseShared
        <5>2. <<rows[s].vis, rows[s].machine>> \in {args[c].team} \X
                 (IF args[c].machine = AnyMachine THEN Machine \cup {Uploads} ELSE {args[c].machine})
          BY <3>1, <4>1, <4>4, <5>1
        <5>3. QED
          BY <5>1, <5>2
      <4>5. QED
        BY <4>2, <4>3, <4>4
    <3>4. QED
      BY <3>2, <3>3
  <2>3. QED
    BY <2>1, <2>2 DEF OneAtATime, AloneInv, EnrolInv, EraseInv, OneTeamOnly
<1>9. ASSUME NEW c \in Caller, WriteVisibility(c) PROVE AloneInv'
  <2>1. doing'[c] = "idle" /\ UNCHANGED <<optins, withdrawn>>
    BY <1>9 DEF WriteVisibility, Done, WorkspaceInv, WorkspaceTypeOK
  <2>2. \A s \in Session : rows'[s] = rows[s] \/ rows'[s].by = "hand"
    BY <1>9, HandWritten DEF WorkspaceInv
  <2>3. OnlyTheOvertakenEscape'
    BY <2>1, <2>2 DEF AloneInv, OnlyTheOvertakenEscape, Escaping
  <2>4. QED
    BY <2>1, <2>3 DEF OneAtATime, AloneInv, EnrolInv, EraseInv, OneTeamOnly
<1>10. QED
  <2>1. ASSUME NEW t \in Team, MemberStep(t) PROVE AloneInv'
    BY <2>1, <1>1 DEF MemberStep, Invite, AcceptInvitation, DeclineInvitation, RemoveMember, SetMember
  <2>2. ASSUME NEW c \in Caller, CallerStep(c) PROVE AloneInv'
    BY ONLY <2>2, <1>3, <1>4, <1>5, <1>6, <1>7, <1>8, <1>9 DEF CallerStep
  <2>3. QED
    BY <2>1, <2>2, <1>1, WorkersLeaveAlone DEF WorkspaceNext, CompleteReview

(* The inductive invariant of parses, enrolments, withdrawals and reviews:  *)
(* WorkspaceInv (resolveIngestTeam, store/postgres/team-optins.ts, teams.ts). *)
THEOREM WorkspaceSafe == WorkspaceSpec => []WorkspaceInv
<1>1. WorkspaceInv /\ [WorkspaceNext]_workspaceVars => WorkspaceInv'
  <2> SUFFICES ASSUME WorkspaceInv, [WorkspaceNext]_workspaceVars PROVE WorkspaceInv'
    OBVIOUS
  <2>1. WorkspaceTypeOK'
    BY WorkspaceNextType DEF WorkspaceInv
  <2>2. OneAtATime => AloneInv'
    BY NextAlone
  <2>3. OneAtATime' <=> OneAtATime
    BY DEF OneAtATime
  <2>4. QED
    BY <2>1, <2>2, <2>3, NextStamp, NextSetting, NextWithdrawn, NextShown DEF WorkspaceInv, AloneInv
<1>2. QED
  BY <1>1, WorkspaceInitInv, PTL DEF WorkspaceSpec

(* A session with findings that a team may read was reviewed as it is, or a *)
(* bundle put it there, or a save slipped between the check and the write   *)
(* of a change by hand (WidenedWasReviewed).                                *)
THEOREM NothingUnreadIsWidened == WorkspaceSpec => []WidenedWasReviewed
<1>1. WorkspaceInv => WidenedWasReviewed
  BY DEF WorkspaceInv
<1>2. QED
  BY <1>1, WorkspaceSafe, PTL

(* What a team sees was consented to by a member, or a bundle said so of    *)
(* its own sessions; and an account that sends one request at a time        *)
(* consents to one team and takes its sessions back with the consent        *)
(* (ConsentHolds).                                                          *)
THEOREM ConsentIsKept == WorkspaceSpec => []ConsentHolds
<1>1. WorkspaceInv => ConsentHolds
  BY DEF WorkspaceInv, ConsentHolds
<1>2. QED
  BY <1>1, WorkspaceSafe, PTL
=============================================================================
