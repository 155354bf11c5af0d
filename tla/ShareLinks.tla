------------------------------ MODULE ShareLinks ------------------------------
(***************************************************************************)
(* Share links over one session (server/src/sharing/sharing.service.ts,    *)
(* store/postgres/sharing.ts).  A link is two rows in two tables: the      *)
(* share_grants row the owner lists and revokes, in the owner's tenant,    *)
(* and the share_tokens row a bearer's token is looked up in, which no     *)
(* foreign key ties to the session.  saveShareGrant writes the first in a  *)
(* transaction of its own and then the second.                             *)
(*                                                                         *)
(* Every action is one statement or one transaction.                       *)
(***************************************************************************)
EXTENDS ReviewedSession

CONSTANTS
    Link,           \* share links, named by the id of their grant
    Bearer,         \* requests that present a token, in flight at once
    NoLink,         \* what an idle bearer presents
    MaxCrashes,     \* bound on the process deaths of a behaviour
    RevokeUnminted  \* may a link be revoked before its createLink has answered?

ASSUME LinkAssumption ==
    /\ NoLink \notin Link
    /\ MaxCrashes \in Nat
    /\ RevokeUnminted \in BOOLEAN

VARIABLES
    minting,   \* where createLink is
    grant,     \* share_grants.status
    token,     \* share_tokens.status
    revoking,  \* where a revoke request is
    cutOff,    \* links a revoke request has answered for
    expired,   \* links whose expiresAt has passed
    using,     \* what a bearer's request presents
    read,      \* the content it has read, Gone when none
    served,    \* links and content that left the tenant
    crashes    \* process deaths so far

bearerVars == <<using, read, served>>
vars == <<sessionVars, minting, grant, token, revoking, cutOff, expired, bearerVars, crashes>>

RowStatus == {"none", "active", "revoked"}

TypeOK ==
    /\ SessionTypeOK
    /\ minting \in [Link -> {"new", "checked", "granted", "done", "failed"}]
    /\ grant \in [Link -> RowStatus]
    /\ token \in [Link -> RowStatus]
    /\ revoking \in [Link -> {"idle", "found", "granted"}]
    /\ cutOff \subseteq Link
    /\ expired \subseteq Link
    /\ using \in [Bearer -> Link \cup {NoLink}]
    /\ read \in [Bearer -> Nat]
    /\ served \subseteq [link : Link, digest : Digest]
    /\ crashes \in Nat
    /\ \A b \in Bearer : read[b] # Gone => using[b] \in Link

Init ==
    /\ SessionInit
    /\ minting = [l \in Link |-> "new"]
    /\ grant = [l \in Link |-> "none"]
    /\ token = [l \in Link |-> "none"]
    /\ revoking = [l \in Link |-> "idle"]
    /\ cutOff = {}
    /\ expired = {}
    /\ using = [b \in Bearer |-> NoLink]
    /\ read = [b \in Bearer |-> Gone]
    /\ served = {}
    /\ crashes = 0

-----------------------------------------------------------------------------
(* createLink.                                                              *)

Mint(l, label) == minting' = [minting EXCEPT ![l] = label]

(* requireCurrentReview.                                                    *)
MintCheck(l) ==
    /\ minting[l] = "new"
    /\ IsReviewed(content)
    /\ Mint(l, "checked")
    /\ UNCHANGED <<sessionVars, grant, token, revoking, cutOff, expired, bearerVars, crashes>>

(* saveShareGrant, the first write; the row needs its session.              *)
MintGrant(l) ==
    /\ minting[l] = "checked"
    /\ IF content # Gone
       THEN Mint(l, "granted") /\ grant' = [grant EXCEPT ![l] = "active"]
       ELSE Mint(l, "failed") /\ UNCHANGED grant
    /\ UNCHANGED <<sessionVars, token, revoking, cutOff, expired, bearerVars, crashes>>

(* saveShareGrant, the second write, whatever the row says by now; then the *)
(* token is the owner's to hand on.                                         *)
MintToken(l) ==
    /\ minting[l] = "granted"
    /\ Mint(l, "done")
    /\ token' = [token EXCEPT ![l] = "active"]
    /\ UNCHANGED <<sessionVars, grant, revoking, cutOff, expired, bearerVars, crashes>>

(* The process dies, or the second write fails.                             *)
MintCrash(l) ==
    /\ minting[l] \in {"checked", "granted"}
    /\ crashes < MaxCrashes
    /\ crashes' = crashes + 1
    /\ Mint(l, "failed")
    /\ UNCHANGED <<sessionVars, grant, token, revoking, cutOff, expired, bearerVars>>

-----------------------------------------------------------------------------
(* revoke.                                                                  *)

Revoke(l, label) == revoking' = [revoking EXCEPT ![l] = label]

(* listShareGrants, find.                                                   *)
RevokeFind(l) ==
    /\ revoking[l] = "idle"
    /\ grant[l] # "none"
    /\ RevokeUnminted \/ minting[l] \in {"done", "failed"}
    /\ Revoke(l, "found")
    /\ UNCHANGED <<sessionVars, minting, grant, token, cutOff, expired, bearerVars, crashes>>

(* Mutant: only the row in the owner's tenant is written.                   *)
RevokeGrantOnly(l) ==
    /\ revoking[l] = "found"
    /\ Revoke(l, "idle")
    /\ grant' = IF content # Gone THEN [grant EXCEPT ![l] = "revoked"] ELSE grant
    /\ UNCHANGED <<sessionVars, minting, token, cutOff, expired, bearerVars, crashes>>

(* saveShareGrant, the first write: an upsert, so a row that was deleted    *)
(* meanwhile is written again, if its session is there.                     *)
RevokeGrant(l) ==
    /\ revoking[l] = "found"
    /\ IF content # Gone
       THEN Revoke(l, "granted") /\ grant' = [grant EXCEPT ![l] = "revoked"]
       ELSE Revoke(l, "idle") /\ UNCHANGED grant
    /\ UNCHANGED <<sessionVars, minting, token, cutOff, expired, bearerVars, crashes>>

(* saveShareGrant, the second write, and the answer.                        *)
RevokeToken(l) ==
    /\ revoking[l] = "granted"
    /\ Revoke(l, "idle")
    /\ token' = [token EXCEPT ![l] = "revoked"]
    /\ cutOff' = cutOff \cup {l}
    /\ UNCHANGED <<sessionVars, minting, grant, expired, bearerVars, crashes>>

(* The process dies, or the second write fails.                             *)
RevokeCrash(l) ==
    /\ revoking[l] # "idle"
    /\ crashes < MaxCrashes
    /\ crashes' = crashes + 1
    /\ Revoke(l, "idle")
    /\ UNCHANGED <<sessionVars, minting, grant, token, cutOff, expired, bearerVars>>

(* The link's expiry passes.                                                *)
Expire(l) ==
    /\ minting[l] = "done"
    /\ l \notin expired
    /\ expired' = expired \cup {l}
    /\ UNCHANGED <<sessionVars, minting, grant, token, revoking, cutOff, bearerVars, crashes>>

-----------------------------------------------------------------------------
(* resolveShareToken, and what consumeShare or importShare makes of it.     *)

(* Mutant: only the expiry is looked at.                                    *)
PresentUnchecked(b, l) ==
    /\ using[b] = NoLink
    /\ minting[l] = "done"
    /\ l \notin expired
    /\ using' = [using EXCEPT ![b] = l]
    /\ UNCHANGED <<sessionVars, minting, grant, token, revoking, cutOff, expired,
                   read, served, crashes>>

(* getShareGrantByTokenHash, and the status and expiry tests.               *)
Present(b, l) ==
    /\ using[b] = NoLink
    /\ minting[l] = "done"
    /\ token[l] = "active"
    /\ l \notin expired
    /\ using' = [using EXCEPT ![b] = l]
    /\ UNCHANGED <<sessionVars, minting, grant, token, revoking, cutOff, expired,
                   read, served, crashes>>

Finish(b) ==
    /\ using' = [using EXCEPT ![b] = NoLink]
    /\ read' = [read EXCEPT ![b] = Gone]

(* getSession, in the owner's tenant.                                       *)
ReadShared(b) ==
    /\ using[b] # NoLink
    /\ read[b] = Gone
    /\ IF content # Gone
       THEN read' = [read EXCEPT ![b] = content] /\ UNCHANGED using
       ELSE Finish(b)
    /\ UNCHANGED <<sessionVars, minting, grant, token, revoking, cutOff, expired,
                   served, crashes>>

(* Mutant: the review the link was minted under is taken to be enough.      *)
ServeUnreviewed(b) ==
    /\ read[b] # Gone
    /\ served' = served \cup {[link |-> using[b], digest |-> read[b]]}
    /\ Finish(b)
    /\ UNCHANGED <<sessionVars, minting, grant, token, revoking, cutOff, expired, crashes>>

(* getCurrentReview of what was read; then it is projected and leaves.      *)
Serve(b) ==
    /\ read[b] # Gone
    /\ served' = served \cup (IF IsReviewed(read[b])
                              THEN {[link |-> using[b], digest |-> read[b]]} ELSE {})
    /\ Finish(b)
    /\ UNCHANGED <<sessionVars, minting, grant, token, revoking, cutOff, expired, crashes>>

-----------------------------------------------------------------------------
OwnerStep ==
    /\ SessionStep
    /\ UNCHANGED <<minting, grant, token, revoking, cutOff, expired, bearerVars, crashes>>

(* The grants go with the session; the tokens stay.                         *)
DeleteSession ==
    /\ DeleteRow
    /\ grant' = [l \in Link |-> "none"]
    /\ UNCHANGED <<minting, token, revoking, cutOff, expired, bearerVars, crashes>>

LinkStep(l) ==
    \/ MintCheck(l) \/ MintGrant(l) \/ MintToken(l) \/ MintCrash(l)
    \/ RevokeFind(l) \/ RevokeGrant(l) \/ RevokeToken(l) \/ RevokeCrash(l)
    \/ Expire(l)

BearerStep(b) ==
    \/ \E l \in Link : Present(b, l)
    \/ ReadShared(b)
    \/ Serve(b)

Next ==
    \/ OwnerStep
    \/ DeleteSession
    \/ \E l \in Link : LinkStep(l)
    \/ \E b \in Bearer : BearerStep(b)

Spec == Init /\ [][Next]_vars

-----------------------------------------------------------------------------
(* Properties.                                                              *)

Quiet(l) == revoking[l] = "idle" /\ minting[l] \in {"new", "done", "failed"}

(* Whatever the transcript did after the link was minted, what a bearer is  *)
(* served is content a review was completed for (resolveShareToken).        *)
ServedWasReviewed == \A s \in served : s.digest \in reviewed

(* Once a revocation has answered, no later request can present the link:   *)
(* "Revoking a grant blocks future access".                                 *)
RevokedIsCutOff == \A l \in cutOff : token[l] = "revoked"

(* A link the owner's list calls revoked cannot be presented, once no       *)
(* request on it is in flight.                                              *)
ListedRevokedIsCutOff ==
    \A l \in Link : Quiet(l) /\ grant[l] = "revoked" => token[l] = "revoked"

(* A link that can be presented, over a session that would be served, is on *)
(* the owner's list: "Every link you have minted, its permission and        *)
(* expiry".                                                                 *)
LiveLinkIsListed ==
    \A l \in Link :
        Quiet(l) /\ token[l] = "active" /\ IsReviewed(content) => grant[l] = "active"

(* As long as no process died and the session was not deleted, the owner's  *)
(* list can be believed both ways: what it calls revoked is cut off, and    *)
(* what can be presented is on it (saveShareGrant, listShareGrants).        *)
UndisturbedListIsTrue ==
    crashes = 0 /\ deletes = 0 => ListedRevokedIsCutOff /\ LiveLinkIsListed

(* The inductive invariant.  A review row is of content the history names.  *)
LinkInv == TypeOK /\ reviews \subseteq reviewed /\ ServedWasReviewed

(* Where a link is revoked only after its createLink has answered, no write *)
(* of createLink is still to come for a link that is being revoked, or was. *)
CutInv ==
    \A l \in Link :
        /\ revoking[l] # "idle" \/ token[l] = "revoked" => minting[l] \in {"done", "failed"}
        /\ l \in cutOff => token[l] = "revoked"

(* Where nobody died and nothing was deleted, the two rows of a link move   *)
(* together but for the moment between the two writes of a request.         *)
RowsInStep(l) ==
    CASE minting[l] \in {"new", "checked"} ->
             grant[l] = "none" /\ token[l] = "none" /\ revoking[l] = "idle"
      [] minting[l] = "granted" ->
             grant[l] = "active" /\ token[l] = "none" /\ revoking[l] = "idle"
      [] minting[l] = "done" ->
             IF revoking[l] = "granted" THEN grant[l] = "revoked" /\ token[l] # "none"
             ELSE grant[l] = token[l] /\ grant[l] # "none"
      [] OTHER -> FALSE

UndisturbedInv ==
    /\ deletes = 0 => content # Gone
    /\ crashes = 0 /\ deletes = 0 => \A l \in Link : RowsInStep(l)

(* A token row is never undone by anything but a revocation, and never      *)
(* leaves "revoked" again: "there is no path back to active".               *)
NoPathBack == [][\A l \in Link : token[l] = "revoked" => token'[l] = "revoked"]_vars

(* A request that comes to a link after its revocation answered gets        *)
(* nothing: only one that had presented it before is still served.          *)
CutOffServesNobodyNew ==
    [][\A b \in Bearer : using'[b] \in cutOff => using[b] = using'[b]]_vars
=============================================================================
