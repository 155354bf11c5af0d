------------------------------ MODULE Transfers ------------------------------
(***************************************************************************)
(* Direct transfers of one session (server/src/sharing/sharing.service.ts, *)
(* store/postgres/sharing.ts): the sender's row in transfers, the offer in *)
(* transfer_offers that the recipient answers, and the copies that land in *)
(* the recipient's tenant.                                                 *)
(*                                                                         *)
(* Every action is one statement or one transaction.  A request keeps its  *)
(* position in the process that serves it and loses it when that process   *)
(* dies.                                                                   *)
(***************************************************************************)
EXTENDS ReviewedSession

CONSTANTS
    Transfer,     \* transfer ids
    Request,      \* requests the recipient's account has in flight at once
    NoTransfer,   \* what an idle request works on
    MaxCrashes,   \* bound on the process deaths of a behaviour
    MaxFailures,  \* bound on the statements that fail in a behaviour
    LostCommits   \* may the copy be committed and its answer lost?

ASSUME TransferAssumption ==
    /\ NoTransfer \notin Transfer
    /\ MaxCrashes \in Nat /\ MaxFailures \in Nat
    /\ LostCommits \in BOOLEAN

VARIABLES
    asked,    \* where the sender's requestTransfer for this id is
    sent,     \* transfers.status, in the sender's tenant
    offer,    \* transfer_offers.status
    copies,   \* sessions saved in the recipient's tenant for this transfer
    at,       \* where a request is
    on,       \* the transfer a request answers
    read,     \* the content an accept has read, Gone when none
    cut,      \* transfers of which an answer broke off after it had moved the offer
    crashes,  \* process deaths so far
    failures  \* statements that failed so far

answerVars == <<at, on, read, cut>>
vars == <<sessionVars, asked, sent, offer, copies, answerVars, crashes, failures>>

Status == {"none", "pending", "accepted", "declined"}
AskedPC == {"new", "checked", "recorded", "done", "failed"}
RequestPC == {"idle", "accepting", "claimed", "read", "checked", "copied", "undo",
              "declining", "declined"}

TypeOK ==
    /\ SessionTypeOK
    /\ asked \in [Transfer -> AskedPC]
    /\ sent \in [Transfer -> Status]
    /\ offer \in [Transfer -> Status]
    /\ copies \in [Transfer -> SUBSET [by : Request, digest : Digest]]
    /\ at \in [Request -> RequestPC]
    /\ on \in [Request -> Transfer \cup {NoTransfer}]
    /\ read \in [Request -> Nat]
    /\ cut \subseteq Transfer
    /\ crashes \in Nat /\ failures \in Nat
    /\ \A r \in Request : at[r] # "idle" => on[r] \in Transfer

Init ==
    /\ SessionInit
    /\ asked = [t \in Transfer |-> "new"]
    /\ sent = [t \in Transfer |-> "none"]
    /\ offer = [t \in Transfer |-> "none"]
    /\ copies = [t \in Transfer |-> {}]
    /\ at = [r \in Request |-> "idle"]
    /\ on = [r \in Request |-> NoTransfer]
    /\ read = [r \in Request |-> Gone]
    /\ cut = {}
    /\ crashes = 0
    /\ failures = 0

-----------------------------------------------------------------------------
(* A request goes no further because its process died, or because the       *)
(* statement it waits for failed.                                           *)

Dies == crashes < MaxCrashes /\ crashes' = crashes + 1 /\ UNCHANGED failures

Throws == failures < MaxFailures /\ failures' = failures + 1 /\ UNCHANGED crashes

-----------------------------------------------------------------------------
(* requestTransfer.                                                         *)

AskGoto(t, label) == asked' = [asked EXCEPT ![t] = label]

(* requireCurrentReview.                                                    *)
AskCheck(t) ==
    /\ asked[t] = "new"
    /\ IsReviewed(content)
    /\ AskGoto(t, "checked")
    /\ UNCHANGED <<sessionVars, sent, offer, copies, answerVars, crashes, failures>>

(* saveTransfer; the row needs its session.                                 *)
AskRecord(t) ==
    /\ asked[t] = "checked"
    /\ IF content # Gone
       THEN AskGoto(t, "recorded") /\ sent' = [sent EXCEPT ![t] = "pending"]
       ELSE AskGoto(t, "failed") /\ UNCHANGED sent
    /\ UNCHANGED <<sessionVars, offer, copies, answerVars, crashes, failures>>

(* createTransferOffer.                                                     *)
AskOffer(t) ==
    /\ asked[t] = "recorded"
    /\ AskGoto(t, "done")
    /\ offer' = [offer EXCEPT ![t] = "pending"]
    /\ UNCHANGED <<sessionVars, sent, copies, answerVars, crashes, failures>>

(* Asking stops halfway: the sender's row may be left without an offer.     *)
AskBreaksOff(t) ==
    /\ asked[t] \in {"checked", "recorded"}
    /\ Dies \/ Throws
    /\ AskGoto(t, "failed")
    /\ UNCHANGED <<sessionVars, sent, offer, copies, answerVars>>

-----------------------------------------------------------------------------
(* The recipient's answer.                                                  *)

Goto(r, label) == at' = [at EXCEPT ![r] = label]

Leave(r) ==
    /\ Goto(r, "idle")
    /\ on' = [on EXCEPT ![r] = NoTransfer]
    /\ read' = [read EXCEPT ![r] = Gone]

(* Both answers begin by finding the offer pending, and addressed to the    *)
(* caller.  They go on from what they found.                                *)
Find(r, t, label) ==
    /\ at[r] = "idle"
    /\ offer[t] = "pending"
    /\ Goto(r, label)
    /\ on' = [on EXCEPT ![r] = t]
    /\ UNCHANGED <<sessionVars, asked, sent, offer, copies, read, cut, crashes, failures>>

(* Mutant: the update does not ask for a pending row.                       *)
AnswerUnchecked(r, status, label) ==
    /\ offer' = [offer EXCEPT ![on[r]] = status]
    /\ Goto(r, label)
    /\ UNCHANGED <<sessionVars, asked, sent, copies, on, read, cut, crashes, failures>>

(* UPDATE transfer_offers SET status WHERE status = 'pending': the answer   *)
(* is this request's when a row was changed, and an error otherwise.        *)
Answer(r, status, label) ==
    /\ IF offer[on[r]] = "pending"
       THEN /\ offer' = [offer EXCEPT ![on[r]] = status]
            /\ Goto(r, label)
            /\ UNCHANGED <<on, read>>
       ELSE UNCHANGED offer /\ Leave(r)
    /\ UNCHANGED <<sessionVars, asked, sent, copies, cut, crashes, failures>>

Claim(r) == at[r] = "accepting" /\ Answer(r, "accepted", "claimed")

Decline(r) == at[r] = "declining" /\ Answer(r, "declined", "declined")

(* getSession in the sender's tenant; no session is an error.               *)
ReadSource(r) ==
    /\ at[r] = "claimed"
    /\ Goto(r, IF content = Gone THEN "undo" ELSE "read")
    /\ read' = [read EXCEPT ![r] = content]
    /\ UNCHANGED <<sessionVars, asked, sent, offer, copies, on, cut, crashes, failures>>

(* Mutant: the review that allowed the offer is taken to allow the copy.    *)
CheckReviewOnce(r) ==
    /\ at[r] = "read"
    /\ Goto(r, "checked")
    /\ UNCHANGED <<sessionVars, asked, sent, offer, copies, on, read, cut, crashes, failures>>

(* getCurrentReview of what was read.                                       *)
CheckReview(r) ==
    /\ at[r] = "read"
    /\ Goto(r, IF IsReviewed(read[r]) THEN "checked" ELSE "undo")
    /\ UNCHANGED <<sessionVars, asked, sent, offer, copies, on, read, cut, crashes, failures>>

(* saveSession of the copy, under a fresh id, in the recipient's tenant.    *)
SaveCopy(r) ==
    /\ at[r] = "checked"
    /\ copies' = [copies EXCEPT ![on[r]] = @ \cup {[by |-> r, digest |-> read[r]]}]
    /\ Goto(r, "copied")
    /\ UNCHANGED <<sessionVars, asked, sent, offer, on, read, cut, crashes, failures>>

(* One of the calls of the try block throws.  A failed save was rolled      *)
(* back, or it was committed and the answer to COMMIT never came.           *)
CopyFails(r) ==
    /\ at[r] \in {"claimed", "read", "checked"}
    /\ failures < MaxFailures
    /\ failures' = failures + 1
    /\ \/ UNCHANGED copies
       \/ /\ LostCommits /\ at[r] = "checked"
          /\ copies' = [copies EXCEPT ![on[r]] = @ \cup {[by |-> r, digest |-> read[r]]}]
    /\ Goto(r, "undo")
    /\ UNCHANGED <<sessionVars, asked, sent, offer, on, read, cut, crashes>>

(* Mutant: the catch block only rethrows.                                   *)
UndoForgotten(r) ==
    /\ at[r] = "undo"
    /\ Leave(r)
    /\ UNCHANGED <<sessionVars, asked, sent, offer, copies, cut, crashes, failures>>

(* The catch block: back to pending, if still accepted.  It is an UPDATE    *)
(* too, which BreaksOff lets fail.                                          *)
Undo(r) ==
    /\ at[r] = "undo"
    /\ offer' = IF offer[on[r]] = "accepted"
                THEN [offer EXCEPT ![on[r]] = "pending"] ELSE offer
    /\ Leave(r)
    /\ UNCHANGED <<sessionVars, asked, sent, copies, cut, crashes, failures>>

(* Mutant: a refusal moves the offer and not the sender's row.              *)
TellSenderAcceptance(r) ==
    /\ at[r] \in {"copied", "declined"}
    /\ sent' = IF at[r] = "declined" \/ sent[on[r]] = "none" THEN sent
               ELSE [sent EXCEPT ![on[r]] = "accepted"]
    /\ Leave(r)
    /\ UNCHANGED <<sessionVars, asked, offer, copies, cut, crashes, failures>>

(* UPDATE transfers, in the sender's tenant: no row, no error.              *)
TellSender(r) ==
    /\ at[r] \in {"copied", "declined"}
    /\ sent' = IF sent[on[r]] = "none" THEN sent
               ELSE [sent EXCEPT ![on[r]] = IF at[r] = "copied" THEN "accepted" ELSE "declined"]
    /\ Leave(r)
    /\ UNCHANGED <<sessionVars, asked, offer, copies, cut, crashes, failures>>

(* The answer breaks off: its process dies, or a statement outside the try  *)
(* block fails, the UPDATE of the catch block and the one that tells the    *)
(* sender among them.  The UPDATE that answers may have been applied when   *)
(* it fails.                                                                *)
BreaksOff(r) ==
    /\ at[r] # "idle"
    /\ Dies \/ (Throws /\ at[r] \notin {"claimed", "read", "checked"})
    /\ \/ /\ cut' = IF at[r] \in {"accepting", "declining"} THEN cut ELSE cut \cup {on[r]}
          /\ UNCHANGED offer
       \/ /\ at[r] \in {"accepting", "declining"} /\ offer[on[r]] = "pending"
          /\ offer' = [offer EXCEPT ![on[r]] = IF at[r] = "accepting" THEN "accepted"
                                               ELSE "declined"]
          /\ cut' = cut \cup {on[r]}
    /\ Leave(r)
    /\ UNCHANGED <<sessionVars, asked, sent, copies>>

-----------------------------------------------------------------------------
(* The session's own steps.  The sender's transfers rows go with it; the    *)
(* offers, which other tenants must be able to read, hold no foreign key.   *)
SenderStep ==
    /\ SessionStep
    /\ UNCHANGED <<asked, sent, offer, copies, answerVars, crashes, failures>>

DeleteSession ==
    /\ DeleteRow
    /\ sent' = [t \in Transfer |-> "none"]
    /\ UNCHANGED <<asked, offer, copies, answerVars, crashes, failures>>

AskStep(t) == AskCheck(t) \/ AskRecord(t) \/ AskOffer(t) \/ AskBreaksOff(t)

Progress(r) ==
    \/ Claim(r) \/ ReadSource(r) \/ CheckReview(r) \/ SaveCopy(r) \/ CopyFails(r)
    \/ Undo(r) \/ Decline(r) \/ TellSender(r)

AnswerStep(r) ==
    \/ \E t \in Transfer : Find(r, t, "accepting") \/ Find(r, t, "declining")
    \/ Progress(r)
    \/ BreaksOff(r)

Next ==
    \/ SenderStep
    \/ DeleteSession
    \/ \E t \in Transfer : AskStep(t)
    \/ \E r \in Request : AnswerStep(r)

Spec == Init /\ [][Next]_vars

(* A request that runs goes on running; nobody has to send one.             *)
FairSpec == Spec /\ \A r \in Request : WF_vars(Progress(r))
-----------------------------------------------------------------------------
(* What is claimed of direct transfers (Transfers).                        *)

(* Two clicks on Accept, a retry after a slow answer, a decline in between: *)
(* the recipient never ends up with two copies of one transfer              *)
(* (acceptTransferOffer, "a second accept would hand them a second copy").  *)
AtMostOneCopy == \A t \in Transfer : \A c, d \in copies[t] : c = d

(* Even when the answer to COMMIT is lost, a second copy is only ever the   *)
(* trace of an accept that failed after its copy was made.                  *)
CopiesAreExplained == \A t \in Transfer : Cardinality(copies[t]) <= failures + 1

(* Whatever the transcript did between the offer and its acceptance, what   *)
(* crossed the tenant boundary is content a review was completed for.       *)
CopyWasReviewed == \A t \in Transfer : \A c \in copies[t] : c.digest \in reviewed

(* A recipient never holds a session of a transfer they turned down         *)
(* (declineTransferOffer, "Nothing is copied").                             *)
RefusedNeverHeld == \A t \in Transfer : offer[t] = "declined" => copies[t] = {}

Answering(t) == \E r \in Request : on[r] = t

(* When no request is at work on it, a copy that was made belongs to an     *)
(* offer that is accepted, and an offer is accepted only where the copy     *)
(* exists, whatever failed on the way: it is not "spent on a copy that      *)
(* never happened" (acceptTransferOffer).  The one exception is an accept   *)
(* that broke off itself, its process dead or its last UPDATE failed: the   *)
(* catch block has no second catch block.                                   *)
SpentOnlyOnACopy ==
    \A t \in Transfer :
        ~Answering(t) =>
            /\ copies[t] # {} => offer[t] = "accepted"
            /\ offer[t] = "accepted" => copies[t] # {} \/ t \in cut

(* When no request is at work on it, the sender's list says of a transfer   *)
(* what the offer says, so that it does not show as "awaiting an answer     *)
(* that will never come" (declineTransferOffer) ... except where the answer *)
(* broke off before the sender was told; the list then still says pending   *)
(* and never the opposite of what the recipient answered.                   *)
SenderIsTold ==
    \A t \in Transfer :
        ~Answering(t) /\ offer[t] # "none" /\ sent[t] # "none" =>
            sent[t] = offer[t] \/ (t \in cut /\ sent[t] = "pending")

(* What both sides of a transfer are left with, whichever answers race,        *)
(* whichever statements fail and whichever processes die                       *)
(* (answerTransferOffer).                                                      *)
AnswersAreTrue == SpentOnlyOnACopy /\ SenderIsTold

(* A claimed offer does not stay claimed for nothing: the copy is made, or  *)
(* the offer can be answered again, unless the accept that claimed it broke *)
(* off: its process died, or the UPDATE that claimed it or gives it back    *)
(* failed (acceptTransferOffer, the catch block).                           *)
ClaimIsHonoured ==
    \A t \in Transfer :
        offer[t] = "accepted" ~> (copies[t] # {} \/ offer[t] = "pending" \/ t \in cut)

(* The inductive invariant, in two parts.  The first holds whatever the      *)
(* database does: what an accept goes on to copy was reviewed, because a    *)
(* review read is a review that was stored.                                 *)
ReadWasReviewed ==
    /\ reviews \subseteq reviewed
    /\ \A r \in Request : at[r] = "checked" => read[r] \in reviewed

VettedInv == TypeOK /\ ReadWasReviewed /\ CopyWasReviewed

(* An offer is not answered before it is made.                              *)
OfferedInTurn ==
    \A t \in Transfer : asked[t] \in {"new", "checked", "recorded"} => offer[t] = "none"

Working == {"claimed", "read", "checked", "undo"}

(* An accept at work holds its offer alone, and nothing has been copied.    *)
ClaimHeldAlone ==
    \A r \in Request :
        at[r] \in Working =>
            /\ offer[on[r]] = "accepted"
            /\ copies[on[r]] = {}
            /\ \A q \in Request : at[q] \in Working /\ on[q] = on[r] => q = r

(* A copy is of an offer that stays accepted.                               *)
HeldWasAccepted == \A t \in Transfer : offer[t] # "accepted" => copies[t] = {}

(* The second part, where a failed save was rolled back: the compare-and-   *)
(* swap makes one accept the accepting one, from claim to copy or undo.     *)
ClaimInv == OfferedInTurn /\ ClaimHeldAlone /\ HeldWasAccepted /\ AtMostOneCopy

(* What an answer in flight, or given, has made of the sender's row.  While  *)
(* an accept is at work nothing was told; what was left untold is still     *)
(* being told by the request that answered, unless that broke off.          *)
ToldInv ==
    /\ \A r \in Request :
          /\ at[r] = "copied" => copies[on[r]] # {}
          /\ at[r] = "declined" => offer[on[r]] = "declined"
          /\ at[r] \in Working => sent[on[r]] \in {"none", "pending"}
    /\ \A t \in Transfer : offer[t] \in {"none", "pending"} => sent[t] \in {"none", "pending"}
    /\ \A t \in Transfer :
          /\ offer[t] = "accepted" =>
                /\ sent[t] # "declined"
                /\ \/ t \in cut
                   \/ \E r \in Request : at[r] \in Working /\ on[r] = t
                   \/ /\ copies[t] # {}
                      /\ \/ sent[t] \in {"none", "accepted"}
                         \/ \E r \in Request : at[r] = "copied" /\ on[r] = t
          /\ offer[t] = "declined" =>
                /\ sent[t] # "accepted"
                /\ \/ t \in cut
                   \/ sent[t] \in {"none", "declined"}
                   \/ \E r \in Request : at[r] = "declined" /\ on[r] = t

(* With lost commits the copies no longer say who is at work, but one       *)
(* accept at a time still is ...                                            *)
WorksAlone ==
    \A r \in Request :
        at[r] \in Working =>
            /\ offer[on[r]] = "accepted"
            /\ \A q \in Request : at[q] \in Working /\ on[q] = on[r] => q = r

(* ... and while the transfer is open or an accept is at work, every copy    *)
(* made so far was made by an accept that failed.                           *)
ExplainedInv ==
    /\ OfferedInTurn
    /\ WorksAlone
    /\ \A t \in Transfer :
          /\ IsFiniteSet(copies[t])
          /\ Cardinality(copies[t]) <= failures + 1
          /\ offer[t] # "accepted" \/ (\E r \in Request : at[r] \in Working /\ on[r] = t) =>
                Cardinality(copies[t]) <= failures

(* Transfers keeps TransferPromise.                                         *)
Promise == INSTANCE TransferPromise WITH
    Transfer <- Transfer,
    held <- [t \in Transfer |-> {c.digest : c \in copies[t]}],
    refused <- {t \in Transfer : offer[t] = "declined"},
    vetted <- reviewed

TransferKept == Promise!Spec
=============================================================================
