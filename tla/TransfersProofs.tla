--------------------------- MODULE TransfersProofs ---------------------------
(***************************************************************************)
(* Theorems about Transfers for every set of transfers and requests and    *)
(* every bound.                                                            *)
(***************************************************************************)
EXTENDS Transfers, ReviewedSessionProofs, FiniteSetTheorems, TLAPS

USE DEF sessionVars, answerVars, vars

-----------------------------------------------------------------------------
(* Every step is one of the session's as far as the session is concerned.   *)
LEMMA StepOfSession ==
  ASSUME [Next]_vars
  PROVE  SessionStep \/ DeleteRow \/ UNCHANGED sessionVars
  BY DEF Next, SenderStep, DeleteSession, AskStep, AskCheck, AskRecord, AskOffer, AskBreaksOff,
         AnswerStep, Find, Progress, Claim, Decline, Answer, ReadSource, CheckReview,
         SaveCopy, CopyFails, Undo, TellSender, BreaksOff

(* What a break leaves: the request gone, the offer as it was or answered,  *)
(* and, where the answer had moved the offer, the transfer cut.             *)
LEMMA Breaking ==
  ASSUME TypeOK, NEW r \in Request, BreaksOff(r)
  PROVE  /\ at[r] # "idle" /\ on[r] \in Transfer
         /\ Leave(r) /\ UNCHANGED <<sessionVars, asked, sent, copies>>
         /\ crashes' \in Nat /\ failures' \in Nat /\ failures' >= failures
         /\ cut \subseteq cut' /\ cut' \subseteq Transfer
         /\ \/ UNCHANGED offer /\ (at[r] \notin {"accepting", "declining"} => on[r] \in cut')
            \/ /\ at[r] \in {"accepting", "declining"} /\ offer[on[r]] = "pending"
               /\ on[r] \in cut'
               /\ \/ offer' = [offer EXCEPT ![on[r]] = "accepted"]
                  \/ offer' = [offer EXCEPT ![on[r]] = "declined"]
<1>1. /\ at[r] # "idle" /\ on[r] \in Transfer
      /\ Leave(r) /\ UNCHANGED <<sessionVars, asked, sent, copies>>
      /\ Dies \/ Throws
  BY DEF BreaksOff, TypeOK
<1>2. crashes' \in Nat /\ failures' \in Nat /\ failures' >= failures
  BY <1>1 DEF Dies, Throws, TypeOK
<1>3. QED
  BY <1>1, <1>2 DEF BreaksOff, TypeOK

LEMMA VettedInit == Init => VettedInv
  BY DEF Init, SessionInit, VettedInv, TypeOK, SessionTypeOK, ReadWasReviewed,
         CopyWasReviewed, AskedPC, Status, RequestPC, Digest, Gone

LEMMA VettedStep == VettedInv /\ [Next]_vars => VettedInv'
<1> SUFFICES ASSUME VettedInv, [Next]_vars PROVE VettedInv'
  OBVIOUS
<1> USE DEF VettedInv
<1>s. SessionTypeOK' /\ reviewed \subseteq reviewed' /\ (reviews \subseteq reviewed)'
  BY SessionStepType, SessionStepReviews, StepOfSession DEF TypeOK, ReadWasReviewed
<1>1. CASE SenderStep
  BY <1>1, <1>s DEF SenderStep, TypeOK, ReadWasReviewed, CopyWasReviewed
<1>2. CASE DeleteSession
  BY <1>2, <1>s DEF DeleteSession, TypeOK, Status, ReadWasReviewed, CopyWasReviewed
<1>3. ASSUME NEW t \in Transfer, AskStep(t) PROVE VettedInv'
  BY <1>3, <1>s DEF AskStep, AskCheck, AskRecord, AskOffer, AskBreaksOff, Dies, Throws, AskGoto, TypeOK,
     AskedPC, Status, ReadWasReviewed, CopyWasReviewed
<1>4. ASSUME NEW r \in Request, AnswerStep(r) PROVE VettedInv'
  <2> USE DEF Goto, Leave, Gone, TypeOK, RequestPC, Status, ReadWasReviewed, CopyWasReviewed
  <2>1. ASSUME NEW t \in Transfer, Find(r, t, "accepting") \/ Find(r, t, "declining")
        PROVE  VettedInv'
    BY <2>1, <1>s DEF Find
  <2>2. CASE Claim(r) \/ Decline(r)
    BY <2>2, <1>s DEF Claim, Decline, Answer
  <2>3. CASE ReadSource(r)
    BY <2>3, <1>s DEF ReadSource, SessionTypeOK
  <2>4. CASE CheckReview(r)
    BY <2>4, <1>s DEF CheckReview, IsReviewed
  <2>5. CASE SaveCopy(r)
    BY <2>5, <1>s DEF SaveCopy, SessionTypeOK
  <2>6. CASE CopyFails(r)
    BY <2>6, <1>s DEF CopyFails, SessionTypeOK
  <2>7. CASE Undo(r)
    BY <2>7, <1>s DEF Undo
  <2>8. CASE TellSender(r)
    BY <2>8, <1>s DEF TellSender
  <2>9. CASE BreaksOff(r)
    BY <2>9, <1>s, Breaking
  <2>10. QED
    BY <1>4, <2>1, <2>2, <2>3, <2>4, <2>5, <2>6, <2>7, <2>8, <2>9 DEF AnswerStep, Progress
<1>5. CASE UNCHANGED vars
  BY <1>5, <1>s DEF TypeOK, ReadWasReviewed, CopyWasReviewed
<1>6. QED
  BY <1>1, <1>2, <1>3, <1>4, <1>5 DEF Next

(* The first part of the invariant, with lost commits or without.           *)
THEOREM ReviewedBeforeCopied == Spec => []VettedInv
<1>1. QED
  BY VettedInit, VettedStep, PTL DEF Spec

(* The state is well typed (TypeOK).                                        *)
THEOREM TypeCorrect == Spec => []TypeOK
  BY ReviewedBeforeCopied, PTL DEF VettedInv

(* Nothing crosses the tenant boundary that no review was completed for     *)
(* (acceptTransferOffer, getCurrentReview), with lost commits too.          *)
THEOREM OnlyReviewedCrosses == Spec => []CopyWasReviewed
  BY ReviewedBeforeCopied, PTL DEF VettedInv

-----------------------------------------------------------------------------
(* Where a failed save was rolled back.                                     *)

LEMMA ClaimInit == Init => ClaimInv
  BY DEF Init, ClaimInv, OfferedInTurn, ClaimHeldAlone, Working, HeldWasAccepted, AtMostOneCopy

(* A step that leaves the offers and the copies alone, and takes no request *)
(* to work that was not at work on the same transfer.                       *)
LEMMA QuietClaim ==
  ASSUME ClaimInv, UNCHANGED <<offer, copies>>, OfferedInTurn',
         \A r \in Request : at'[r] \in Working => at[r] \in Working /\ on'[r] = on[r]
  PROVE  ClaimInv'
  BY DEF ClaimInv, ClaimHeldAlone, HeldWasAccepted, AtMostOneCopy

LEMMA ClaimStep ==
  ASSUME ~LostCommits, VettedInv, ClaimInv, [Next]_vars
  PROVE  ClaimInv'
<1> USE DEF VettedInv
<1>1. CASE SenderStep \/ DeleteSession \/ UNCHANGED vars
  BY <1>1, QuietClaim DEF SenderStep, DeleteSession, ClaimInv, OfferedInTurn
<1>2. ASSUME NEW t \in Transfer, AskStep(t) PROVE ClaimInv'
  <2>1. CASE AskCheck(t) \/ AskRecord(t) \/ AskBreaksOff(t)
    <3>1. OfferedInTurn'
      BY <2>1 DEF AskCheck, AskRecord, AskBreaksOff, AskGoto, TypeOK, ClaimInv, OfferedInTurn
    <3>2. UNCHANGED <<offer, copies, at, on>>
      BY <2>1 DEF AskCheck, AskRecord, AskBreaksOff
    <3>3. QED
      BY <3>1, <3>2, QuietClaim
  <2>2. CASE AskOffer(t)
    <3>1. offer[t] = "none" /\ copies[t] = {}
      BY <2>2 DEF AskOffer, ClaimInv, OfferedInTurn, HeldWasAccepted
    <3>2. QED
      BY <2>2, <3>1 DEF AskOffer, AskGoto, TypeOK, ClaimInv, OfferedInTurn, ClaimHeldAlone,
         Working, HeldWasAccepted, AtMostOneCopy
  <2>3. QED
    BY <1>2, <2>1, <2>2 DEF AskStep
<1>3. ASSUME NEW r \in Request, AnswerStep(r) PROVE ClaimInv'
  <2> USE DEF Goto, Leave, TypeOK
  <2>1. ASSUME NEW t \in Transfer, Find(r, t, "accepting") \/ Find(r, t, "declining")
        PROVE  ClaimInv'
    BY <2>1, QuietClaim DEF Find, Working, ClaimInv, OfferedInTurn
  <2>2. CASE Claim(r)
    <3>1. CASE offer[on[r]] = "pending"
      <4>1. on[r] \in Transfer /\ copies[on[r]] = {}
        BY <2>2, <3>1 DEF Claim, ClaimInv, HeldWasAccepted
      <4>2. \A q \in Request : at[q] \in Working => on[q] # on[r]
        BY <3>1 DEF ClaimInv, ClaimHeldAlone
      <4>3. /\ offer' = [offer EXCEPT ![on[r]] = "accepted"]
            /\ at' = [at EXCEPT ![r] = "claimed"]
            /\ UNCHANGED <<asked, copies, on>>
        BY <2>2, <3>1 DEF Claim, Answer
      <4>4. OfferedInTurn'
        BY <3>1, <4>1, <4>3 DEF ClaimInv, OfferedInTurn
      <4>5. ClaimHeldAlone'
        BY <4>1, <4>2, <4>3 DEF ClaimInv, ClaimHeldAlone, Working
      <4>6. HeldWasAccepted' /\ AtMostOneCopy'
        BY <4>1, <4>3 DEF ClaimInv, HeldWasAccepted, AtMostOneCopy
      <4>7. QED
        BY <4>4, <4>5, <4>6 DEF ClaimInv
    <3>2. CASE offer[on[r]] # "pending"
      BY <2>2, <3>2, QuietClaim DEF Claim, Answer, Working, ClaimInv, OfferedInTurn
    <3>3. QED
      BY <3>1, <3>2
  <2>3. CASE Decline(r)
    <3>1. CASE offer[on[r]] = "pending"
      <4>1. on[r] \in Transfer /\ copies[on[r]] = {}
        BY <2>3, <3>1 DEF Decline, ClaimInv, HeldWasAccepted
      <4>2. \A q \in Request : at[q] \in Working => on[q] # on[r]
        BY <3>1 DEF ClaimInv, ClaimHeldAlone
      <4>3. /\ offer' = [offer EXCEPT ![on[r]] = "declined"]
            /\ at' = [at EXCEPT ![r] = "declined"]
            /\ UNCHANGED <<asked, copies, on>>
        BY <2>3, <3>1 DEF Decline, Answer
      <4>4. QED
        BY <3>1, <4>1, <4>2, <4>3 DEF ClaimInv, OfferedInTurn, ClaimHeldAlone, Working,
           HeldWasAccepted, AtMostOneCopy
    <3>2. CASE offer[on[r]] # "pending"
      BY <2>3, <3>2, QuietClaim DEF Decline, Answer, Working, ClaimInv, OfferedInTurn
    <3>3. QED
      BY <3>1, <3>2
  <2>4. CASE ReadSource(r)
    BY <2>4, QuietClaim DEF ReadSource, Working, ClaimInv, OfferedInTurn
  <2>5. CASE CheckReview(r)
    BY <2>5, QuietClaim DEF CheckReview, Working, ClaimInv, OfferedInTurn
  <2>6. CASE SaveCopy(r)
    <3>1. /\ on[r] \in Transfer /\ copies[on[r]] = {} /\ offer[on[r]] = "accepted"
          /\ \A q \in Request : at[q] \in Working /\ on[q] = on[r] => q = r
      BY <2>6 DEF SaveCopy, ClaimInv, ClaimHeldAlone, Working
    <3>2. copies' = [copies EXCEPT ![on[r]] = {[by |-> r, digest |-> read[r]]}]
      BY <2>6, <3>1 DEF SaveCopy
    <3>3. at' = [at EXCEPT ![r] = "copied"] /\ UNCHANGED <<asked, offer, on>>
      BY <2>6 DEF SaveCopy
    <3>4. ClaimHeldAlone'
      BY <3>1, <3>2, <3>3 DEF ClaimInv, ClaimHeldAlone, Working
    <3>5. OfferedInTurn' /\ HeldWasAccepted' /\ AtMostOneCopy'
      BY <3>1, <3>2, <3>3 DEF ClaimInv, OfferedInTurn, HeldWasAccepted, AtMostOneCopy
    <3>6. QED
      BY <3>4, <3>5 DEF ClaimInv
  <2>7. CASE CopyFails(r)
    BY <2>7, QuietClaim DEF CopyFails, Working, ClaimInv, OfferedInTurn
  <2>8. CASE Undo(r)
    <3>1. /\ on[r] \in Transfer /\ copies[on[r]] = {} /\ offer[on[r]] = "accepted"
          /\ \A q \in Request : at[q] \in Working /\ on[q] = on[r] => q = r
      BY <2>8 DEF Undo, ClaimInv, ClaimHeldAlone, Working
    <3>2. /\ offer' = [offer EXCEPT ![on[r]] = "pending"]
          /\ at' = [at EXCEPT ![r] = "idle"] /\ on' = [on EXCEPT ![r] = NoTransfer]
          /\ UNCHANGED <<asked, copies>>
      BY <2>8, <3>1 DEF Undo
    <3>3. ClaimHeldAlone'
      BY <3>1, <3>2 DEF ClaimInv, ClaimHeldAlone, Working
    <3>4. OfferedInTurn' /\ HeldWasAccepted' /\ AtMostOneCopy'
      BY <3>1, <3>2 DEF ClaimInv, OfferedInTurn, HeldWasAccepted, AtMostOneCopy
    <3>5. QED
      BY <3>3, <3>4 DEF ClaimInv
  <2>9. CASE TellSender(r)
    BY <2>9, QuietClaim DEF TellSender, Working, ClaimInv, OfferedInTurn
  <2>10. CASE BreaksOff(r)
    <3>1. /\ on[r] \in Transfer /\ UNCHANGED <<asked, copies>>
          /\ at' = [at EXCEPT ![r] = "idle"] /\ on' = [on EXCEPT ![r] = NoTransfer]
      BY <2>10, Breaking
    <3>2. CASE UNCHANGED offer
      BY <3>1, <3>2, QuietClaim DEF Working, ClaimInv, OfferedInTurn
    <3>3. CASE offer[on[r]] = "pending" /\ \E a \in {"accepted", "declined"} :
                 offer' = [offer EXCEPT ![on[r]] = a]
      <4>1. copies[on[r]] = {} /\ \A q \in Request : at[q] \in Working => on[q] # on[r]
        BY <3>1, <3>3 DEF ClaimInv, ClaimHeldAlone, HeldWasAccepted
      <4>2. OfferedInTurn'
        BY <3>1, <3>3 DEF ClaimInv, OfferedInTurn
      <4>3. ClaimHeldAlone'
        BY <3>1, <3>3, <4>1 DEF ClaimInv, ClaimHeldAlone, Working
      <4>4. HeldWasAccepted' /\ AtMostOneCopy'
        BY <3>1, <3>3, <4>1 DEF ClaimInv, HeldWasAccepted, AtMostOneCopy
      <4>5. QED
        BY <4>2, <4>3, <4>4 DEF ClaimInv
    <3>4. QED
      BY <2>10, <3>2, <3>3, Breaking
  <2>11. QED
    BY <1>3, <2>1, <2>2, <2>3, <2>4, <2>5, <2>6, <2>7, <2>8, <2>9, <2>10 DEF AnswerStep, Progress
<1>4. QED
  BY <1>1, <1>2, <1>3 DEF Next

(* Where a failed save was rolled back, one accept at a time holds an offer *)
(* and what is copied stays accepted.                                       *)
THEOREM ClaimSafe ==
  ASSUME ~LostCommits
  PROVE  Spec => [](VettedInv /\ ClaimInv)
<1>1. Init => VettedInv /\ ClaimInv
  BY VettedInit, ClaimInit
<1>2. VettedInv /\ ClaimInv /\ [Next]_vars => (VettedInv /\ ClaimInv)'
  BY VettedStep, ClaimStep
<1>3. QED
  BY <1>1, <1>2, PTL DEF Spec

(* However many accepts race (acceptTransferOffer, the compare-and-swap),   *)
(* there is one copy at most.                                               *)
THEOREM OneCopy ==
  ASSUME ~LostCommits
  PROVE  Spec => []AtMostOneCopy
<1>1. Spec => []ClaimInv
  BY ClaimSafe, PTL
<1>2. ClaimInv => AtMostOneCopy
  BY DEF ClaimInv
<1>3. QED
  BY <1>1, <1>2, PTL

(* A refused transfer is never held (declineTransferOffer).                 *)
THEOREM RefusedStaysRefused ==
  ASSUME ~LostCommits
  PROVE  Spec => []RefusedNeverHeld
<1>1. Spec => []ClaimInv
  BY ClaimSafe, PTL
<1>2. ClaimInv => RefusedNeverHeld
  BY DEF ClaimInv, HeldWasAccepted, RefusedNeverHeld
<1>3. QED
  BY <1>1, <1>2, PTL

-----------------------------------------------------------------------------
(* The refinement of TransferPromise.                                       *)

LEMMA PromiseInit == Init => Promise!Init
<1> SUFFICES ASSUME Init PROVE Promise!Init
  OBVIOUS
<1>1. \A t \in Transfer : copies[t] = {} /\ offer[t] = "none"
  BY DEF Init
<1>2. reviewed = {}
  BY DEF Init, SessionInit
<1>3. QED
  BY <1>1, <1>2 DEF Promise!Init

(* A step that touches no copy and refuses nothing is a Vet or a stutter.   *)
LEMMA QuietPromise ==
  ASSUME VettedInv, [Next]_vars, UNCHANGED copies,
         {t \in Transfer : offer[t] = "declined"}' = {t \in Transfer : offer[t] = "declined"}
  PROVE  [Promise!Next]_(Promise!promiseVars)
<1>1. reviewed \subseteq reviewed'
  BY SessionStepType, StepOfSession DEF VettedInv, TypeOK
<1>2. QED
  BY <1>1 DEF Promise!Next, Promise!Vet, Promise!promiseVars

LEMMA PromiseStep ==
  ASSUME ~LostCommits, VettedInv, ClaimInv, [Next]_vars
  PROVE  [Promise!Next]_(Promise!promiseVars)
<1> USE DEF VettedInv, TypeOK
<1>1. CASE SenderStep \/ DeleteSession \/ UNCHANGED vars
  BY <1>1, QuietPromise DEF SenderStep, DeleteSession
<1>2. ASSUME NEW t \in Transfer, AskStep(t) PROVE [Promise!Next]_(Promise!promiseVars)
  <2>1. CASE AskOffer(t)
    <3>1. offer[t] = "none"
      BY <2>1 DEF AskOffer, ClaimInv, OfferedInTurn
    <3>2. offer' = [offer EXCEPT ![t] = "pending"] /\ UNCHANGED copies
      BY <2>1 DEF AskOffer
    <3>3. QED
      BY <3>1, <3>2, QuietPromise
  <2>2. CASE AskCheck(t) \/ AskRecord(t) \/ AskBreaksOff(t)
    BY <2>2, QuietPromise DEF AskCheck, AskRecord, AskBreaksOff
  <2>3. QED
    BY <1>2, <2>1, <2>2 DEF AskStep
<1>3. ASSUME NEW r \in Request, AnswerStep(r) PROVE [Promise!Next]_(Promise!promiseVars)
  <2>1. CASE Decline(r) /\ offer[on[r]] = "pending"
    <3>1. on[r] \in Transfer /\ copies[on[r]] = {}
      BY <2>1 DEF Decline, ClaimInv, HeldWasAccepted
    <3>2. offer' = [offer EXCEPT ![on[r]] = "declined"] /\ UNCHANGED <<copies, reviewed>>
      BY <2>1 DEF Decline, Answer
    <3>3. {t \in Transfer : offer'[t] = "declined"}
            = {t \in Transfer : offer[t] = "declined"} \cup {on[r]}
      BY <3>1, <3>2
    <3>4. {c.digest : c \in copies[on[r]]} = {}
      BY <3>1
    <3>5. Promise!Refuse(on[r])
      BY <3>1, <3>2, <3>3, <3>4 DEF Promise!Refuse
    <3>6. QED
      BY <3>1, <3>5 DEF Promise!Next, Promise!Refuse
  <2>2. CASE SaveCopy(r)
    <3> DEFINE d == read[r]
               held == [t \in Transfer |-> {c.digest : c \in copies[t]}]
    <3>1. /\ on[r] \in Transfer /\ copies[on[r]] = {} /\ offer[on[r]] = "accepted"
          /\ d \in reviewed
      BY <2>2 DEF SaveCopy, ClaimInv, ClaimHeldAlone, Working, ReadWasReviewed
    <3>2. copies' = [copies EXCEPT ![on[r]] = {[by |-> r, digest |-> d]}]
      BY <2>2, <3>1 DEF SaveCopy
    <3>3. UNCHANGED <<offer, reviewed>>
      BY <2>2 DEF SaveCopy
    <3>4. held[on[r]] = {}
      BY <3>1
    <3>5. held' = [held EXCEPT ![on[r]] = {d}]
      <4>1. {c.digest : c \in {[by |-> r, digest |-> d]}} = {d}
        OBVIOUS
      <4>2. copies'[on[r]] = {[by |-> r, digest |-> d]}
        BY <3>1, <3>2
      <4>3. \A t \in Transfer : t # on[r] => copies'[t] = copies[t]
        BY <3>2
      <4>4. QED
        BY <3>1, <4>1, <4>2, <4>3
    <3>6. Promise!HandOver(on[r])
      BY <3>1, <3>3, <3>4, <3>5 DEF Promise!HandOver
    <3>7. QED
      BY <3>1, <3>6 DEF Promise!Next, Promise!HandOver
  <2>3. CASE Claim(r)
    BY <2>3, QuietPromise DEF Claim, Answer, Leave, Goto
  <2>4. CASE Undo(r)
    BY <2>4, QuietPromise DEF Undo, Leave, Goto
  <2>5. CASE Decline(r) /\ offer[on[r]] # "pending"
    BY <2>5, QuietPromise DEF Decline, Answer
  <2>6. CASE ReadSource(r) \/ CheckReview(r) \/ CopyFails(r) \/ TellSender(r)
    BY <2>6, QuietPromise DEF ReadSource, CheckReview, CopyFails, TellSender
  <2>7. ASSUME NEW t \in Transfer, Find(r, t, "accepting") \/ Find(r, t, "declining")
        PROVE  [Promise!Next]_(Promise!promiseVars)
    BY <2>7, QuietPromise DEF Find
  <2>8. CASE BreaksOff(r)
    <3>1. on[r] \in Transfer /\ UNCHANGED <<sessionVars, copies>>
      BY <2>8, Breaking
    <3>2. CASE UNCHANGED offer
      BY <3>1, <3>2, QuietPromise
    <3>3. CASE offer[on[r]] = "pending" /\ offer' = [offer EXCEPT ![on[r]] = "accepted"]
      BY <3>1, <3>3, QuietPromise
    <3>4. CASE offer[on[r]] = "pending" /\ offer' = [offer EXCEPT ![on[r]] = "declined"]
      <4>1. copies[on[r]] = {}
        BY <3>1, <3>4 DEF ClaimInv, HeldWasAccepted
      <4>2. {t \in Transfer : offer'[t] = "declined"}
              = {t \in Transfer : offer[t] = "declined"} \cup {on[r]}
        BY <3>1, <3>4
      <4>3. {c.digest : c \in copies[on[r]]} = {}
        BY <4>1
      <4>4. Promise!Refuse(on[r])
        BY <3>1, <4>2, <4>3 DEF Promise!Refuse, sessionVars
      <4>5. QED
        BY <3>1, <4>4 DEF Promise!Next, Promise!Refuse
    <3>5. QED
      BY <2>8, <3>2, <3>3, <3>4, Breaking
  <2>9. QED
    BY <1>3, <2>1, <2>2, <2>3, <2>4, <2>5, <2>6, <2>7, <2>8 DEF AnswerStep, Progress
<1>4. QED
  BY <1>1, <1>2, <1>3 DEF Next

(* Where a failed save was rolled back, Transfers implements                *)
(* TransferPromise: every step hands over one reviewed copy, refuses, vets, *)
(* or stutters.                                                             *)
THEOREM TransferRefined ==
  ASSUME ~LostCommits
  PROVE  Spec => TransferKept
<1>1. Init => Promise!Init
  BY PromiseInit
<1>2. VettedInv /\ ClaimInv /\ [Next]_vars => [Promise!Next]_(Promise!promiseVars)
  BY PromiseStep
<1>3. Spec => [](VettedInv /\ ClaimInv)
  BY ClaimSafe
<1>4. QED
  BY <1>1, <1>2, <1>3, PTL DEF Spec, TransferKept, Promise!Spec

-----------------------------------------------------------------------------
(* What the two sides are left with.                                        *)

AnswerInv == VettedInv /\ ClaimInv /\ ToldInv

(* A step that neither answers nor tells: the offers, the copies, the       *)
(* sender's rows and what requests are at do not change.                    *)
LEMMA QuietTold ==
  ASSUME ToldInv, UNCHANGED <<offer, copies, sent, at, on, cut>>
  PROVE  ToldInv'
  BY DEF ToldInv

LEMMA AskTold ==
  ASSUME AnswerInv, NEW t \in Transfer, AskStep(t)
  PROVE  ToldInv'
<1> USE DEF AnswerInv, VettedInv, TypeOK
<1>1. CASE AskCheck(t)
  BY <1>1, QuietTold DEF AskCheck
<1>2. CASE AskRecord(t)
  <2>1. offer[t] = "none"
    BY <1>2 DEF AskRecord, ClaimInv, OfferedInTurn
  <2>2. \A r \in Request : at[r] \in Working => on[r] # t
    BY <2>1 DEF ClaimInv, ClaimHeldAlone
  <2>3. /\ sent' = sent \/ sent' = [sent EXCEPT ![t] = "pending"]
        /\ UNCHANGED <<offer, copies, at, on, cut>>
    BY <1>2 DEF AskRecord
  <2>4. QED
    BY <2>1, <2>2, <2>3 DEF ToldInv, Working
<1>3. CASE AskOffer(t)
  <2>1. offer[t] = "none" /\ copies[t] = {}
    BY <1>3 DEF AskOffer, ClaimInv, OfferedInTurn, HeldWasAccepted
  <2>2. offer' = [offer EXCEPT ![t] = "pending"] /\ UNCHANGED <<sent, copies, at, on, cut>>
    BY <1>3 DEF AskOffer
  <2>3. QED
    BY <2>1, <2>2 DEF ToldInv, Working
<1>4. CASE AskBreaksOff(t)
  BY <1>4, QuietTold DEF AskBreaksOff
<1>5. QED
  BY <1>1, <1>2, <1>3, <1>4 DEF AskStep

LEMMA AnswerTold ==
  ASSUME ~LostCommits, AnswerInv, NEW r \in Request, AnswerStep(r)
  PROVE  ToldInv'
<1> USE TransferAssumption DEF AnswerInv, VettedInv, TypeOK, Goto, Leave
<1>1. ASSUME NEW t \in Transfer, Find(r, t, "accepting") \/ Find(r, t, "declining")
      PROVE  ToldInv'
  BY <1>1 DEF Find, ToldInv, Working
<1>2. CASE Claim(r)
  <2>1. CASE offer[on[r]] = "pending"
    <3>1. /\ on[r] \in Transfer /\ copies[on[r]] = {} /\ sent[on[r]] \in {"none", "pending"}
      BY <1>2, <2>1 DEF Claim, ClaimInv, HeldWasAccepted, ToldInv
    <3>2. /\ offer' = [offer EXCEPT ![on[r]] = "accepted"]
          /\ at' = [at EXCEPT ![r] = "claimed"]
          /\ UNCHANGED <<copies, on, sent, cut>>
      BY <1>2, <2>1 DEF Claim, Answer
    <3>3. \A q \in Request : at[q] = "declined" => on[q] # on[r]
      BY <2>1 DEF ToldInv
    <3>4. QED
      BY <1>2, <2>1, <3>1, <3>2, <3>3 DEF ToldInv, Working, Claim
  <2>2. CASE offer[on[r]] # "pending"
    BY <1>2, <2>2 DEF Claim, Answer, ToldInv, Working
  <2>3. QED
    BY <2>1, <2>2
<1>3. CASE Decline(r)
  <2>1. CASE offer[on[r]] = "pending"
    <3>1. /\ on[r] \in Transfer /\ copies[on[r]] = {} /\ sent[on[r]] \in {"none", "pending"}
      BY <1>3, <2>1 DEF Decline, ClaimInv, HeldWasAccepted, ToldInv
    <3>2. /\ offer' = [offer EXCEPT ![on[r]] = "declined"]
          /\ at' = [at EXCEPT ![r] = "declined"]
          /\ UNCHANGED <<copies, on, sent, cut>>
      BY <1>3, <2>1 DEF Decline, Answer
    <3>3. QED
      BY <1>3, <2>1, <3>1, <3>2 DEF ToldInv, Working, Decline
  <2>2. CASE offer[on[r]] # "pending"
    BY <1>3, <2>2 DEF Decline, Answer, ToldInv, Working
  <2>3. QED
    BY <2>1, <2>2
<1>4. CASE ReadSource(r) \/ CheckReview(r) \/ CopyFails(r)
  <2>1. /\ at[r] \in Working /\ UNCHANGED <<offer, copies, sent, on, cut>>
        /\ \E label \in Working : at' = [at EXCEPT ![r] = label]
    BY <1>4 DEF ReadSource, CheckReview, CopyFails, Working
  <2>2. QED
    BY <2>1 DEF ToldInv, Working
<1>5. CASE SaveCopy(r)
  <2>1. on[r] \in Transfer /\ copies[on[r]] = {} /\ offer[on[r]] = "accepted"
    BY <1>5 DEF SaveCopy, ClaimInv, ClaimHeldAlone, Working
  <2>2. /\ copies' = [copies EXCEPT ![on[r]] = {[by |-> r, digest |-> read[r]]}]
        /\ at' = [at EXCEPT ![r] = "copied"] /\ UNCHANGED <<offer, sent, on, cut>>
    BY <1>5, <2>1 DEF SaveCopy
  <2>3. at'[r] = "copied" /\ on'[r] = on[r] /\ copies'[on[r]] # {}
    BY <2>1, <2>2
  <2>4. /\ \A q \in Request : q # r => at'[q] = at[q] /\ on'[q] = on[q]
        /\ \A t \in Transfer : t # on[r] => copies'[t] = copies[t]
        /\ \A t \in Transfer : copies[t] # {} => copies'[t] # {}
    BY <2>1, <2>2
  <2>5. \A q \in Request : /\ at'[q] = "copied" => copies'[on'[q]] # {}
                           /\ at'[q] = "declined" => offer'[on'[q]] = "declined"
                           /\ at'[q] \in Working => sent'[on'[q]] \in {"none", "pending"}
    BY <2>2, <2>3, <2>4 DEF ToldInv, Working
  <2>6. ASSUME NEW t \in Transfer, t \notin cut', offer'[t] = "accepted"
        PROVE  \/ \E q \in Request : at'[q] \in Working /\ on'[q] = t
               \/ /\ copies'[t] # {}
                  /\ \/ sent'[t] \in {"none", "accepted"}
                     \/ \E q \in Request : at'[q] = "copied" /\ on'[q] = t
    <3>1. CASE t = on[r]
      BY <2>3, <3>1
    <3>2. CASE t # on[r]
      BY <2>2, <2>4, <2>6, <3>2 DEF ToldInv
    <3>3. QED
      BY <3>1, <3>2
  <2>7. ASSUME NEW t \in Transfer, t \notin cut', offer'[t] = "declined"
        PROVE  \/ sent'[t] \in {"none", "declined"}
               \/ \E q \in Request : at'[q] = "declined" /\ on'[q] = t
    BY <1>5, <2>2, <2>4, <2>7 DEF ToldInv, SaveCopy
  <2>8. QED
    BY <2>2, <2>5, <2>6, <2>7 DEF ToldInv
<1>6. CASE Undo(r)
  <2>1. /\ on[r] \in Transfer /\ copies[on[r]] = {} /\ offer[on[r]] = "accepted"
        /\ sent[on[r]] \in {"none", "pending"}
        /\ \A q \in Request : at[q] \in Working /\ on[q] = on[r] => q = r
    BY <1>6 DEF Undo, ClaimInv, ClaimHeldAlone, Working, ToldInv
  <2>2. /\ offer' = [offer EXCEPT ![on[r]] = "pending"]
        /\ at' = [at EXCEPT ![r] = "idle"] /\ on' = [on EXCEPT ![r] = NoTransfer]
        /\ UNCHANGED <<copies, sent, cut>>
    BY <1>6, <2>1 DEF Undo
  <2>3. QED
    BY <1>6, <2>1, <2>2 DEF ToldInv, Working
<1>7. CASE TellSender(r)
  <2>1. /\ on[r] \in Transfer
        /\ at[r] = "copied" => copies[on[r]] # {} /\ offer[on[r]] = "accepted"
        /\ at[r] = "declined" => offer[on[r]] = "declined"
    BY <1>7 DEF TellSender, ToldInv, ClaimInv, HeldWasAccepted
  <2>2. \A q \in Request : at[q] \in Working => on[q] # on[r]
    BY <1>7, <2>1 DEF TellSender, ClaimInv, ClaimHeldAlone
  <2>3. /\ sent' = IF sent[on[r]] = "none" THEN sent
                   ELSE [sent EXCEPT ![on[r]] = IF at[r] = "copied" THEN "accepted" ELSE "declined"]
        /\ at' = [at EXCEPT ![r] = "idle"] /\ on' = [on EXCEPT ![r] = NoTransfer]
        /\ UNCHANGED <<offer, copies, cut>>
        /\ at[r] \in {"copied", "declined"}
    BY <1>7 DEF TellSender
  <2>4. QED
    BY <2>1, <2>2, <2>3 DEF ToldInv, Working
<1>8. CASE BreaksOff(r)
  <2>1. /\ at[r] # "idle" /\ on[r] \in Transfer
        /\ at' = [at EXCEPT ![r] = "idle"] /\ on' = [on EXCEPT ![r] = NoTransfer]
        /\ cut \subseteq cut' /\ UNCHANGED <<copies, sent>>
    BY <1>8, Breaking
  <2>2. CASE UNCHANGED offer
    <3>1. at[r] \notin {"accepting", "declining"} => on[r] \in cut'
      BY <1>8, <2>2, Breaking
    <3>2. QED
      BY <2>1, <2>2, <3>1 DEF ToldInv, Working
  <2>3. CASE /\ offer[on[r]] = "pending" /\ on[r] \in cut'
             /\ \E a \in {"accepted", "declined"} : offer' = [offer EXCEPT ![on[r]] = a]
    <3>1. \A q \in Request : at[q] \in Working \cup {"declined"} => on[q] # on[r]
      BY <2>3 DEF ToldInv, ClaimInv, ClaimHeldAlone
    <3>2. sent[on[r]] \in {"none", "pending"}
      BY <2>1, <2>3 DEF ToldInv
    <3>3. QED
      BY <2>1, <2>3, <3>1, <3>2 DEF ToldInv, Working
  <2>4. QED
    BY <1>8, <2>2, <2>3, Breaking
<1>9. QED
  BY <1>1, <1>2, <1>3, <1>4, <1>5, <1>6, <1>7, <1>8 DEF AnswerStep, Progress

LEMMA ToldStep ==
  ASSUME ~LostCommits, AnswerInv, [Next]_vars
  PROVE  AnswerInv'
<1>1. VettedInv' /\ ClaimInv'
  BY VettedStep, ClaimStep DEF AnswerInv
<1>2. CASE SenderStep \/ UNCHANGED vars
  BY <1>1, <1>2, QuietTold DEF SenderStep, AnswerInv
<1>3. CASE DeleteSession
  BY <1>1, <1>3 DEF DeleteSession, AnswerInv, ToldInv, VettedInv, TypeOK, Working
<1>4. ASSUME NEW t \in Transfer, AskStep(t) PROVE AnswerInv'
  BY <1>1, <1>4, AskTold DEF AnswerInv
<1>5. ASSUME NEW r \in Request, AnswerStep(r) PROVE AnswerInv'
  BY <1>1, <1>5, AnswerTold DEF AnswerInv
<1>6. QED
  BY <1>2, <1>3, <1>4, <1>5 DEF Next

(* Where a failed save was rolled back: whatever statements fail and        *)
(* whatever processes die, an offer no request is at work on is spent on a  *)
(* copy and on nothing else, and the sender was told what became of it,     *)
(* unless the answer itself broke off; and then the sender is never told    *)
(* the opposite of what was answered (acceptTransferOffer,                  *)
(* declineTransferOffer).                                                   *)
THEOREM BothSidesAgree ==
  ASSUME ~LostCommits
  PROVE  Spec => []AnswersAreTrue
<1>1. Init => AnswerInv
  BY VettedInit, ClaimInit DEF Init, AnswerInv, ToldInv, Working
<1>2. AnswerInv => AnswersAreTrue
  <2> SUFFICES ASSUME AnswerInv, NEW t \in Transfer, ~Answering(t)
               PROVE  /\ copies[t] # {} => offer[t] = "accepted"
                      /\ offer[t] = "accepted" => copies[t] # {} \/ t \in cut
                      /\ offer[t] # "none" /\ sent[t] # "none" =>
                            sent[t] = offer[t] \/ (t \in cut /\ sent[t] = "pending")
    BY DEF AnswersAreTrue, SpentOnlyOnACopy, SenderIsTold
  <2>1. \A r \in Request : on[r] # t
    BY DEF Answering
  <2>2. offer[t] # "accepted" => copies[t] = {}
    BY DEF AnswerInv, ClaimInv, HeldWasAccepted
  <2>3. offer[t] = "accepted" =>
          /\ sent[t] # "declined"
          /\ t \in cut \/ (copies[t] # {} /\ sent[t] \in {"none", "accepted"})
    BY <2>1 DEF AnswerInv, ToldInv
  <2>4. offer[t] = "declined" =>
          /\ sent[t] # "accepted"
          /\ t \in cut \/ sent[t] \in {"none", "declined"}
    BY <2>1 DEF AnswerInv, ToldInv
  <2>5. offer[t] = "pending" => sent[t] \in {"none", "pending"}
    BY DEF AnswerInv, ToldInv
  <2>6. QED
    BY <2>2, <2>3, <2>4, <2>5 DEF AnswerInv, VettedInv, TypeOK, Status
<1>3. AnswerInv /\ [Next]_vars => AnswerInv'
  BY ToldStep
<1>4. QED
  BY <1>1, <1>2, <1>3, PTL DEF Spec

-----------------------------------------------------------------------------
(* The copies of a transfer, with lost commits or without.                  *)

ExplainInv == VettedInv /\ ExplainedInv

(* One more copy is at most one more.                                       *)
LEMMA OneMoreCopy ==
  ASSUME NEW S, NEW c, NEW n \in Nat, IsFiniteSet(S), Cardinality(S) <= n
  PROVE  IsFiniteSet(S \cup {c}) /\ Cardinality(S \cup {c}) <= n + 1
<1>1. Cardinality(S) \in Nat
  BY FS_CardinalityType
<1>2. /\ IsFiniteSet(S \cup {c})
      /\ Cardinality(S \cup {c}) = IF c \in S THEN Cardinality(S) ELSE Cardinality(S) + 1
  BY FS_AddElement
<1>3. QED
  BY <1>1, <1>2

(* What is said of one transfer when its offer, its copies and the requests *)
(* at work on it, and the failures, are as given.                           *)
Counted(state, made, busy, failed) ==
    /\ IsFiniteSet(made)
    /\ Cardinality(made) <= failed + 1
    /\ state # "accepted" \/ busy => Cardinality(made) <= failed

BusyOn(t) == \E r \in Request : at[r] \in Working /\ on[r] = t

LEMMA CountedFormNext ==
  ExplainedInv' <=> /\ OfferedInTurn'
                    /\ WorksAlone'
                    /\ \A t \in Transfer : Counted(offer'[t], copies'[t], BusyOn(t)', failures')
  BY DEF ExplainedInv, Counted, BusyOn

(* A step that adds no copy, gives no claim up and takes no request to      *)
(* work that was not at work on the same transfer.                          *)
LEMMA QuietExplained ==
  ASSUME ExplainedInv, TypeOK, OfferedInTurn', UNCHANGED copies,
         failures' \in Nat, failures' >= failures,
         \A t \in Transfer : offer[t] = "accepted" => offer'[t] = "accepted",
         \A r \in Request : at'[r] \in Working => at[r] \in Working /\ on'[r] = on[r]
  PROVE  ExplainedInv'
<1>1. WorksAlone'
  BY DEF ExplainedInv, WorksAlone, TypeOK, Working
<1>2. ASSUME NEW t \in Transfer PROVE Counted(offer'[t], copies'[t], BusyOn(t)', failures')
  <2>1. Cardinality(copies[t]) \in Nat /\ failures \in Nat
    BY FS_CardinalityType DEF ExplainedInv, TypeOK
  <2>2. BusyOn(t)' => BusyOn(t)
    BY DEF BusyOn
  <2>3. QED
    BY <2>1, <2>2 DEF ExplainedInv, Counted, BusyOn
<1>3. QED
  BY <1>1, <1>2, CountedFormNext DEF ExplainedInv

LEMMA AnswerExplained ==
  ASSUME ExplainInv, NEW r \in Request, AnswerStep(r)
  PROVE  ExplainedInv'
<1> USE TransferAssumption DEF ExplainInv, VettedInv, TypeOK, Goto, Leave
<1>1. ASSUME NEW t \in Transfer, Find(r, t, "accepting") \/ Find(r, t, "declining")
      PROVE  ExplainedInv'
  BY <1>1, QuietExplained DEF Find, Working, ExplainedInv, OfferedInTurn
<1>2. CASE Claim(r)
  <2>1. CASE offer[on[r]] = "pending"
    <3>1. on[r] \in Transfer /\ \A q \in Request : at[q] \in Working => on[q] # on[r]
      BY <1>2, <2>1 DEF Claim, ExplainedInv, WorksAlone
    <3>2. /\ offer' = [offer EXCEPT ![on[r]] = "accepted"]
          /\ at' = [at EXCEPT ![r] = "claimed"]
          /\ UNCHANGED <<asked, copies, on, failures>>
      BY <1>2, <2>1 DEF Claim, Answer
    <3>3. OfferedInTurn'
      BY <2>1, <3>1, <3>2 DEF ExplainedInv, OfferedInTurn
    <3>4. WorksAlone'
      BY <3>1, <3>2 DEF ExplainedInv, WorksAlone, Working
    <3>5. ASSUME NEW t \in Transfer PROVE Counted(offer'[t], copies'[t], BusyOn(t)', failures')
      <4>1. CASE t = on[r]
        BY <2>1, <3>2, <4>1 DEF ExplainedInv, Counted
      <4>2. CASE t # on[r]
        BY <3>2, <4>2 DEF ExplainedInv, Counted, BusyOn
      <4>3. QED
        BY <4>1, <4>2
    <3>6. QED
      BY <3>3, <3>4, <3>5, CountedFormNext
  <2>2. CASE offer[on[r]] # "pending"
    BY <1>2, <2>2, QuietExplained DEF Claim, Answer, Working, ExplainedInv, OfferedInTurn
  <2>3. QED
    BY <2>1, <2>2
<1>3. CASE Decline(r)
  <2>1. OfferedInTurn'
    BY <1>3 DEF Decline, Answer, ExplainedInv, OfferedInTurn
  <2>2. QED
    BY <1>3, <2>1, QuietExplained DEF Decline, Answer, Working
<1>4. CASE ReadSource(r) \/ CheckReview(r)
  BY <1>4, QuietExplained DEF ReadSource, CheckReview, Working, ExplainedInv, OfferedInTurn
<1>5. CASE SaveCopy(r)
  <2>1. /\ on[r] \in Transfer /\ at[r] \in Working
        /\ \A q \in Request : at[q] \in Working /\ on[q] = on[r] => q = r
        /\ Cardinality(copies[on[r]]) <= failures /\ IsFiniteSet(copies[on[r]])
    BY <1>5 DEF SaveCopy, ExplainedInv, WorksAlone, Working
  <2>2. /\ copies' = [copies EXCEPT ![on[r]] = @ \cup {[by |-> r, digest |-> read[r]]}]
        /\ at' = [at EXCEPT ![r] = "copied"] /\ UNCHANGED <<asked, offer, on, failures>>
    BY <1>5 DEF SaveCopy
  <2>3. OfferedInTurn' /\ WorksAlone'
    BY <2>1, <2>2 DEF ExplainedInv, OfferedInTurn, WorksAlone, Working
  <2>4. ASSUME NEW t \in Transfer PROVE Counted(offer'[t], copies'[t], BusyOn(t)', failures')
    <3>1. CASE t = on[r]
      <4>0. copies'[t] = copies[t] \cup {[by |-> r, digest |-> read[r]]}
        BY <2>1, <2>2, <3>1
      <4>1. IsFiniteSet(copies'[t]) /\ Cardinality(copies'[t]) <= failures + 1
        <5>1. IsFiniteSet(copies[t]) /\ Cardinality(copies[t]) <= failures /\ failures \in Nat
          BY <2>1, <3>1
        <5>2. QED
          BY ONLY <4>0, <5>1, OneMoreCopy
      <4>2. offer'[t] = "accepted"
        BY <2>1, <2>2, <3>1 DEF ExplainedInv, WorksAlone
      <4>3. ~BusyOn(t)'
        BY <2>1, <2>2, <3>1 DEF BusyOn, Working
      <4>4. QED
        BY <2>2, <4>1, <4>2, <4>3 DEF Counted
    <3>2. CASE t # on[r]
      BY <2>2, <3>2 DEF ExplainedInv, Counted, BusyOn, Working
    <3>3. QED
      BY <3>1, <3>2
  <2>5. QED
    BY <2>3, <2>4, CountedFormNext
<1>6. CASE CopyFails(r)
  <2>1. /\ on[r] \in Transfer /\ at[r] \in Working
        /\ Cardinality(copies[on[r]]) <= failures /\ IsFiniteSet(copies[on[r]])
    BY <1>6 DEF CopyFails, ExplainedInv, Working
  <2>2. /\ \/ copies' = copies
           \/ copies' = [copies EXCEPT ![on[r]] = @ \cup {[by |-> r, digest |-> read[r]]}]
        /\ at' = [at EXCEPT ![r] = "undo"] /\ failures' = failures + 1
        /\ UNCHANGED <<asked, offer, on>>
    BY <1>6 DEF CopyFails
  <2>3. OfferedInTurn' /\ WorksAlone'
    BY <2>1, <2>2 DEF ExplainedInv, OfferedInTurn, WorksAlone, Working
  <2>4. ASSUME NEW t \in Transfer PROVE Counted(offer'[t], copies'[t], BusyOn(t)', failures')
    <3>1. CASE t = on[r] /\ copies' # copies
      <4>0. copies'[t] = copies[t] \cup {[by |-> r, digest |-> read[r]]}
        BY <2>1, <2>2, <3>1
      <4>1. IsFiniteSet(copies'[t]) /\ Cardinality(copies'[t]) <= failures + 1
        <5>1. IsFiniteSet(copies[t]) /\ Cardinality(copies[t]) <= failures /\ failures \in Nat
          BY <2>1, <3>1
        <5>2. QED
          BY ONLY <4>0, <5>1, OneMoreCopy
      <4>2. Cardinality(copies'[t]) \in Nat /\ failures \in Nat
        BY <4>1, FS_CardinalityType
      <4>3. QED
        BY <2>2, <4>1, <4>2 DEF Counted
    <3>2. CASE copies'[t] = copies[t]
      <4>1. /\ IsFiniteSet(copies[t]) /\ Cardinality(copies[t]) <= failures + 1 /\ failures \in Nat
        BY DEF ExplainedInv
      <4>2. Cardinality(copies[t]) \in Nat
        BY <4>1, FS_CardinalityType
      <4>3. QED
        BY <2>2, <3>2, <4>1, <4>2 DEF Counted
    <3>3. QED
      BY <2>2, <3>1, <3>2
  <2>5. QED
    BY <2>3, <2>4, CountedFormNext
<1>7. CASE Undo(r)
  <2>1. /\ on[r] \in Transfer /\ offer[on[r]] = "accepted" /\ at[r] \in Working
        /\ \A q \in Request : at[q] \in Working /\ on[q] = on[r] => q = r
    BY <1>7 DEF Undo, ExplainedInv, WorksAlone, Working
  <2>2. /\ offer' = [offer EXCEPT ![on[r]] = "pending"]
        /\ at' = [at EXCEPT ![r] = "idle"] /\ on' = [on EXCEPT ![r] = NoTransfer]
        /\ UNCHANGED <<asked, copies, failures>>
    BY <1>7, <2>1 DEF Undo
  <2>3. OfferedInTurn' /\ WorksAlone'
    BY <2>1, <2>2 DEF ExplainedInv, OfferedInTurn, WorksAlone, Working
  <2>4. ASSUME NEW t \in Transfer PROVE Counted(offer'[t], copies'[t], BusyOn(t)', failures')
    <3>1. CASE t = on[r]
      BY <2>1, <2>2, <3>1 DEF ExplainedInv, Counted
    <3>2. CASE t # on[r]
      BY <2>2, <3>2 DEF ExplainedInv, Counted, BusyOn, Working
    <3>3. QED
      BY <3>1, <3>2
  <2>5. QED
    BY <2>3, <2>4, CountedFormNext
<1>8. CASE TellSender(r)
  BY <1>8, QuietExplained DEF TellSender, Working, ExplainedInv, OfferedInTurn
<1>9. CASE BreaksOff(r)
  <2>1. OfferedInTurn'
    BY <1>9, Breaking DEF ExplainedInv, OfferedInTurn
  <2>2. QED
    BY <1>9, <2>1, Breaking, QuietExplained DEF Working
<1>10. QED
  BY <1>1, <1>2, <1>3, <1>4, <1>5, <1>6, <1>7, <1>8, <1>9 DEF AnswerStep, Progress

LEMMA ExplainStep == ExplainInv /\ [Next]_vars => ExplainInv'
<1> SUFFICES ASSUME ExplainInv, [Next]_vars PROVE ExplainedInv'
  BY VettedStep DEF ExplainInv
<1> USE DEF ExplainInv, VettedInv
<1>1. CASE SenderStep \/ DeleteSession \/ UNCHANGED vars
  <2>1. /\ UNCHANGED <<asked, offer, copies, at, on, failures>>
        /\ failures' \in Nat /\ failures' >= failures
    BY <1>1 DEF SenderStep, DeleteSession, TypeOK
  <2>2. OfferedInTurn'
    BY <2>1 DEF ExplainedInv, OfferedInTurn
  <2>3. QED
    BY <2>1, <2>2, QuietExplained
<1>2. ASSUME NEW t \in Transfer, AskStep(t) PROVE ExplainedInv'
  <2>1. OfferedInTurn'
    BY <1>2 DEF AskStep, AskCheck, AskRecord, AskOffer, AskBreaksOff, AskGoto, TypeOK, ExplainedInv, OfferedInTurn
  <2>2. \A u \in Transfer : offer'[u] = "accepted" <=> offer[u] = "accepted"
    BY <1>2 DEF AskStep, AskCheck, AskRecord, AskOffer, AskBreaksOff, TypeOK, ExplainedInv, OfferedInTurn
  <2>3. UNCHANGED <<copies, at, on>> /\ failures' \in Nat /\ failures' >= failures
    BY <1>2 DEF AskStep, AskCheck, AskRecord, AskOffer, AskBreaksOff, Dies, Throws, TypeOK
  <2>4. QED
    BY <2>1, <2>2, <2>3, QuietExplained
<1>3. ASSUME NEW r \in Request, AnswerStep(r) PROVE ExplainedInv'
  BY <1>3, AnswerExplained
<1>4. QED
  BY <1>1, <1>2, <1>3 DEF Next

(* Even when the answer to COMMIT can be lost, a transfer is copied at most *)
(* once more than accepts of it failed (acceptTransferOffer).               *)
THEOREM ExtraCopiesAreFailures == Spec => []CopiesAreExplained
<1>1. Init => ExplainInv
  <2> SUFFICES ASSUME Init PROVE ExplainedInv
    BY VettedInit DEF ExplainInv
  <2>1. IsFiniteSet({}) /\ Cardinality({}) = 0
    BY FS_EmptySet
  <2>2. QED
    BY <2>1 DEF Init, ExplainedInv, OfferedInTurn, WorksAlone, Working
<1>2. ExplainInv => CopiesAreExplained
  BY DEF ExplainInv, ExplainedInv, CopiesAreExplained
<1>3. QED
  BY <1>1, <1>2, ExplainStep, PTL DEF Spec
=============================================================================
