------------------------ MODULE ReviewedSessionProofs ------------------------
(***************************************************************************)
(* What the steps of ReviewedSession keep, for the proofs about the        *)
(* modules that share the session.                                         *)
(***************************************************************************)
EXTENDS ReviewedSession, TLAPS

USE DEF sessionVars

(* The session's own steps keep its types, and never unmake a review.       *)
LEMMA SessionStepType ==
  ASSUME SessionTypeOK, SessionStep \/ DeleteRow \/ UNCHANGED sessionVars
  PROVE  SessionTypeOK' /\ reviewed \subseteq reviewed'
<1> USE DEF SessionTypeOK, Digest, Gone
<1>1. CASE Capture
  BY <1>1 DEF Capture
<1>2. CASE Reprocess
  BY <1>2 DEF Reprocess
<1>3. CASE DeleteRow
  BY <1>3 DEF DeleteRow
<1>4. CASE ReadForReview
  BY <1>4 DEF ReadForReview
<1>5. CASE SaveReview
  BY <1>5 DEF SaveReview
<1>6. CASE UNCHANGED sessionVars
  BY <1>6
<1>7. QED
  BY <1>1, <1>2, <1>3, <1>4, <1>5, <1>6 DEF SessionStep

(* A completed review row is of content the history names.                  *)
LEMMA SessionStepReviews ==
  ASSUME reviews \subseteq reviewed, SessionStep \/ DeleteRow \/ UNCHANGED sessionVars
  PROVE  (reviews \subseteq reviewed)'
  BY DEF SessionStep, Capture, Reprocess, DeleteRow, ReadForReview, SaveReview
=============================================================================
