--------------------------- MODULE ReviewedSession ---------------------------
(***************************************************************************)
(* One session of the sender's archive as sharing sees it: content that a  *)
(* re-capture replaces, and the redaction reviews that unlock sharing it   *)
(* (server/src/sharing/sharing.service.ts, store/review-digest.ts).        *)
(*                                                                         *)
(* Abstracted: the content is the number of the capture it came from, and  *)
(* stands for its digest: two captures never have the same digest, and     *)
(* reprocessing a capture gives its digest again.  Masks and patterns are  *)
(* left out.                                                               *)
(***************************************************************************)
EXTENDS Naturals, FiniteSets

CONSTANTS
    MaxCaptures,  \* bound on the captures of a behaviour
    MaxDeletes    \* bound on the deletions of a behaviour

ASSUME CaptureAssumption == MaxCaptures \in Nat /\ MaxDeletes \in Nat

VARIABLES
    content,    \* what the sessions row holds, Gone when there is no row
    captures,   \* the newest capture
    deletes,    \* deletions so far
    reviewing,  \* what a completeReview in flight has read, Gone when none is
    reviews,    \* digests of the completed rows of redaction_reviews
    reviewed    \* history: every digest a completed review was stored for

sessionVars == <<content, captures, deletes, reviewing, reviews, reviewed>>

Gone == 0
Digest == Nat \ {Gone}

SessionTypeOK ==
    /\ content \in Nat
    /\ captures \in Digest
    /\ deletes \in Nat
    /\ reviewing \in Nat
    /\ reviews \subseteq Digest
    /\ reviewed \subseteq Digest

SessionInit ==
    /\ content = 1
    /\ captures = 1
    /\ deletes = 0
    /\ reviewing = Gone
    /\ reviews = {}
    /\ reviewed = {}

-----------------------------------------------------------------------------
(* The agent appended to the transcript and the parse saved it under the    *)
(* same session id, which the session_identities row remembers even when    *)
(* the session itself was deleted.                                          *)
Capture ==
    /\ captures < MaxCaptures
    /\ captures' = captures + 1
    /\ content' = captures'
    /\ UNCHANGED <<deletes, reviewing, reviews, reviewed>>

(* A parse of an older capture saves last: two workers finishing in the     *)
(* other order, or reprocess.ts replaying every artifact.                   *)
Reprocess ==
    /\ \E digest \in 1..captures : digest # content /\ content' = digest
    /\ UNCHANGED <<captures, deletes, reviewing, reviews, reviewed>>

(* DELETE /sessions/:id.  The reviews go with the row.                      *)
DeleteRow ==
    /\ content # Gone
    /\ deletes < MaxDeletes
    /\ content' = Gone
    /\ deletes' = deletes + 1
    /\ reviews' = {}
    /\ UNCHANGED <<captures, reviewing, reviewed>>

(* completeReview reads the session.                                        *)
ReadForReview ==
    /\ reviewing = Gone
    /\ content # Gone
    /\ reviewing' = content
    /\ UNCHANGED <<content, captures, deletes, reviews, reviewed>>

(* completeReview stores the review of what it read; the row needs its      *)
(* session.                                                                 *)
SaveReview ==
    /\ reviewing # Gone
    /\ reviewing' = Gone
    /\ IF content # Gone
       THEN reviews' = reviews \cup {reviewing} /\ reviewed' = reviewed \cup {reviewing}
       ELSE UNCHANGED <<reviews, reviewed>>
    /\ UNCHANGED <<content, captures, deletes>>

(* What requireCurrentReview and getCurrentReview ask of a digest.          *)
IsReviewed(digest) == digest \in reviews

(* Every step but a deletion, which takes rows of other tables along.       *)
SessionStep == Capture \/ Reprocess \/ ReadForReview \/ SaveReview
=============================================================================
