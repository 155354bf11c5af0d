--------------------------- MODULE CapturePromise ---------------------------
(***************************************************************************)
(* What the capture path promises about one transcript, without saying how *)
(* it is kept: it is captured, the server comes to hold it, it is queued   *)
(* for parsing, and only then may the agent call it acknowledged.  What is *)
(* captured or queued is not taken back, and what is held is taken back by *)
(* retention alone, once it was read into sessions.  An acknowledgement    *)
(* may be: a second process that was still offering the row can undo it.   *)
(***************************************************************************)
EXTENDS Artifacts

VARIABLES
    captured,  \* rows the agent has taken responsibility for
    held,      \* digests the server has a row for
    sessions,  \* digests that were read into sessions
    queued,    \* digests a parse was asked for
    acked      \* rows the agent will not offer again

promiseVars == <<captured, held, sessions, queued, acked>>

Init ==
    /\ captured = {}
    /\ held = {}
    /\ sessions = {}
    /\ queued = {}
    /\ acked = {}

TakeIn(a) ==
    /\ captured' = captured \cup {a}
    /\ UNCHANGED <<held, sessions, queued, acked>>

Hold(s) ==
    /\ s \in Hashes(captured)
    /\ held' = held \cup {s}
    /\ UNCHANGED <<captured, sessions, queued, acked>>

(* A parse reads what is held, or fails and leaves nothing read.            *)
Read(s) ==
    /\ s \in held
    /\ sessions' \in {sessions \cup {s}, sessions \ {s}}
    /\ UNCHANGED <<captured, held, queued, acked>>

Expire(S) ==
    /\ S \subseteq sessions
    /\ held' = held \ S
    /\ sessions' = sessions \ S
    /\ UNCHANGED <<captured, queued, acked>>

(* One request may ask for several parses.                                  *)
AskParse(S) ==
    /\ S \subseteq held
    /\ queued' = queued \cup S
    /\ UNCHANGED <<captured, held, sessions, acked>>

Acknowledge(a) ==
    /\ a \in captured
    /\ Hash(a) \in queued
    /\ acked' = acked \cup {a}
    /\ UNCHANGED <<captured, held, sessions, queued>>

OfferAgain(a) ==
    /\ acked' = acked \ {a}
    /\ UNCHANGED <<captured, held, sessions, queued>>

Next ==
    \/ \E a \in Capture : TakeIn(a) \/ Acknowledge(a) \/ OfferAgain(a)
    \/ \E s \in Sha : Hold(s) \/ Read(s)
    \/ \E S \in SUBSET Sha : AskParse(S) \/ Expire(S)

Spec == Init /\ [][Next]_promiseVars
=============================================================================
