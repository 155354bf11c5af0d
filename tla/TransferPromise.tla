--------------------------- MODULE TransferPromise ---------------------------
(***************************************************************************)
(* What a direct transfer promises, without saying how it is kept: a       *)
(* recipient comes to hold a session at most once, only content a review   *)
(* was completed for, and never one they refused.                          *)
(***************************************************************************)
CONSTANT Transfer

VARIABLES
    held,     \* what the recipient holds of each transfer
    refused,  \* transfers the recipient turned down
    vetted    \* content the sender completed a review for

promiseVars == <<held, refused, vetted>>

Init ==
    /\ held = [t \in Transfer |-> {}]
    /\ refused = {}
    /\ vetted = {}

HandOver(t) ==
    /\ held[t] = {}
    /\ t \notin refused
    /\ \E d \in vetted : held' = [held EXCEPT ![t] = {d}]
    /\ UNCHANGED <<refused, vetted>>

Refuse(t) ==
    /\ held[t] = {}
    /\ refused' = refused \cup {t}
    /\ UNCHANGED <<held, vetted>>

Vet ==
    /\ vetted \subseteq vetted'
    /\ UNCHANGED <<held, refused>>

Next == Vet \/ \E t \in Transfer : HandOver(t) \/ Refuse(t)

Spec == Init /\ [][Next]_promiseVars
=============================================================================
