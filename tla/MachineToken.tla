---------------------------- MODULE MachineToken ----------------------------
(* The credential an agent uploads with: memoar-daemon/transport.rs and        *)
(* memoar-cli/machine.rs against auth/credentials.service.ts.  A sweep mints   *)
(* one token for its two transports, each replaces its own when it has less to *)
(* live than a request may last, and the archive reads a token when the body   *)
(* has arrived.                                                                *)
EXTENDS Integers

CONSTANTS Lifetime, Margin, Deadline,  \* MACHINE_TOKEN_TTL_SECONDS, CREDENTIAL_MARGIN, UPLOAD_TIMEOUT
          Skew,      \* how far the agent's clock may be off, either way
          MaxClock, MaxSweeps, MaxRevocations

ASSUME TokenAssumption ==
    /\ {Lifetime, Margin, Deadline, Skew} \subseteq Nat
    /\ Deadline <= Margin /\ Margin + Skew < Lifetime

Transport == {"transcripts", "memory"}

VARIABLES
    archiveClock,    \* the archive's clock
    ahead,    \* what the agent's clock shows beyond it
    held,     \* transport -> its token: when made, after how many revocations, whether its expiry could be read
    upload,  \* the one request under way: by which transport, with which token, sent when
    refused,  \* why a request was last refused
    round,    \* sweeps so far, and how many revocations the last one came after
    revocations

tokenVars == <<archiveClock, ahead, held, upload, refused, round, revocations>>

NoToken == [made |-> -1, after |-> 0, readable |-> FALSE]

Quiet == [by |-> "none", token |-> NoToken, since |-> 0]

TokenInit ==
    /\ archiveClock = 0 /\ ahead \in -Skew..Skew
    /\ held = [t \in Transport |-> NoToken]
    /\ upload = Quiet /\ refused = "no" /\ round = [count |-> 0, after |-> 0] /\ revocations = 0

(* A request that outlasts its deadline is given up by its client. *)
TimePasses ==
    /\ archiveClock < MaxClock
    /\ upload = Quiet \/ archiveClock < upload.since + Deadline
    /\ archiveClock' = archiveClock + 1
    /\ UNCHANGED <<ahead, held, upload, refused, round, revocations>>

(* issueMachineToken, and the expiry its answer carries: nothing where the     *)
(* agent cannot read it.                                                       *)
Minted == {[made |-> archiveClock, after |-> revocations, readable |-> r] : r \in BOOLEAN}

(* One token for both transports of a sweep, each with a copy of its own. *)
StartSweep ==
    /\ upload = Quiet /\ round.count < MaxSweeps
    /\ \E token \in Minted : held' = [t \in Transport |-> token]
    /\ round' = [count |-> round.count + 1, after |-> revocations] /\ refused' = "no"
    /\ UNCHANGED <<archiveClock, ahead, upload, revocations>>

Remaining(t) == held[t].made + Lifetime - (archiveClock + ahead)

(* Any life left in it will do. *)
UsableAlive(t) == held[t].readable /\ Remaining(t) > 0

(* usable_token: what is held, if it outlives the deadline by the agent's      *)
(* clock; an expiry that could not be read is no reason to keep a token.       *)
Usable(t) == held[t].readable /\ Remaining(t) > Margin

Sends(t, token) ==
    /\ held' = [held EXCEPT ![t] = token]
    /\ upload' = [by |-> t, token |-> token, since |-> archiveClock]

Send(t) ==
    /\ upload = Quiet /\ round.count > 0
    /\ \E token \in (IF Usable(t) THEN {held[t]} ELSE Minted) : Sends(t, token)
    /\ refused' = "no"
    /\ UNCHANGED <<archiveClock, ahead, round, revocations>>

(* A failed mint fails the request before it is sent. *)
MintFails(t) ==
    /\ upload = Quiet /\ round.count > 0 /\ ~Usable(t)
    /\ refused' = "mint"
    /\ UNCHANGED <<archiveClock, ahead, held, upload, round, revocations>>

Expired(made) == archiveClock >= made + Lifetime

(* authenticateMachineToken, once the body has arrived. *)
Authenticate ==
    /\ upload # Quiet
    /\ refused' = IF upload.token.after < revocations THEN "revoked"
                  ELSE IF Expired(upload.token.made) THEN "expired" ELSE "no"
    /\ upload' = Quiet
    /\ UNCHANGED <<archiveClock, ahead, held, round, revocations>>

(* The connection is lost, or the deadline passes. *)
SendFails ==
    /\ upload # Quiet
    /\ upload' = Quiet
    /\ UNCHANGED <<archiveClock, ahead, held, refused, round, revocations>>

RevokeHeld ==
    /\ revocations < MaxRevocations
    /\ revocations' = revocations + 1
    /\ UNCHANGED <<archiveClock, ahead, held, upload, refused, round>>

TokenNext ==
    \/ TimePasses \/ StartSweep \/ Authenticate \/ SendFails \/ RevokeHeld
    \/ \E t \in Transport : Send(t) \/ MintFails(t)

TokenSpec == TokenInit /\ [][TokenNext]_tokenVars

-----------------------------------------------------------------------------
(* An upload that ends within its deadline is not refused for a token that     *)
(* died under it (CREDENTIAL_MARGIN), except by as much as the agent's clock   *)
(* is behind the archive's.                                                    *)
DiedOfTheClock == refused = "expired" => Deadline - ahead > Margin

(* A revocation costs the sweep it falls into and no later one, for the next   *)
(* sweep mints (machine-revocation.ts revokeTokens).                           *)
RevokedIsReplaced == refused = "revoked" => round.after < revocations

(* No token is replaced at the moment it is made: a token is born usable       *)
(* (transport.rs on the lifetime), unless its expiry could not be read.        *)
BornUsable ==
    [][\A t \in Transport :
          (held'[t] # held[t] /\ round' = round /\ held[t].readable) => archiveClock > held[t].made]_tokenVars

(* A credential is refused for what it is and is not renewed for nothing       *)
(* (transport.rs, credentials.service.ts).                                     *)
TokensHold == [](DiedOfTheClock /\ RevokedIsReplaced) /\ BornUsable

-----------------------------------------------------------------------------
(* The inductive invariant: types, and what was so when the request under way  *)
(* was sent.                                                                   *)
Token == [made : Int, after : Nat, readable : BOOLEAN]

TokenTypeOK ==
    /\ archiveClock \in Nat /\ ahead \in -Skew..Skew
    /\ held \in [Transport -> Token]
    /\ upload \in [by : Transport \cup {"none"}, token : Token, since : Nat]
    /\ upload.by = "none" => upload = Quiet
    /\ refused \in {"no", "mint", "revoked", "expired"}
    /\ round \in [count : Nat, after : Nat] /\ revocations \in Nat

(* It was new when it was sent, or had the margin by the agent's clock, and    *)
(* the client has not given it up.                                             *)
UploadFresh ==
    upload.by # "none" =>
        /\ archiveClock <= upload.since + Deadline
        /\ \/ upload.token.made = upload.since
           \/ upload.token.made + Lifetime - (upload.since + ahead) > Margin

(* No token is older than the sweep.                                           *)
OfThisSweep ==
    /\ round.after <= revocations
    /\ \A t \in Transport : held[t].after >= round.after
    /\ upload.by # "none" => upload.token.after >= round.after

TokenInv == TokenTypeOK /\ UploadFresh /\ OfThisSweep /\ DiedOfTheClock /\ RevokedIsReplaced
=============================================================================
