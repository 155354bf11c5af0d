--------------------------- MODULE CommandChannel ---------------------------
(* The command channel of one machine (server/src/machines.ts, store/postgres/ *)
(* machines.ts, cli/src/listen.rs): the archive queues commands, every stream   *)
(* a listener opens replays the unacknowledged ones and polls for new ones, and *)
(* the listener writes each bundle to disk before it acknowledges the command.  *)
(* Polls of one stream overlap, listeners die unnoticed, acknowledgements are   *)
(* lost, the machine's tokens are revoked, and a tool goes on writing to a      *)
(* session that was materialized.                                               *)
EXTENDS Naturals, Sequences, FiniteSets

CONSTANTS
    Commands,       \* commands queued for the machine, in this order
    Stream,         \* streams of the machine that may be open at once
    Poll,           \* polls of one stream that may be under way at once
    IdleTimeout,    \* the listener runs with --idle-timeout-seconds
    MaxFaults       \* bound on listeners that die and requests that fail

ASSUME ChannelAssumption == Commands \in Nat /\ IdleTimeout \in BOOLEAN /\ MaxFaults \in Nat

Command == 1..Commands
NoCommand == 0

VARIABLES
    command,    \* machine_commands.status, "none" before the row exists
    onDisk,     \* the bundle's file: "absent", "written", "edited" by its tool
    stream,     \* server side: [open, initial, revoked]
    poll,       \* [pc, batch]
    listener,   \* client side: [on, unread, at, outcome]
    faults

channelVars == <<command, onDisk, stream, poll, listener, faults>>

NoPoll == [pc |-> "idle", batch |-> {}]
NoListener == [on |-> FALSE, unread |-> <<>>, at |-> NoCommand, outcome |-> "none"]
ChannelFault == faults < MaxFaults /\ faults' = faults + 1

ChannelInit ==
    /\ command = [x \in Command |-> "none"] /\ onDisk = [x \in Command |-> "absent"]
    /\ stream = [s \in Stream |-> [open |-> FALSE, initial |-> TRUE, revoked |-> FALSE]]
    /\ poll = [p \in Stream \X Poll |-> NoPoll] /\ listener = [s \in Stream |-> NoListener]
    /\ faults = 0

(* materialize: the conversion is ready and the machine exists. *)
SendCommand(x) ==
    /\ command[x] = "none" /\ \A y \in 1..(x - 1): command[y] # "none"
    /\ command' = [command EXCEPT ![x] = "pending"]
    /\ UNCHANGED <<onDisk, stream, poll, listener, faults>>

(* listen mints a token and opens a stream; the archive is not told that the   *)
(* listener before it is gone.                                                 *)
Listen(s) ==
    /\ ~stream[s].open /\ \A o \in Stream: ~listener[o].on
    /\ \A i \in Poll: poll[<<s, i>>].pc = "idle"
    /\ stream' = [stream EXCEPT ![s] = [open |-> TRUE, initial |-> TRUE, revoked |-> FALSE]]
    /\ listener' = [listener EXCEPT ![s] = [NoListener EXCEPT !.on = TRUE]]
    /\ UNCHANGED <<command, onDisk, poll, faults>>

(* tick: a poll first asks whether the token is still live. *)
PollLive(s, i) ==
    /\ stream[s].open /\ poll[<<s, i>>].pc = "idle"
    /\ IF stream[s].revoked
       THEN stream' = [stream EXCEPT ![s].open = FALSE] /\ UNCHANGED poll
       ELSE poll' = [poll EXCEPT ![<<s, i>>].pc = "list"] /\ UNCHANGED stream
    /\ UNCHANGED <<command, onDisk, listener, faults>>

(* Mutant: a new stream does not replay what an older one delivered. *)
BatchPending(s) == {x \in Command: command[x] = "pending"}

Batch(s) == {x \in Command: command[x] = "pending" \/ (stream[s].initial /\ command[x] = "delivered")}

(* The commands of B in the order they were queued.                            *)
Ordered(B) ==
    [n \in 1..Cardinality(B) |-> CHOOSE x \in B: Cardinality({y \in B: y <= x}) = n]

(* The list and the sends; a stream closed meanwhile drops what it is given,   *)
(* and the batch is marked all the same.                                       *)
PollSend(s, i) ==
    /\ poll[<<s, i>>].pc = "list"
    /\ stream' = [stream EXCEPT ![s].initial = FALSE]
    /\ poll' = [poll EXCEPT ![<<s, i>>] =
            IF Batch(s) = {} THEN NoPoll ELSE [@ EXCEPT !.pc = "mark", !.batch = Batch(s)]]
    /\ listener' = [listener EXCEPT ![s].unread =
            IF stream[s].open /\ listener[s].on THEN @ \o Ordered(Batch(s)) ELSE @]
    /\ UNCHANGED <<command, onDisk, faults>>

(* markMachineCommandsDelivered: only what is still pending. *)
MarkDelivered(s, i) ==
    /\ poll[<<s, i>>].pc = "mark"
    /\ command' = [x \in Command |->
            IF x \in poll[<<s, i>>].batch /\ command[x] = "pending" THEN "delivered" ELSE command[x]]
    /\ poll' = [poll EXCEPT ![<<s, i>>] = NoPoll]
    /\ UNCHANGED <<onDisk, stream, listener, faults>>

(* A query that fails ends the poll and the stream. *)
PollFails(s, i) ==
    /\ ChannelFault /\ poll[<<s, i>>].pc # "idle"
    /\ poll' = [poll EXCEPT ![<<s, i>>] = NoPoll] /\ stream' = [stream EXCEPT ![s].open = FALSE]
    /\ UNCHANGED <<command, onDisk, listener>>

(* The archive learns that nobody reads: at once after an exit, whenever TCP   *)
(* gives up after a machine that went away.                                    *)
Teardown(s) ==
    /\ stream[s].open /\ ~listener[s].on /\ stream' = [stream EXCEPT ![s].open = FALSE]
    /\ UNCHANGED <<command, onDisk, poll, listener, faults>>

RevokeTokens ==
    /\ ChannelFault /\ stream' = [s \in Stream |-> [stream[s] EXCEPT !.revoked = TRUE]]
    /\ UNCHANGED <<command, onDisk, poll, listener>>

Busy(s) == listener[s].at # NoCommand
Next1(s) == Head(listener[s].unread)

(* Mutant: a bundle that could not be written is acknowledged as written. *)
ApplyAnyway(s) ==
    /\ ~Busy(s) /\ listener[s].unread # <<>>
    /\ UNCHANGED onDisk
    /\ listener' = [listener EXCEPT ![s].at = Next1(s), ![s].outcome = "completed", ![s].unread = Tail(@)]
    /\ UNCHANGED <<command, stream, poll, faults>>

(* apply_command: a download or a write may fail, a bundle already there is    *)
(* unchanged, one its tool has continued is a collision.                       *)
ApplyCommand(s) ==
    /\ ~Busy(s) /\ listener[s].unread # <<>>
    /\ \E outcome \in {"completed", "failed"}:
          /\ onDisk[Next1(s)] = "edited" => outcome = "failed"
          /\ onDisk' = IF outcome = "completed" THEN [onDisk EXCEPT ![Next1(s)] = "written"] ELSE onDisk
          /\ listener' = [listener EXCEPT ![s].at = Next1(s), ![s].outcome = outcome, ![s].unread = Tail(@)]
    /\ UNCHANGED <<command, stream, poll, faults>>

Applied(s) == listener' = [listener EXCEPT ![s].at = NoCommand, ![s].outcome = "none"]

(* ackMachineCommand writes the outcome over any status; with a revoked token  *)
(* it is refused, and a refused or lost acknowledgement is only reported.      *)
Acknowledge(s) ==
    /\ Busy(s) /\ ~stream[s].revoked
    /\ command' = [command EXCEPT ![listener[s].at] = listener[s].outcome]
    /\ Applied(s) /\ UNCHANGED <<onDisk, stream, poll, faults>>
AckLost(s) ==
    /\ Busy(s) /\ IF stream[s].revoked THEN UNCHANGED faults ELSE ChannelFault
    /\ Applied(s) /\ UNCHANGED <<command, onDisk, stream, poll>>

(* The listener ends: the stream did, or nothing came for the idle window,     *)
(* which outlasts the first poll.                                              *)
ListenEnds(s) ==
    /\ listener[s].on /\ ~Busy(s) /\ listener[s].unread = <<>>
    /\ ~stream[s].open \/ (IdleTimeout /\ ~stream[s].initial)
    /\ listener' = [listener EXCEPT ![s] = NoListener]
    /\ UNCHANGED <<command, onDisk, stream, poll, faults>>

(* A listener that dies loses what it had not read; the bundle it was at is on *)
(* disk, whole, or not at all (Materializer).                                  *)
ListenerDies(s) ==
    /\ ChannelFault /\ listener[s].on
    /\ listener' = [listener EXCEPT ![s] = NoListener]
    /\ UNCHANGED <<command, onDisk, stream, poll>>

(* The materialized session is resumed in its tool. *)
Resume(x) ==
    /\ onDisk[x] = "written" /\ onDisk' = [onDisk EXCEPT ![x] = "edited"]
    /\ UNCHANGED <<command, stream, poll, listener, faults>>

Archive(s, i) == PollLive(s, i) \/ PollSend(s, i) \/ MarkDelivered(s, i)
Client(s) == ApplyCommand(s) \/ Acknowledge(s) \/ AckLost(s)

ChannelNext ==
    \/ \E x \in Command: SendCommand(x) \/ Resume(x)
    \/ \E s \in Stream: Listen(s) \/ Teardown(s) \/ Client(s) \/ ListenEnds(s) \/ ListenerDies(s)
    \/ \E s \in Stream, i \in Poll: Archive(s, i) \/ PollFails(s, i)
    \/ RevokeTokens

ChannelSpec == ChannelInit /\ [][ChannelNext]_channelVars

(* The interval keeps firing, a listener works through what it received, TCP   *)
(* gives up on a peer that is gone, and a wrapper restarts a listener.         *)
ChannelFairness ==
    /\ \A s \in Stream: WF_channelVars(Client(s)) /\ WF_channelVars(ListenEnds(s)) /\ WF_channelVars(Teardown(s))
    /\ \A s \in Stream, i \in Poll: WF_channelVars(Archive(s, i))
    /\ WF_channelVars(\E s \in Stream: Listen(s))

-----------------------------------------------------------------------------
(* A command leaves the replay set through an acknowledgement and nothing      *)
(* else, however polls overlap (machines.ts streamCommands), and comes back    *)
(* into it never.                                                              *)
SettledStaysSettled ==
    [][\A x \in Command: command[x] \in {"completed", "failed"} =>
          command'[x] \in {"completed", "failed"}]_channelVars

(* A command recorded as completed was written to disk first, through lost     *)
(* acknowledgements and replays (listen.rs).                                   *)
CompletedIsOnDisk(x) == command[x] = "completed" => onDisk[x] # "absent"

(* A command is in the end applied or refused by its machine, whatever is lost *)
(* on the way: "an interrupted materialization is replayed rather than lost"   *)
(* (skill/references/robot-api.md).                                            *)
CommandSettles == \A x \in Command: command[x] = "pending" ~> command[x] \in {"completed", "failed"}

(* All of it together, through every replay, overlap and loss: a bundle is     *)
(* written only for a command that was queued and never over what its tool     *)
(* continued, and an outcome is recorded only for a queued command.            *)
Verdict(status) ==
    CASE status = "none" -> "unasked"
      [] status \in {"pending", "delivered"} -> "waiting"
      [] OTHER -> status
Promised == INSTANCE CommandPromise WITH
    verdict <- [x \in Command |-> Verdict(command[x])], bundle <- onDisk

(* What the channel never does, however its parts interleave (machines.ts,     *)
(* listen.rs).                                                                 *)
ChannelHolds == [](\A x \in Command: CompletedIsOnDisk(x)) /\ SettledStaysSettled /\ Promised!Spec

-----------------------------------------------------------------------------
(* The inductive invariant: a listener that is busy knows what became of its   *)
(* command, and calls it completed only with the bundle on disk.               *)
ChannelTypeOK ==
    /\ command \in [Command -> {"none", "pending", "delivered", "completed", "failed"}]
    /\ onDisk \in [Command -> {"absent", "written", "edited"}]
    /\ DOMAIN listener = Stream /\ \A s \in Stream: {"at", "outcome"} \subseteq DOMAIN listener[s]

OutcomeOf(s) ==
    /\ Busy(s) => listener[s].outcome \in {"completed", "failed"}
    /\ \A x \in Command: listener[s].at = x /\ listener[s].outcome = "completed" => onDisk[x] # "absent"

ChannelInv ==
    /\ ChannelTypeOK
    /\ \A s \in Stream: OutcomeOf(s)
    /\ \A x \in Command: CompletedIsOnDisk(x)

(* What a listener has received, and what it is at, was queued.                *)
Given == {x \in Command: command[x] # "none"}
Hears(l, G) ==
    /\ {"unread", "at", "outcome"} \subseteq DOMAIN l
    /\ l.unread \in Seq(G) /\ l.at \in G \cup {NoCommand}
ReceivedWasGiven == \A s \in Stream: Hears(listener[s], Given)
=============================================================================
