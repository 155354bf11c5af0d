----------------------------- MODULE ArchiveProofs -----------------------------
(* Proofs about the archive's records of machines, commands, sign-ins,         *)
(* conversions, rate limits, the distillation budget, the failures it has      *)
(* counted and the sessions it stores, each with calls that read, wait and     *)
(* write in steps of their own: the inductive invariants are stated in the     *)
(* components' modules.                                                        *)
EXTENDS Machines, CommandChannel, Accounts, ConversionJobs, RateLimits, Distillation,
        ErrorGroups, SessionStore, FiniteSetTheorems, SequenceTheorems, WellFoundedInduction, TLAPS

-----------------------------------------------------------------------------
(* What several of the proofs use.                                          *)
LEMMA LeastOfNaturals == ASSUME NEW T \in SUBSET Nat, T # {} PROVE \E x \in T : \A y \in T : x <= y
<1>1. PICK R : R = OpToRel(<, Nat)
  OBVIOUS
<1>2. PICK x \in T : \A y \in T : <<y, x>> \notin R
  BY <1>1, NatLessThanWellFounded, WFMin
<1>3. \A y \in T : ~(y < x)
  BY <1>1, <1>2 DEF OpToRel
<1>4. \A y \in T : x <= y
  BY <1>3
<1>5. QED
  BY <1>4

-----------------------------------------------------------------------------
(* The command channel.                                                     *)

LEMMA ChannelInitInv == ChannelInit => ChannelInv
<1> SUFFICES ASSUME ChannelInit PROVE ChannelInv
  OBVIOUS
<1>1. listener = [s \in Stream |-> NoListener]
  BY DEF ChannelInit
<1>2. ChannelTypeOK
  BY <1>1 DEF ChannelInit, ChannelTypeOK, NoListener
<1>3. \A s \in Stream : OutcomeOf(s)
  BY <1>1 DEF OutcomeOf, Busy, NoListener
<1>4. \A x \in Command : CompletedIsOnDisk(x)
  BY DEF ChannelInit, CompletedIsOnDisk
<1>5. QED
  BY <1>2, <1>3, <1>4 DEF ChannelInv

(* A listener moves: to another entry, whatever it has read.                *)
LEMMA ListenerMoves ==
  ASSUME ChannelTypeOK, NEW s \in Stream, NEW rec, {"at", "outcome"} \subseteq DOMAIN rec,
         listener' = [listener EXCEPT ![s] = rec]
  PROVE  /\ DOMAIN listener' = Stream /\ \A o \in Stream: {"at", "outcome"} \subseteq DOMAIN listener'[o]
         /\ listener'[s] = rec
         /\ \A o \in Stream \ {s} : listener'[o] = listener[o]
<1>1. listener'[s] = rec /\ \A o \in Stream \ {s} : listener'[o] = listener[o]
  BY DEF ChannelTypeOK
<1>2. DOMAIN listener' = Stream
  BY DEF ChannelTypeOK
<1>3. \A o \in Stream: {"at", "outcome"} \subseteq DOMAIN listener'[o]
  BY <1>1 DEF ChannelTypeOK
<1>4. QED
  BY <1>1, <1>2, <1>3

(* A step that leaves each listener as it is, at what it was, or at nothing, *)
(* takes no bundle off the disk and completes no command.                   *)
LEMMA ChannelGoesOn ==
  ASSUME ChannelInv, ChannelTypeOK',
         \A s \in Stream : \/ listener'[s].at = listener[s].at /\ listener'[s].outcome = listener[s].outcome
                           \/ listener'[s].at = NoCommand,
         \A x \in Command : onDisk[x] # "absent" => onDisk'[x] # "absent",
         \A x \in Command : command'[x] = "completed" => command[x] = "completed"
  PROVE  ChannelInv'
<1>1. ASSUME NEW s \in Stream PROVE OutcomeOf(s)'
  <2>1. \A x \in Command : x # NoCommand
    BY ChannelAssumption DEF Command, NoCommand
  <2>2. QED
    BY <2>1 DEF ChannelInv, OutcomeOf, Busy
<1>2. QED
  BY <1>1 DEF ChannelInv, CompletedIsOnDisk

LEMMA ChannelNextInv == ChannelInv /\ [ChannelNext]_channelVars => ChannelInv'
<1> SUFFICES ASSUME ChannelInv, [ChannelNext]_channelVars PROVE ChannelInv'
  OBVIOUS
<1>t. ChannelTypeOK
  BY DEF ChannelInv
<1>1. ASSUME NEW x \in Command, SendCommand(x) PROVE ChannelInv'
  <2>1. ChannelTypeOK'
    BY <1>t, <1>1 DEF SendCommand, ChannelTypeOK
  <2>2. QED
    BY <1>t, <1>1, <2>1, ChannelGoesOn DEF SendCommand, ChannelTypeOK
<1>2. ASSUME NEW x \in Command, Resume(x) PROVE ChannelInv'
  <2>1. ChannelTypeOK'
    BY <1>t, <1>2 DEF Resume, ChannelTypeOK
  <2>2. QED
    BY <1>t, <1>2, <2>1, ChannelGoesOn DEF Resume, ChannelTypeOK
<1>3. ASSUME NEW s \in Stream, Listen(s) \/ ListenEnds(s) \/ ListenerDies(s) PROVE ChannelInv'
  <2>1. PICK rec \in {NoListener, [NoListener EXCEPT !.on = TRUE]} : listener' = [listener EXCEPT ![s] = rec]
    BY <1>3 DEF Listen, ListenEnds, ListenerDies
  <2>2. UNCHANGED <<command, onDisk>>
    BY <1>3 DEF Listen, ListenEnds, ListenerDies
  <2>3. {"at", "outcome"} \subseteq DOMAIN rec /\ rec.at = NoCommand
    BY <2>1 DEF NoListener
  <2>4. ChannelTypeOK'
    BY <1>t, <2>1, <2>2, <2>3, ListenerMoves DEF ChannelTypeOK
  <2>5. \A o \in Stream : listener'[o] = listener[o] \/ listener'[o].at = NoCommand
    BY <1>t, <2>1, <2>3, ListenerMoves
  <2>6. QED
    BY <2>2, <2>4, <2>5, ChannelGoesOn
<1>a. ASSUME NEW s \in Stream, Applied(s)
      PROVE  /\ DOMAIN listener' = Stream /\ \A o \in Stream: {"at", "outcome"} \subseteq DOMAIN listener'[o]
             /\ \A o \in Stream : listener'[o] = listener[o] \/ listener'[o].at = NoCommand
  <2> DEFINE rec == [listener[s] EXCEPT !.at = NoCommand, !.outcome = "none"]
  <2>1. listener' = [listener EXCEPT ![s] = rec]
    BY <1>t, <1>a DEF Applied, ChannelTypeOK
  <2>2. {"at", "outcome"} \subseteq DOMAIN rec /\ rec.at = NoCommand
    BY <1>t DEF ChannelTypeOK
  <2> HIDE DEF rec
  <2>3. QED
    BY <1>t, <2>1, <2>2, ListenerMoves
<1>5. ASSUME NEW s \in Stream, AckLost(s) PROVE ChannelInv'
  <2>1. UNCHANGED <<command, onDisk>> /\ Applied(s)
    BY <1>5 DEF AckLost
  <2>2. ChannelTypeOK'
    BY <1>t, <1>a, <2>1 DEF ChannelTypeOK
  <2>3. QED
    BY <1>a, <2>1, <2>2, ChannelGoesOn
<1>6. ASSUME NEW s \in Stream, Acknowledge(s) PROVE ChannelInv'
  <2>1. /\ UNCHANGED onDisk /\ Applied(s) /\ Busy(s)
        /\ command' = [command EXCEPT ![listener[s].at] = listener[s].outcome]
    BY <1>6 DEF Acknowledge
  <2>2. OutcomeOf(s)
    BY DEF ChannelInv
  <2>3. ChannelTypeOK'
    BY <1>t, <1>a, <2>1, <2>2 DEF ChannelTypeOK, OutcomeOf
  <2>4. \A o \in Stream : listener'[o] = listener[o] \/ listener'[o].at = NoCommand
    BY <1>a, <2>1
  <2>5. ASSUME NEW o \in Stream PROVE OutcomeOf(o)'
    <3>1. \A x \in Command : x # NoCommand
      BY ChannelAssumption DEF Command, NoCommand
    <3>2. QED
      BY <2>1, <2>4, <3>1 DEF ChannelInv, OutcomeOf, Busy
  <2>6. ASSUME NEW x \in Command PROVE CompletedIsOnDisk(x)'
    BY <1>t, <2>1, <2>2 DEF ChannelInv, OutcomeOf, CompletedIsOnDisk, ChannelTypeOK
  <2>7. QED
    BY <2>3, <2>5, <2>6 DEF ChannelInv
<1>7. ASSUME NEW s \in Stream, ApplyCommand(s) PROVE ChannelInv'
  <2>1. PICK outcome \in {"completed", "failed"} :
            /\ onDisk' = IF outcome = "completed" THEN [onDisk EXCEPT ![Next1(s)] = "written"] ELSE onDisk
            /\ listener' = [listener EXCEPT ![s].at = Next1(s), ![s].outcome = outcome, ![s].unread = Tail(@)]
    BY <1>7 DEF ApplyCommand
  <2>2. UNCHANGED command
    BY <1>7 DEF ApplyCommand
  <2> DEFINE next == Next1(s)
             rest == Tail(listener[s].unread)
  <2>3. listener' = [listener EXCEPT ![s] = [listener[s] EXCEPT !.at = next, !.outcome = outcome, !.unread = rest]]
    BY <1>t, <2>1 DEF ChannelTypeOK
  <2> HIDE DEF next, rest
  <2> DEFINE rec == [listener[s] EXCEPT !.at = next, !.outcome = outcome, !.unread = rest]
  <2>4. {"at", "outcome"} \subseteq DOMAIN rec /\ rec.at = next /\ rec.outcome = outcome
    BY <1>t DEF ChannelTypeOK
  <2> HIDE DEF rec
  <2>5. /\ DOMAIN listener' = Stream /\ \A o \in Stream: {"at", "outcome"} \subseteq DOMAIN listener'[o]
        /\ listener'[s] = rec
        /\ \A o \in Stream \ {s} : listener'[o] = listener[o]
    BY <1>t, <2>3, <2>4, ListenerMoves DEF rec
  <2>6. onDisk' = IF outcome = "completed" THEN [onDisk EXCEPT ![next] = "written"] ELSE onDisk
    BY <2>1 DEF next
  <2>7. ChannelTypeOK'
    BY <1>t, <2>2, <2>5, <2>6 DEF ChannelTypeOK
  <2>8. listener'[s].at = next /\ listener'[s].outcome = outcome
    BY <2>4, <2>5
  <2>9. \A x \in Command : /\ onDisk[x] # "absent" => onDisk'[x] # "absent"
                           /\ outcome = "completed" /\ x = next => onDisk'[x] # "absent"
    BY <1>t, <2>6 DEF ChannelTypeOK
  <2>10. OutcomeOf(s)'
    BY <2>8, <2>9 DEF OutcomeOf, Busy
  <2>11. ASSUME NEW o \in Stream \ {s} PROVE OutcomeOf(o)'
    BY <2>5, <2>9 DEF ChannelInv, OutcomeOf, Busy
  <2>12. \A x \in Command : CompletedIsOnDisk(x)'
    BY <2>2, <2>9 DEF ChannelInv, CompletedIsOnDisk
  <2>13. QED
    BY <2>7, <2>10, <2>11, <2>12 DEF ChannelInv
<1>8. ASSUME NEW s \in Stream, NEW i \in Poll, PollSend(s, i) PROVE ChannelInv'
  <2>1. UNCHANGED <<command, onDisk>> /\
        listener' = [listener EXCEPT ![s].unread =
            IF stream[s].open /\ listener[s].on THEN @ \o Ordered(Batch(s)) ELSE @]
    BY <1>8 DEF PollSend
  <2> DEFINE now == IF stream[s].open /\ listener[s].on
                    THEN listener[s].unread \o Ordered(Batch(s)) ELSE listener[s].unread
  <2>2. listener' = [listener EXCEPT ![s] = [listener[s] EXCEPT !.unread = now]]
    BY <1>t, <2>1 DEF ChannelTypeOK
  <2> HIDE DEF now
  <2> DEFINE rec == [listener[s] EXCEPT !.unread = now]
  <2>3. {"at", "outcome"} \subseteq DOMAIN rec /\ rec.at = listener[s].at /\ rec.outcome = listener[s].outcome
    BY <1>t DEF ChannelTypeOK
  <2>r. listener' = [listener EXCEPT ![s] = rec]
    BY <2>2
  <2> HIDE DEF rec
  <2>4. ChannelTypeOK'
    BY <1>t, <2>1, <2>3, <2>r, ListenerMoves DEF ChannelTypeOK
  <2>5. \A o \in Stream : listener'[o].at = listener[o].at /\ listener'[o].outcome = listener[o].outcome
    BY <1>t, <2>3, <2>r, ListenerMoves
  <2>6. QED
    BY <2>1, <2>4, <2>5, ChannelGoesOn
<1>9. ASSUME NEW s \in Stream, NEW i \in Poll, MarkDelivered(s, i) PROVE ChannelInv'
  <2>1. ChannelTypeOK'
    BY <1>t, <1>9 DEF MarkDelivered, ChannelTypeOK
  <2>2. QED
    BY <1>9, <2>1, ChannelGoesOn DEF MarkDelivered
<1>10. ASSUME UNCHANGED <<command, onDisk, listener>> PROVE ChannelInv'
  BY <1>10, <1>t, ChannelGoesOn DEF ChannelTypeOK
<1>11. CASE UNCHANGED channelVars
  BY <1>10, <1>11 DEF channelVars
<1>12. CASE RevokeTokens \/ \E s \in Stream : Teardown(s) \/ \E i \in Poll : PollLive(s, i) \/ PollFails(s, i)
  BY <1>10, <1>12 DEF RevokeTokens, Teardown, PollLive, PollFails
<1>13. QED
  BY <1>1, <1>2, <1>3, <1>5, <1>6, <1>7, <1>8, <1>9, <1>11, <1>12 DEF ChannelNext, Client, Archive

LEMMA StepSettles ==
  ASSUME ChannelInv, ChannelNext, NEW x \in Command, command[x] \in {"completed", "failed"}
  PROVE  command'[x] \in {"completed", "failed"}
<1>t. ChannelTypeOK
  BY DEF ChannelInv
<1>1. CASE command' = command
  BY <1>1
<1>2. ASSUME NEW s \in Stream, Acknowledge(s) PROVE command'[x] \in {"completed", "failed"}
  <2>1. OutcomeOf(s) /\ Busy(s) /\ command' = [command EXCEPT ![listener[s].at] = listener[s].outcome]
    BY <1>2 DEF ChannelInv, Acknowledge
  <2>2. QED
    BY <1>t, <2>1 DEF ChannelTypeOK, OutcomeOf
<1>3. ASSUME NEW y \in Command, SendCommand(y) PROVE command'[x] \in {"completed", "failed"}
  BY <1>t, <1>3 DEF SendCommand, ChannelTypeOK
<1>4. ASSUME NEW s \in Stream, NEW i \in Poll, MarkDelivered(s, i) PROVE command'[x] \in {"completed", "failed"}
  BY <1>4 DEF MarkDelivered
<1>5. QED
  BY <1>1, <1>2, <1>3, <1>4 DEF ChannelNext, Resume, Listen, Teardown, Client, ApplyCommand, AckLost,
     ListenEnds, ListenerDies, Archive, PollLive, PollSend, PollFails, RevokeTokens

(* The channel keeps CommandPromise.                                        *)

(* The n-th of some commands is the least that has n of them up to it.      *)
LEMMA OrderedIsOf ==
  ASSUME NEW B \in SUBSET Command
  PROVE  Ordered(B) \in Seq(B)
<1> DEFINE Upto(x) == {y \in B : y <= x}
<1>1. Commands \in Nat /\ \A y \in B : y \in Nat /\ y >= 1 /\ y <= Commands
  BY ChannelAssumption DEF Command
<1>2. IsFiniteSet(B)
  <2>1. B \in SUBSET Nat
    BY <1>1
  <2>2. QED
    BY <1>1, <2>1, FS_BoundedSetOfNaturals
<1>3. Cardinality(B) \in Nat
  BY <1>2, FS_CardinalityType
<1>4. ASSUME NEW x \in Nat PROVE IsFiniteSet(Upto(x)) /\ Cardinality(Upto(x)) \in Nat
  <2>1. Upto(x) \in SUBSET B
    OBVIOUS
  <2>2. QED
    BY <1>2, <2>1, FS_Subset, FS_CardinalityType
<1>5. ASSUME NEW n \in 1..Cardinality(B) PROVE \E x \in B : Cardinality(Upto(x)) = n
  <2> DEFINE T == {x \in Nat : Cardinality(Upto(x)) >= n}
  <2>n. n \in Nat /\ n >= 1 /\ n <= Cardinality(B)
    BY <1>3
  <2>1. Upto(Commands) = B
    BY <1>1
  <2>2. Commands \in T
    BY <1>1, <1>3, <2>1, <2>n
  <2>3. PICK x \in T : \A y \in T : x <= y
    BY <2>2, LeastOfNaturals
  <2>4. x \in Nat /\ Cardinality(Upto(x)) >= n
    BY <2>3
  <2>5. x # 0
    <3>1. \A y \in B : ~(y <= 0)
      BY <1>1
    <3>2. x = 0 => Upto(x) = {}
      BY <3>1
    <3>3. QED
      BY <2>4, <2>n, <3>2, FS_EmptySet
  <2>6. x - 1 \in Nat /\ x - 1 \notin T
    BY <2>3, <2>4, <2>5
  <2>7. Cardinality(Upto(x - 1)) < n /\ Cardinality(Upto(x - 1)) \in Nat /\ IsFiniteSet(Upto(x - 1))
    BY <2>6, <2>n, <1>4
  <2>8. \A y \in B : y <= x <=> (y <= x - 1 \/ y = x)
    BY <1>1, <2>4
  <2>9. x \in B
    <3>1. x \notin B => Upto(x) = Upto(x - 1)
      BY <2>8
    <3> HIDE DEF Upto
    <3>2. QED
      BY <2>4, <2>7, <2>n, <3>1
  <2>10. Upto(x) = Upto(x - 1) \cup {x} /\ x \notin Upto(x - 1)
    <3>1. \A y : y \in Upto(x) <=> y \in Upto(x - 1) \/ y = x
      BY <2>4, <2>8, <2>9
    <3>2. x \notin Upto(x - 1)
      BY <2>4
    <3> HIDE DEF Upto
    <3>3. QED
      BY <3>1, <3>2
  <2> HIDE DEF Upto
  <2>11. Cardinality(Upto(x)) = Cardinality(Upto(x - 1)) + 1
    BY <2>7, <2>10, FS_AddElement
  <2>12. Cardinality(Upto(x)) = n
    BY <2>4, <2>7, <2>11, <2>n
  <2>13. QED
    BY <2>9, <2>12
<1>6. Ordered(B) \in [1..Cardinality(B) -> B]
  BY <1>5 DEF Ordered
<1>7. QED
  BY <1>3, <1>6

(* With more commands given, a listener has still received given ones.      *)
LEMMA HearsMore ==
  ASSUME NEW G, NEW H, G \subseteq H, NEW l, Hears(l, G)
  PROVE  Hears(l, H)
<1>1. l.unread \in Seq(H)
  BY SeqDef DEF Hears
<1>2. QED
  BY <1>1 DEF Hears

LEMMA GivenStays ==
  ASSUME ChannelInv, [ChannelNext]_channelVars
  PROVE  Given \subseteq Given'
<1>t. ChannelTypeOK
  BY DEF ChannelInv
<1>1. CASE command' = command
  BY <1>1 DEF Given
<1>2. ASSUME NEW s \in Stream, Acknowledge(s) PROVE Given \subseteq Given'
  <2>1. OutcomeOf(s) /\ Busy(s) /\ command' = [command EXCEPT ![listener[s].at] = listener[s].outcome]
    BY <1>2 DEF ChannelInv, Acknowledge
  <2>2. QED
    BY <1>t, <2>1 DEF ChannelTypeOK, OutcomeOf, Given
<1>3. ASSUME NEW y \in Command, SendCommand(y) PROVE Given \subseteq Given'
  BY <1>t, <1>3 DEF SendCommand, ChannelTypeOK, Given
<1>4. ASSUME NEW s \in Stream, NEW i \in Poll, MarkDelivered(s, i) PROVE Given \subseteq Given'
  BY <1>4 DEF MarkDelivered, Given
<1>5. QED
  BY <1>1, <1>2, <1>3, <1>4 DEF channelVars, ChannelNext, Resume, Listen, Teardown, Client, ApplyCommand,
     AckLost, ListenEnds, ListenerDies, Archive, PollLive, PollSend, PollFails, RevokeTokens

LEMMA ReceivedGoesOn ==
  ASSUME ReceivedWasGiven, Given \subseteq Given', DOMAIN listener = Stream, NEW s \in Stream, NEW rec,
         listener' = [listener EXCEPT ![s] = rec], Hears(rec, Given)
  PROVE  ReceivedWasGiven'
<1>1. \A o \in Stream : Hears(listener'[o], Given)
  BY DEF ReceivedWasGiven
<1>2. \A o \in Stream : Hears(listener'[o], Given')
  BY <1>1, HearsMore
<1>3. QED
  BY <1>2 DEF ReceivedWasGiven

LEMMA NobodyHears == \A G : Hears(NoListener, G) /\ Hears([NoListener EXCEPT !.on = TRUE], G)
<1>1. \A G : << >> \in Seq(G)
  OBVIOUS
<1> DEFINE l == [NoListener EXCEPT !.on = TRUE]
<1>2. \A n \in {NoListener, l} : {"unread", "at", "outcome"} \subseteq DOMAIN n /\ n.unread = << >> /\ n.at = NoCommand
  BY DEF NoListener
<1> HIDE DEF l
<1>3. \A n \in {NoListener, l} : \A G : Hears(n, G)
  BY <1>1, <1>2 DEF Hears
<1>4. QED
  BY <1>3 DEF l

LEMMA ReceivedNext ==
  ASSUME ChannelInv, ReceivedWasGiven, [ChannelNext]_channelVars
  PROVE  ReceivedWasGiven'
<1>1. DOMAIN listener = Stream /\ Given \subseteq Given'
  BY GivenStays DEF ChannelInv, ChannelTypeOK
<1>2. CASE listener' = listener
  <2>1. \A o \in Stream : Hears(listener'[o], Given')
    BY <1>1, <1>2, HearsMore DEF ReceivedWasGiven
  <2>2. QED
    BY <2>1 DEF ReceivedWasGiven
<1>3. ASSUME NEW s \in Stream, Listen(s) \/ ListenEnds(s) \/ ListenerDies(s) PROVE ReceivedWasGiven'
  <2>1. PICK rec \in {NoListener, [NoListener EXCEPT !.on = TRUE]} : listener' = [listener EXCEPT ![s] = rec]
    BY <1>3 DEF Listen, ListenEnds, ListenerDies
  <2>2. Hears(rec, Given)
    BY <2>1, NobodyHears
  <2>3. QED
    BY <1>1, <2>1, <2>2, ReceivedGoesOn
<1>4. ASSUME NEW s \in Stream, Acknowledge(s) \/ AckLost(s) PROVE ReceivedWasGiven'
  <2> DEFINE rec == [listener[s] EXCEPT !.at = NoCommand, !.outcome = "none"]
  <2>1. listener' = [listener EXCEPT ![s] = rec]
    BY <1>1, <1>4 DEF Acknowledge, AckLost, Applied
  <2>2. {"unread", "at", "outcome"} \subseteq DOMAIN listener[s] /\ listener[s].unread \in Seq(Given)
    BY DEF ReceivedWasGiven, Hears
  <2>3. {"unread", "at", "outcome"} \subseteq DOMAIN rec /\ rec.unread = listener[s].unread /\ rec.at = NoCommand
    BY <2>2
  <2> HIDE DEF rec
  <2>4. Hears(rec, Given)
    BY <2>2, <2>3 DEF Hears
  <2>5. QED
    BY <1>1, <2>1, <2>4, ReceivedGoesOn
<1>5. ASSUME NEW s \in Stream, ApplyCommand(s) PROVE ReceivedWasGiven'
  <2>1. PICK outcome \in {"completed", "failed"} :
            listener' = [listener EXCEPT ![s].at = Next1(s), ![s].outcome = outcome, ![s].unread = Tail(@)]
    BY <1>5 DEF ApplyCommand
  <2> DEFINE rec == [listener[s] EXCEPT !.at = Next1(s), !.outcome = outcome, !.unread = Tail(@)]
  <2>2. listener' = [listener EXCEPT ![s] = rec]
    BY <1>1, <2>1
  <2>3. Hears(listener[s], Given) /\ listener[s].unread # << >>
    BY <1>5 DEF ReceivedWasGiven, ApplyCommand
  <2>4. {"unread", "at", "outcome"} \subseteq DOMAIN listener[s] /\ listener[s].unread \in Seq(Given)
    BY <2>3 DEF Hears
  <2>5. Next1(s) \in Given /\ Tail(listener[s].unread) \in Seq(Given)
    BY <2>3, <2>4, HeadTailProperties DEF Next1
  <2>6. {"unread", "at", "outcome"} \subseteq DOMAIN rec /\ rec.unread = Tail(listener[s].unread) /\ rec.at = Next1(s)
    BY <2>4
  <2> HIDE DEF rec
  <2>7. Hears(rec, Given)
    BY <2>5, <2>6 DEF Hears
  <2>8. QED
    BY <1>1, <2>2, <2>7, ReceivedGoesOn
<1>6. ASSUME NEW s \in Stream, NEW i \in Poll, PollSend(s, i) PROVE ReceivedWasGiven'
  <2> DEFINE now == IF stream[s].open /\ listener[s].on
                    THEN listener[s].unread \o Ordered(Batch(s)) ELSE listener[s].unread
  <2> DEFINE rec == [listener[s] EXCEPT !.unread = now]
  <2>1. listener' = [listener EXCEPT ![s] = rec]
    BY <1>1, <1>6 DEF PollSend
  <2>2. Batch(s) \in SUBSET Command /\ Batch(s) \subseteq Given
    BY DEF Batch, Given
  <2>3. Ordered(Batch(s)) \in Seq(Batch(s))
    BY <2>2, OrderedIsOf
  <2>4. Ordered(Batch(s)) \in Seq(Given)
    BY <2>2, <2>3, SeqDef
  <2>5. Hears(listener[s], Given)
    BY DEF ReceivedWasGiven
  <2>6. now \in Seq(Given)
    BY <2>4, <2>5 DEF Hears
  <2> HIDE DEF now
  <2>7. Hears(rec, Given)
    BY <2>5, <2>6 DEF Hears
  <2> HIDE DEF rec
  <2>8. QED
    BY <1>1, <2>1, <2>7, ReceivedGoesOn
<1>7. QED
  BY <1>2, <1>3, <1>4, <1>5, <1>6 DEF channelVars, ChannelNext, SendCommand, Resume, Teardown, Client, Archive,
     PollLive, MarkDelivered, PollFails, RevokeTokens

LEMMA ReceivedInit == ChannelInit => ReceivedWasGiven
<1>1. ChannelInit => \A s \in Stream : listener[s] = NoListener
  BY DEF ChannelInit
<1>2. QED
  BY <1>1, NobodyHears DEF ReceivedWasGiven

(* The steps of the channel, as the promise sees them.                      *)
LEMMA PromisedInit == ChannelInit => Promised!Init
<1> SUFFICES ASSUME ChannelInit PROVE Promised!Init
  OBVIOUS
<1>1. [x \in Command |-> Verdict(command[x])] = [x \in Command |-> "unasked"]
  BY DEF ChannelInit, Verdict
<1>2. QED
  BY <1>1 DEF ChannelInit, Promised!Init

LEMMA PromisedStutter ==
  ASSUME \A x \in Command : Verdict(command'[x]) = Verdict(command[x]), onDisk' = onDisk
  PROVE  [Promised!Next]_(Promised!promiseVars)
BY DEF Promised!promiseVars

LEMMA PromisedStep ==
  ASSUME ChannelInv, ReceivedWasGiven, [ChannelNext]_channelVars
  PROVE  [Promised!Next]_(Promised!promiseVars)
<1> DEFINE told == [x \in Command |-> Verdict(command[x])]
<1>t. ChannelTypeOK
  BY DEF ChannelInv
<1>0. \A x \in Command : told[x] = "unasked" <=> x \notin Given
  BY <1>t DEF ChannelTypeOK, Verdict, Given
<1>1. CASE UNCHANGED <<command, onDisk>>
  BY <1>1, PromisedStutter
<1>2. ASSUME NEW x \in Command, SendCommand(x) PROVE Promised!Next
  <2>1. command[x] = "none" /\ command' = [command EXCEPT ![x] = "pending"] /\ onDisk' = onDisk
    BY <1>2 DEF SendCommand
  <2>2. told' = [told EXCEPT ![x] = "waiting"] /\ told[x] = "unasked"
    BY <1>t, <2>1 DEF ChannelTypeOK, Verdict
  <2>3. Promised!Give(x)
    BY <2>1, <2>2 DEF Promised!Give
  <2>4. QED
    BY <2>3 DEF Promised!Next
<1>3. ASSUME NEW x \in Command, Resume(x) PROVE Promised!Next
  <2>1. Promised!GoOn(x)
    BY <1>3 DEF Resume, Promised!GoOn
  <2>2. QED
    BY <2>1 DEF Promised!Next
<1>4. ASSUME NEW s \in Stream, NEW i \in Poll, MarkDelivered(s, i) PROVE [Promised!Next]_(Promised!promiseVars)
  <2>1. \A x \in Command : command'[x] = command[x] \/ (command[x] = "pending" /\ command'[x] = "delivered")
    BY <1>4 DEF MarkDelivered
  <2>2. \A x \in Command : Verdict(command'[x]) = Verdict(command[x])
    BY <2>1 DEF Verdict
  <2>3. QED
    BY <1>4, <2>2, PromisedStutter DEF MarkDelivered
<1>5. ASSUME NEW s \in Stream, ApplyCommand(s) PROVE [Promised!Next]_(Promised!promiseVars)
  <2>1. PICK outcome \in {"completed", "failed"} :
          /\ onDisk[Next1(s)] = "edited" => outcome = "failed"
          /\ onDisk' = IF outcome = "completed" THEN [onDisk EXCEPT ![Next1(s)] = "written"] ELSE onDisk
    BY <1>5 DEF ApplyCommand
  <2>2. command' = command /\ listener[s].unread # << >>
    BY <1>5 DEF ApplyCommand
  <2>r. listener[s].unread \in Seq(Given)
    BY DEF ReceivedWasGiven, Hears
  <2>3. Next1(s) \in Given
    BY <2>2, <2>r, HeadTailProperties DEF Next1
  <2>4. CASE outcome = "failed"
    BY <2>1, <2>2, <2>4, PromisedStutter
  <2>5. CASE outcome = "completed"
    <3>1. Promised!Place(Next1(s)) /\ Next1(s) \in Command
      BY <1>0, <2>1, <2>2, <2>3, <2>5 DEF Promised!Place, Given
    <3>2. QED
      BY <3>1 DEF Promised!Next
  <2>6. QED
    BY <2>4, <2>5
<1>6. ASSUME NEW s \in Stream, Acknowledge(s) PROVE Promised!Next
  <2> DEFINE x == listener[s].at
  <2> DEFINE v == listener[s].outcome
  <2>1. Busy(s) /\ command' = [command EXCEPT ![x] = v] /\ onDisk' = onDisk
    BY <1>6 DEF Acknowledge
  <2>2. x \in Given
    BY <2>1 DEF ReceivedWasGiven, Hears, Busy
  <2>3. v \in {"completed", "failed"} /\ (v = "completed" => onDisk[x] # "absent")
    BY <2>1, <2>2 DEF ChannelInv, OutcomeOf, Given
  <2> HIDE DEF x, v
  <2>4. x \in Command /\ told[x] # "unasked"
    BY <1>0, <2>2 DEF Given
  <2>5. told' = [told EXCEPT ![x] = v]
    BY <1>t, <2>1, <2>3, <2>4 DEF ChannelTypeOK, Verdict
  <2>6. Promised!Record(x)
    BY <2>1, <2>3, <2>4, <2>5 DEF Promised!Record
  <2>7. QED
    BY <2>4, <2>6 DEF Promised!Next
<1>7. QED
  BY <1>1, <1>2, <1>3, <1>4, <1>5, <1>6 DEF channelVars, ChannelNext, Listen, Teardown, Client, AckLost,
     ListenEnds, ListenerDies, Archive, PollLive, PollSend, PollFails, RevokeTokens

(* Whatever is lost, replayed or overlapping on the way, a command that is  *)
(* recorded as completed is on its machine's disk, one that was settled     *)
(* stays settled, and bundles are written and outcomes recorded as          *)
(* CommandPromise has it (ChannelHolds).                                    *)
THEOREM CommandsAreTrue == ChannelSpec => ChannelHolds
<1>1. ChannelInv => \A x \in Command : CompletedIsOnDisk(x)
  BY DEF ChannelInv
<1>2. ChannelInv /\ [ChannelNext]_channelVars =>
          [\A x \in Command: command[x] \in {"completed", "failed"} =>
              command'[x] \in {"completed", "failed"}]_channelVars
  BY StepSettles
<1>3. ChannelInv /\ ReceivedWasGiven /\ [ChannelNext]_channelVars =>
          ReceivedWasGiven' /\ [Promised!Next]_(Promised!promiseVars)
  BY ReceivedNext, PromisedStep
<1>4. QED
  BY <1>1, <1>2, <1>3, ChannelInitInv, ChannelNextInv, ReceivedInit, PromisedInit, PTL
  DEF ChannelSpec, ChannelHolds, SettledStaysSettled, Promised!Spec

-----------------------------------------------------------------------------
(* Machine records.                                                         *)
Call == [op : {"none", "register", "update", "touch", "token", "revoke", "deregister"},
         pc : {"idle", "save", "mint", "revoke", "retire", "done", "failed"},
         id : MachineId \cup {NoMachine}, record : Record \cup {NoMachine}]

LEMMA MachinesInitInv == MachinesInit => MachinesInv
<1> SUFFICES ASSUME MachinesInit PROVE MachinesInv
  OBVIOUS
<1>1. \A c \in MachineCall : machineCall[c] = NoCall
  BY DEF MachinesInit
<1>2. MachinesTypeOK
  <2>1. NoCall \in Call
    BY DEF NoCall, Call
  <2>2. machineCall \in [MachineCall -> Call]
    BY <2>1 DEF MachinesInit
  <2>3. machine \in [MachineId -> Row \cup {NoMachine}]
    BY DEF MachinesInit
  <2>4. edited \in [MachineCall -> SUBSET MachineName] /\ requested \in [MachineId -> SUBSET MachineName]
    BY DEF MachinesInit
  <2>5. answered \subseteq [call : MachineCall, id : MachineId]
    BY DEF MachinesInit
  <2>6. QED
    BY <2>2, <2>3, <2>4, <2>5 DEF MachinesTypeOK, Call
<1>3. \A id \in MachineId : ~Exists(id)
  BY DEF MachinesInit, Exists
<1>4. MachinesHold
  BY <1>1, <1>3 DEF MachinesInit, MachinesHold, DeregisteredIsCutOff, OneMachinePerInstallation,
     NamesAreWhatWasAsked, LiveMachine, NoCall
<1>5. \A c \in MachineCall : CallOf(c)
  BY <1>1 DEF CallOf, NoCall
<1>6. QED
  BY <1>2, <1>4, <1>5 DEF MachinesInit, MachinesInv

(* A machine there is has a row.                                            *)
LEMMA RowOfMachine ==
  ASSUME MachinesTypeOK, NEW id \in MachineId, Exists(id)
  PROVE  machine[id] \in Row
BY DEF MachinesTypeOK, Exists

(* Registered machines of one installation: the second half of the property *)
(* is the first one's, of machines that answered.                           *)
LEMMA OneEach ==
  ASSUME \A m, o \in MachineId: LiveMachine(m) /\ LiveMachine(o) /\ m # o
             => machine[m].installation = NoInstallation \/ machine[m].installation # machine[o].installation,
         MachinesTypeOK, \A a \in answered : Exists(a.id)
  PROVE  OneMachinePerInstallation
<1>1. ASSUME NEW a \in answered, NEW b \in answered, a.id # b.id, machine[a.id].installation # NoInstallation,
             machine[a.id].installation = machine[b.id].installation,
             ~machine[a.id].retired, ~machine[b.id].retired
      PROVE  FALSE
  <2>1. a.id \in MachineId /\ b.id \in MachineId
    BY <1>1 DEF MachinesTypeOK
  <2>2. LiveMachine(a.id) /\ LiveMachine(b.id)
    BY <1>1 DEF LiveMachine
  <2>3. QED
    BY <1>1, <2>1, <2>2
<1>2. QED
  BY <1>1 DEF OneMachinePerInstallation

LEMMA CutOff ==
  ASSUME \A c \in MachineCall : CallOf(c)
  PROVE  DeregisteredIsCutOff
BY DEF CallOf, DeregisteredIsCutOff, Accepted, LiveMachine

(* A step on the calls that leaves the machines alone.                      *)
LEMMA CallMoves ==
  ASSUME MachinesInv, NEW c \in MachineCall, NEW call \in Call,
         machineCall' = [machineCall EXCEPT ![c] = call],
         UNCHANGED <<machine, answered, requested>>,
         edited' = edited \/ edited' = [edited EXCEPT ![c] = {}],
         CallOf(c)'
  PROVE  MachinesInv'
<1>t. MachinesTypeOK /\ MachinesHold
  BY DEF MachinesInv
<1>1. machineCall' \in [MachineCall -> Call] /\ \A d \in MachineCall \ {c} : machineCall'[d] = machineCall[d]
  BY <1>t DEF MachinesTypeOK, Call
<1>2. edited' \in [MachineCall -> SUBSET MachineName] /\ \A d \in MachineCall \ {c} : edited'[d] = edited[d]
  BY <1>t DEF MachinesTypeOK
<1>3. MachinesTypeOK'
  BY <1>t, <1>1, <1>2 DEF MachinesTypeOK, Call
<1>4. ASSUME NEW d \in MachineCall PROVE CallOf(d)'
  <2>1. CASE d = c
    BY <2>1
  <2>2. CASE d # c
    BY <1>1, <1>2, <2>2 DEF MachinesInv, CallOf, Exists
  <2>3. QED
    BY <2>1, <2>2
<1>5. DeregisteredIsCutOff'
  <2>1. ASSUME NEW d \in MachineCall, machineCall'[d].op = "deregister", machineCall'[d].pc = "done"
        PROVE  ~LiveMachine(machineCall[d].id)'
    BY <1>4, <2>1 DEF CallOf, LiveMachine
  <2>2. QED
    BY <2>1 DEF DeregisteredIsCutOff, Accepted
<1>6. OneMachinePerInstallation' /\ NamesAreWhatWasAsked'
  BY <1>t DEF MachinesHold, OneMachinePerInstallation, NamesAreWhatWasAsked, LiveMachine, Exists
<1>7. \A a \in answered' : Exists(a.id)'
  BY DEF MachinesInv, Exists
<1>8. QED
  BY <1>3, <1>4, <1>5, <1>6, <1>7 DEF MachinesInv, MachinesHold

(* What the calls read.                                                     *)
LEMMA RecordOfMachine ==
  ASSUME MachinesTypeOK, NEW id \in MachineId, Exists(id)
  PROVE  ToMachineRecord(id) \in Record /\ ToMachineRecord(id).name = machine[id].name
BY RowOfMachine DEF Row, Record, ToMachineRecord

LEMMA ReadsInv ==
  ASSUME MachinesInv, NEW c \in MachineCall, NEW op, NEW pc, NEW id \in MachineId, NEW record,
         Read(c, op, pc, id, record),
         \/ op = "register" /\ pc = "save" /\ record \in Record
         \/ /\ LiveMachine(id)
            /\ \/ op \in {"register", "update"} /\ pc = "save" /\ record \in Record
               \/ op \in {"touch", "token"} /\ pc = "save" /\ record \in Record
                     /\ record.name = machine[id].name
               \/ op \in {"revoke", "deregister"} /\ pc = "revoke" /\ record = NoMachine
  PROVE  MachinesInv'
<1>t. MachinesTypeOK /\ NamesAreWhatWasAsked
  BY DEF MachinesInv, MachinesHold
<1> DEFINE call == [op |-> op, pc |-> pc, id |-> id, record |-> record]
<1>1. call \in Call
  BY DEF Call
<1>2. /\ machineCall' = [machineCall EXCEPT ![c] = call] /\ edited' = [edited EXCEPT ![c] = {}]
      /\ UNCHANGED <<machine, answered, requested>>
  BY DEF Read
<1>3. machineCall'[c] = call
  BY <1>t, <1>2 DEF MachinesTypeOK
<1>4. CallOf(c)'
  BY <1>t, <1>2, <1>3 DEF CallOf, LiveMachine, Exists, NamesAreWhatWasAsked
<1>5. QED
  BY <1>1, <1>2, <1>4, CallMoves

LEMMA BeginningsInv ==
  ASSUME MachinesInv, NEW c \in MachineCall,
         \/ \E name \in MachineName, i \in Installation \cup {NoInstallation}: Register(c, name, i)
         \/ \E id \in MachineId:
               \/ \E name \in MachineName: Update(c, id, name)
               \/ Touch(c, id) \/ IssueToken(c, id) \/ RevokeTokensOf(c, id) \/ Deregister(c, id)
  PROVE  MachinesInv'
<1>t. MachinesTypeOK
  BY DEF MachinesInv
<1>n. ASSUME NEW id \in MachineId, NEW name \in MachineName, Exists(id)
      PROVE  [ToMachineRecord(id) EXCEPT !.name = name] \in Record
  BY <1>t, <1>n, RecordOfMachine DEF Record
<1>s. ASSUME NEW id \in MachineId, Exists(id)
      PROVE  /\ [ToMachineRecord(id) EXCEPT !.seen = TRUE] \in Record
             /\ [ToMachineRecord(id) EXCEPT !.seen = TRUE].name = machine[id].name
  BY <1>t, <1>s, RecordOfMachine DEF Record
<1>1. ASSUME NEW name \in MachineName, NEW i \in Installation \cup {NoInstallation}, Register(c, name, i)
      PROVE  MachinesInv'
  <2>1. CASE \E id \in MachineId : LiveMachine(id) /\ Read(c, "register", "save", id, [ToMachineRecord(id) EXCEPT !.name = name])
    BY <2>1, <1>n, ReadsInv DEF LiveMachine
  <2>2. CASE \E id \in MachineId : Read(c, "register", "save", id,
                        [name |-> name, installation |-> i, seen |-> FALSE])
    <3>1. [name |-> name, installation |-> i, seen |-> FALSE] \in Record
      BY DEF Record
    <3>2. QED
      BY <2>2, <3>1, ReadsInv
  <2>3. QED
    BY <1>1, <2>1, <2>2 DEF Register
<1>2. ASSUME NEW id \in MachineId, NEW name \in MachineName, Update(c, id, name) PROVE MachinesInv'
  BY <1>2, <1>n, ReadsInv DEF Update, LiveMachine
<1>3. ASSUME NEW id \in MachineId, Touch(c, id) PROVE MachinesInv'
  BY <1>3, <1>s, ReadsInv DEF Touch, LiveMachine
<1>4. ASSUME NEW id \in MachineId, IssueToken(c, id) PROVE MachinesInv'
  BY <1>4, <1>s, ReadsInv DEF IssueToken, LiveMachine
<1>5. ASSUME NEW id \in MachineId, RevokeTokensOf(c, id) PROVE MachinesInv'
  BY <1>5, ReadsInv DEF RevokeTokensOf
<1>6. ASSUME NEW id \in MachineId, Deregister(c, id) PROVE MachinesInv'
  BY <1>6, ReadsInv DEF Deregister
<1>7. QED
  BY <1>1, <1>2, <1>3, <1>4, <1>5, <1>6

(* A call goes on.                                                          *)
LEMMA GoesMeans ==
  ASSUME MachinesTypeOK, NEW c \in MachineCall,
         NEW pc \in {"idle", "save", "mint", "revoke", "retire", "done", "failed"}, Goes(c, pc)
  PROVE  \E call \in Call : /\ machineCall' = [machineCall EXCEPT ![c] = call] /\ machineCall'[c] = call
                            /\ call.op = machineCall[c].op /\ call.pc = pc
                            /\ call.id = machineCall[c].id /\ call.record = machineCall[c].record
                            /\ \A d \in MachineCall \ {c} : machineCall'[d] = machineCall[d]
                            /\ machineCall' \in [MachineCall -> Call]
<1> DEFINE call == [machineCall[c] EXCEPT !.pc = pc]
<1>1. machineCall[c] \in Call /\ machineCall \in [MachineCall -> Call]
  BY DEF MachinesTypeOK, Call
<1>2. call \in Call /\ call.op = machineCall[c].op /\ call.pc = pc
      /\ call.id = machineCall[c].id /\ call.record = machineCall[c].record
  BY <1>1 DEF Call
<1>3. machineCall' = [machineCall EXCEPT ![c] = call]
  BY <1>1 DEF Goes
<1> HIDE DEF call
<1>4. machineCall'[c] = call /\ \A d \in MachineCall \ {c} : machineCall'[d] = machineCall[d]
  BY <1>1, <1>3
<1>5. machineCall' \in [MachineCall -> Call]
  BY <1>1, <1>2, <1>3
<1>6. QED
  BY <1>2, <1>3, <1>4, <1>5

LEMMA TokenStepsInv ==
  ASSUME MachinesInv, NEW c \in MachineCall, MintToken(c) \/ RevokeMachineTokens(c)
  PROVE  MachinesInv'
<1>t. MachinesTypeOK /\ CallOf(c)
  BY DEF MachinesInv
<1>1. UNCHANGED <<machine, edited, answered, requested>>
  BY DEF MintToken, RevokeMachineTokens
<1>2. PICK pc \in {"done", "retire"} :
          /\ Goes(c, pc) /\ machineCall[c].pc \in {"mint", "revoke"}
          /\ pc = "retire" => machineCall[c].op = "deregister"
          /\ pc = "done" => machineCall[c].op # "deregister" \/ machineCall[c].pc = "mint"
  BY DEF MintToken, RevokeMachineTokens, Is
<1>3. machineCall[c].pc = "mint" => machineCall[c].op = "token"
  BY <1>t DEF CallOf
<1>4. PICK call \in Call : /\ machineCall' = [machineCall EXCEPT ![c] = call] /\ machineCall'[c] = call
                           /\ call.op = machineCall[c].op /\ call.pc = pc
                           /\ call.id = machineCall[c].id /\ call.record = machineCall[c].record
  BY <1>t, <1>2, GoesMeans
<1>5. CallOf(c)'
  BY <1>t, <1>1, <1>2, <1>3, <1>4 DEF CallOf, Exists
<1>6. QED
  BY <1>1, <1>4, <1>5, CallMoves

(* The row that is saved.                                                   *)
LEMMA SavedIsRow ==
  ASSUME MachinesTypeOK, NEW c \in MachineCall, machineCall[c].id \in MachineId, machineCall[c].record \in Record
  PROVE  /\ Saved(c) \in Row /\ Saved(c) # NoMachine /\ Saved(c).name = machineCall[c].record.name
         /\ Saved(c).installation = machineCall[c].record.installation
         /\ Saved(c).retired <=> Exists(machineCall[c].id) /\ machine[machineCall[c].id].retired
<1>1. Exists(machineCall[c].id) => machine[machineCall[c].id].retired \in BOOLEAN
  BY RowOfMachine DEF Row
<1>2. Saved(c) \in Row
  BY <1>1 DEF Saved, Record, Row
<1>3. Saved(c) # NoMachine
  BY <1>2, MachinesAssumption DEF Row
<1>4. QED
  BY <1>1, <1>2, <1>3 DEF Saved

LEMMA SaveInv ==
  ASSUME MachinesInv, NEW c \in MachineCall, SaveAsRead(c)
  PROVE  MachinesInv'
<1>t. MachinesTypeOK /\ MachinesHold /\ CallOf(c)
  BY DEF MachinesInv
<1> DEFINE op == machineCall[c].op
           r == machineCall[c].record
<1>p. machineCall[c].id \in MachineId /\ op \in {"register", "update", "touch", "token"} /\ r \in Record
  BY <1>t DEF SaveAsRead, Is, CallOf
<1>i. PICK id \in MachineId : id = machineCall[c].id
  BY <1>p
<1>c. op \in {"register", "update", "touch", "token"} /\ id \in MachineId /\ r \in Record
      /\ id = machineCall[c].id
  BY <1>p, <1>i
<1>1. CASE InstallationTaken(id, r.installation)
  <2>1. Goes(c, "failed") /\ UNCHANGED <<machine, edited, answered, requested>>
    BY <1>1, <1>i DEF SaveAsRead
  <2>2. PICK call \in Call : /\ machineCall' = [machineCall EXCEPT ![c] = call] /\ machineCall'[c] = call
                             /\ call.op = machineCall[c].op /\ call.pc = "failed"
                             /\ call.id = machineCall[c].id /\ call.record = machineCall[c].record
    BY <1>t, <2>1, GoesMeans
  <2>3. CallOf(c)'
    BY <1>t, <2>1, <2>2 DEF CallOf, Exists
  <2>4. QED
    BY <2>1, <2>2, <2>3, CallMoves
<1>2. CASE ~InstallationTaken(id, r.installation)
  <2> DEFINE next == IF op = "token" THEN "mint" ELSE "done"
  <2>1. /\ machine' = [machine EXCEPT ![id] = Saved(c)]
        /\ Goes(c, next)
        /\ edited' = [d \in MachineCall |-> IF machineCall[d].id = id /\ d # c
                                            THEN edited[d] \cup {r.name} ELSE edited[d]]
        /\ answered' = IF op = "register" THEN answered \cup {[call |-> c, id |-> id]} ELSE answered
        /\ requested' = IF op \in {"register", "update"}
                        THEN [requested EXCEPT ![id] = @ \cup {r.name}] ELSE requested
    BY <1>2, <1>i DEF SaveAsRead
  <2>2. /\ machineCall'[c].op = op /\ machineCall'[c].pc = next
        /\ machineCall'[c].id = id
        /\ \A d \in MachineCall \ {c} : machineCall'[d] = machineCall[d]
        /\ machineCall' \in [MachineCall -> Call]
    BY <1>t, <1>i, <2>1, GoesMeans
  <2>3. /\ Saved(c) \in Row /\ Saved(c) # NoMachine /\ Saved(c).name = r.name
        /\ Saved(c).installation = r.installation
        /\ Saved(c).retired <=> Exists(id) /\ machine[id].retired
    BY <1>t, <1>c, SavedIsRow
  <2>4. /\ machine' \in [MachineId -> Row \cup {NoMachine}]
        /\ machine'[id] = Saved(c) /\ \A m \in MachineId \ {id} : machine'[m] = machine[m]
    BY <1>t, <1>c, <2>1, <2>3 DEF MachinesTypeOK
  <2>5. r.name \in MachineName
    BY <1>c DEF Record
  <2>6. /\ edited' \in [MachineCall -> SUBSET MachineName] /\ requested' \in [MachineId -> SUBSET MachineName]
        /\ answered' \subseteq [call : MachineCall, id : MachineId]
    BY <1>t, <1>c, <2>1, <2>5 DEF MachinesTypeOK
  <2>7. MachinesTypeOK'
    BY <2>2, <2>4, <2>6 DEF MachinesTypeOK, Call
  <2>8. \A m \in MachineId : /\ requested[m] \subseteq requested'[m]
                             /\ Exists(m) => machine'[m] # NoMachine
                             /\ Exists(m) => (machine[m].retired => machine'[m].retired)
    BY <1>t, <1>c, <2>1, <2>3, <2>4 DEF MachinesTypeOK, Exists
  <2>9. r.name \in requested'[id]
    BY <1>t, <1>c, <2>1 DEF SaveAsRead, Is, CallOf, MachinesTypeOK
  <2>10. CallOf(c)'
    BY <1>c, <2>2, <2>3, <2>4 DEF CallOf, Exists
  <2>11. ASSUME NEW d \in MachineCall \ {c} PROVE CallOf(d)'
    <3>1. CallOf(d) /\ machineCall'[d] = machineCall[d]
      BY <2>2, <2>11 DEF MachinesInv
    <3>2. machineCall[d].id = id => r.name \in edited'[d]
      BY <2>1, <2>11
    <3>3. edited[d] \subseteq edited'[d]
      BY <2>1
    <3>4. CASE machineCall[d].id = id
      BY <1>c, <2>3, <2>4, <2>8, <3>1, <3>2, <3>4 DEF CallOf, Exists
    <3>5. CASE machineCall[d].id # id
      BY <2>4, <2>8, <3>1, <3>3, <3>5 DEF CallOf, Exists
    <3>6. QED
      BY <3>4, <3>5
  <2>12. \A a \in answered' : Exists(a.id)'
    <3>1. \A a \in answered : a.id \in MachineId /\ Exists(a.id)
      BY <1>t DEF MachinesTypeOK, MachinesInv
    <3>2. Exists(id)'
      BY <2>3, <2>4 DEF Exists
    <3>3. QED
      BY <2>1, <2>8, <3>1, <3>2 DEF Exists
  <2>13. NamesAreWhatWasAsked'
    BY <1>t, <2>3, <2>4, <2>8, <2>9 DEF MachinesHold, NamesAreWhatWasAsked, Exists
  <2>14. ASSUME NEW m \in MachineId, NEW o \in MachineId, LiveMachine(m)', LiveMachine(o)', m # o
         PROVE  (machine[m].installation = NoInstallation \/ machine[m].installation # machine[o].installation)'
    <3>1. \A n \in MachineId \ {id} : LiveMachine(n)' <=> LiveMachine(n)
      BY <2>4 DEF LiveMachine, Exists
    <3>2. LiveMachine(id)' => (Exists(id) => LiveMachine(id))
      BY <2>3, <2>4 DEF LiveMachine, Exists
    <3>3. CASE m # id /\ o # id
      BY <1>t, <2>4, <2>14, <3>1, <3>3 DEF MachinesHold, OneMachinePerInstallation
    <3>4. CASE m = id
      BY <1>2, <1>c, <2>3, <2>4, <2>14, <3>1, <3>2, <3>4 DEF InstallationTaken
    <3>5. CASE o = id
      BY <1>2, <1>c, <2>3, <2>4, <2>14, <3>1, <3>2, <3>5 DEF InstallationTaken
    <3>6. QED
      BY <3>3, <3>4, <3>5
  <2>15. OneMachinePerInstallation'
    <3>1. ASSUME NEW a \in answered', NEW b \in answered', (a.id # b.id), (machine[a.id].installation # NoInstallation)',
                 (machine[a.id].installation = machine[b.id].installation)'
          PROVE  (machine[a.id].retired \/ machine[b.id].retired)'
      <4>1. a.id \in MachineId /\ b.id \in MachineId
        BY <2>6, <3>1
      <4>2. Exists(a.id)' /\ Exists(b.id)'
        BY <2>12, <3>1
      <4>3. QED
        BY <2>14, <3>1, <4>1, <4>2 DEF LiveMachine
    <3>2. QED
      BY <2>14, <3>1 DEF OneMachinePerInstallation
  <2>16. DeregisteredIsCutOff'
    BY <2>10, <2>11 DEF CallOf, DeregisteredIsCutOff, Accepted, LiveMachine
  <2>17. QED
    BY <2>7, <2>10, <2>11, <2>12, <2>13, <2>15, <2>16 DEF MachinesInv, MachinesHold
<1>3. QED
  BY <1>1, <1>2

LEMMA RetireInv ==
  ASSUME MachinesInv, NEW c \in MachineCall, Retire(c)
  PROVE  MachinesInv'
<1>t. MachinesTypeOK /\ MachinesHold /\ CallOf(c)
  BY DEF MachinesInv
<1>p. machineCall[c].id \in MachineId /\ Exists(machineCall[c].id) /\ machineCall[c].op = "deregister"
  BY <1>t DEF Retire, Is, CallOf
<1>i. PICK id \in MachineId : id = machineCall[c].id
  BY <1>p
<1> DEFINE next == IF LiveMachine(id) THEN "done" ELSE "failed"
<1>1. /\ Goes(c, next) /\ machine' = [machine EXCEPT ![id].retired = TRUE]
      /\ UNCHANGED <<token, edited, answered, requested>>
  BY <1>i DEF Retire
<1>2. id \in MachineId /\ Exists(id) /\ machineCall[c].op = "deregister" /\ id = machineCall[c].id
  BY <1>p, <1>i
<1>3. machine[id] \in Row
  BY <1>t, <1>2, RowOfMachine
<1>4. /\ machineCall'[c].op = "deregister" /\ machineCall'[c].pc = next /\ machineCall'[c].id = id
      /\ \A d \in MachineCall \ {c} : machineCall'[d] = machineCall[d]
      /\ machineCall' \in [MachineCall -> Call]
  BY <1>t, <1>1, <1>2, GoesMeans
<1> DEFINE row == [machine[id] EXCEPT !.retired = TRUE]
<1>5. row \in Row /\ row # NoMachine /\ row.retired /\ row.name = machine[id].name
      /\ row.installation = machine[id].installation
  <2>1. row \in Row
    BY <1>3 DEF Row
  <2>2. row # NoMachine
    BY <2>1, MachinesAssumption DEF Row
  <2>3. QED
    BY <1>3, <2>1, <2>2 DEF Row
<1>6. machine' = [machine EXCEPT ![id] = row]
  BY <1>t, <1>1, <1>2 DEF MachinesTypeOK
<1> HIDE DEF row
<1>7. /\ machine' \in [MachineId -> Row \cup {NoMachine}]
      /\ machine'[id] = row /\ \A m \in MachineId \ {id} : machine'[m] = machine[m]
  BY <1>t, <1>2, <1>5, <1>6 DEF MachinesTypeOK
<1>8. MachinesTypeOK'
  BY <1>t, <1>1, <1>4, <1>7 DEF MachinesTypeOK, Call
<1>9. \A m \in MachineId : /\ machine'[m] # NoMachine <=> machine[m] # NoMachine
                           /\ machine'[m].name = machine[m].name
                           /\ machine'[m].installation = machine[m].installation
                           /\ Exists(m) => (machine[m].retired => machine'[m].retired)
  BY <1>2, <1>5, <1>7 DEF Exists
<1>10. \A d \in MachineCall : CallOf(d)'
  <2>1. CallOf(c)'
    BY <1>t, <1>2, <1>4, <1>5, <1>7, <1>9 DEF CallOf, Exists
  <2>2. ASSUME NEW d \in MachineCall \ {c} PROVE CallOf(d)'
    <3>1. CallOf(d) /\ machineCall'[d] = machineCall[d]
      BY <1>4, <2>2 DEF MachinesInv
    <3>2. QED
      BY <1>1, <1>9, <3>1 DEF CallOf, Exists
  <2>3. QED
    BY <2>1, <2>2
<1>11. NamesAreWhatWasAsked'
  BY <1>t, <1>1, <1>9 DEF MachinesHold, NamesAreWhatWasAsked, Exists
<1>12. \A a \in answered' : Exists(a.id)'
  BY <1>t, <1>1, <1>9 DEF MachinesInv, MachinesTypeOK, Exists
<1>13. OneMachinePerInstallation'
  <2>1. \A m \in MachineId : LiveMachine(m)' => LiveMachine(m)
    BY <1>9 DEF LiveMachine, Exists
  <2>2. \A a \in answered : a.id \in MachineId /\ Exists(a.id)
    BY <1>t DEF MachinesTypeOK, MachinesInv
  <2>3. QED
    BY <1>t, <1>1, <1>9, <2>1, <2>2 DEF MachinesHold, OneMachinePerInstallation
<1>14. DeregisteredIsCutOff'
  BY <1>10 DEF CallOf, DeregisteredIsCutOff, Accepted, LiveMachine
<1>15. QED
  BY <1>8, <1>10, <1>11, <1>12, <1>13, <1>14 DEF MachinesInv, MachinesHold

LEMMA MachinesNextInv == MachinesInv /\ [MachinesNext]_machinesVars => MachinesInv'
<1> SUFFICES ASSUME MachinesInv, [MachinesNext]_machinesVars PROVE MachinesInv'
  OBVIOUS
<1>1. CASE UNCHANGED machinesVars
  BY <1>1 DEF machinesVars, MachinesInv, MachinesTypeOK, MachinesHold, CallOf, DeregisteredIsCutOff,
     OneMachinePerInstallation, NamesAreWhatWasAsked, Accepted, LiveMachine, Exists
<1>2. CASE MachinesNext
  BY <1>2, BeginningsInv, TokenStepsInv, SaveInv, RetireInv DEF MachinesNext, MachineCallStep
<1>3. QED
  BY <1>1, <1>2

LEMMA StepKeepsEdits ==
  ASSUME MachinesInv, MachinesNext, NEW id \in MachineId, Exists(id)
  PROVE  /\ machine'[id] # NoMachine /\ (machine[id].retired => machine'[id].retired)
         /\ machine'[id].name # machine[id].name =>
                \E c \in MachineCall: machineCall[c].id = id /\ machineCall'[c] # machineCall[c]
                    /\ (machineCall[c].op \in {"register", "update"} \/ machine[id].name \in edited[c])
<1>t. MachinesTypeOK
  BY DEF MachinesInv
<1>1. CASE machine' = machine
  BY <1>1 DEF Exists
<1>2. ASSUME NEW c \in MachineCall, SaveAsRead(c), machine' # machine
      PROVE  /\ machine'[id] # NoMachine /\ (machine[id].retired => machine'[id].retired)
             /\ machine'[id].name # machine[id].name =>
                  \E d \in MachineCall: machineCall[d].id = id /\ machineCall'[d] # machineCall[d]
                    /\ (machineCall[d].op \in {"register", "update"} \/ machine[id].name \in edited[d])
  <2>1. CallOf(c)
    BY DEF MachinesInv
  <2>2. /\ machineCall[c].op \in {"register", "update", "touch", "token"} /\ machineCall[c].id \in MachineId
        /\ machineCall[c].record \in Record
    BY <1>2, <2>1 DEF SaveAsRead, Is, CallOf
  <2>3. machine' = [machine EXCEPT ![machineCall[c].id] = Saved(c)]
    BY <1>2 DEF SaveAsRead
  <2>4. /\ Saved(c) # NoMachine /\ Saved(c).name = machineCall[c].record.name
        /\ Saved(c).retired <=> Exists(machineCall[c].id) /\ machine[machineCall[c].id].retired
    BY <1>t, <2>2, SavedIsRow
  <2>5. machineCall'[c] # machineCall[c]
    <3>1. PICK next \in {"mint", "done"} : Goes(c, next)
      BY <1>2 DEF SaveAsRead
    <3>2. machineCall'[c].pc = next
      BY <1>t, <3>1, GoesMeans
    <3>3. QED
      BY <1>2, <3>2 DEF SaveAsRead, Is
  <2>6. CASE machineCall[c].id # id
    BY <1>t, <2>2, <2>3, <2>6 DEF MachinesTypeOK, Exists
  <2>7. CASE machineCall[c].id = id
    <3>1. machine'[id] = Saved(c)
      BY <1>t, <2>3, <2>7 DEF MachinesTypeOK
    <3>2. machineCall[c].op \in {"touch", "token"} /\ Saved(c).name # machine[id].name =>
              machine[id].name \in edited[c]
      BY <1>2, <2>1, <2>4, <2>7 DEF SaveAsRead, Is, CallOf
    <3>3. QED
      BY <2>2, <2>4, <2>5, <2>7, <3>1, <3>2
  <2>8. QED
    BY <2>6, <2>7
<1>3. ASSUME NEW c \in MachineCall, Retire(c)
      PROVE  machine'[id] # NoMachine /\ (machine[id].retired => machine'[id].retired)
             /\ machine'[id].name = machine[id].name
  <2>1. CallOf(c)
    BY DEF MachinesInv
  <2>2. machineCall[c].id \in MachineId /\ Exists(machineCall[c].id)
    BY <1>3, <2>1 DEF Retire, Is, CallOf
  <2>3. machine' = [machine EXCEPT ![machineCall[c].id].retired = TRUE]
    BY <1>3 DEF Retire
  <2>4. CASE machineCall[c].id # id
    BY <1>t, <2>2, <2>3, <2>4 DEF MachinesTypeOK, Exists
  <2>5. CASE machineCall[c].id = id
    <3> DEFINE row == [machine[id] EXCEPT !.retired = TRUE]
    <3>1. machine[id] \in Row
      BY <1>t, RowOfMachine
    <3>2. row \in Row /\ row.name = machine[id].name /\ row.retired
      BY <3>1 DEF Row
    <3>3. machine'[id] = row
      BY <1>t, <2>3, <2>5 DEF MachinesTypeOK
    <3>4. row # NoMachine
      BY <3>2, MachinesAssumption DEF Row
    <3>5. QED
      BY <3>2, <3>3, <3>4
  <2>6. QED
    BY <2>4, <2>5
<1>4. QED
  BY <1>1, <1>2, <1>3 DEF MachinesNext, MachineCallStep, MintToken, RevokeMachineTokens, Register, Update,
     Touch, IssueToken, RevokeTokensOf, Deregister, Read

(* Through calls that read, wait and save: a machine deregistered is cut    *)
(* off, an installation is one machine, and a heartbeat undoes an edit only *)
(* when it was saved in between (MachineRecordsHold).                       *)
THEOREM MachineRecordsAreKept == MachinesSpec => MachineRecordsHold
<1>1. MachinesInv => MachinesHold
  BY DEF MachinesInv
<1>2. MachinesInv /\ [MachinesNext]_machinesVars =>
          [\A id \in MachineId: Exists(id) =>
              /\ machine'[id] # NoMachine /\ (machine[id].retired => machine'[id].retired)
              /\ machine'[id].name # machine[id].name =>
                    \E c \in MachineCall: machineCall[c].id = id /\ machineCall'[c] # machineCall[c]
                        /\ (machineCall[c].op \in {"register", "update"} \/ machine[id].name \in edited[c])]_machinesVars
  BY StepKeepsEdits
<1>3. QED
  BY <1>1, <1>2, MachinesInitInv, MachinesNextInv, PTL
  DEF MachinesSpec, MachineRecordsHold, EditsAreLostOnlyInFlight

(* Sign-ins.                                                                *)

LEMMA AccountsInitInv == AccountsInit => AccountsInv
<1> SUFFICES ASSUME AccountsInit PROVE AccountsInv
  OBVIOUS
<1>0. Waiting \in CallState
  BY DEF CallState, Waiting, Nobody
<1>1. AccountsTypeOK
  <2>1. accountCall \in [AccountCall -> CallState]
    BY <1>0 DEF AccountsInit
  <2>2. password \in [version : Nat, tenant : Nat] /\ cutoff \in [at : Nat, kept : AccountCall \cup {Nobody}]
    BY DEF AccountsInit, Nobody
  <2>3. browser = {} /\ apiKey = {} /\ registered = FALSE
    BY DEF AccountsInit
  <2>4. oauth \in Nat /\ clock \in Nat \ {0} /\ changes \in Nat
    BY DEF AccountsInit, Nobody
  <2>5. QED
    BY <2>1, <2>2, <2>3, <2>4 DEF AccountsTypeOK
<1>2. \A c \in AccountCall : accountCall[c] = Waiting
  BY DEF AccountsInit
<1>3. \A c \in AccountCall : SignInOf(c) /\ ChangeOf(c)
  BY <1>2 DEF SignInOf, ChangeOf, Doing, Waiting, Nobody
<1>4. QED
  BY <1>1, <1>3 DEF AccountsInit, AccountsInv, IdentitiesAreKnown, OneTenantPerAddress, Nobody

LEMMA NobodyCalls == \A c \in AccountCall : c # Nobody /\ c \in Nat
  BY AccountsAssumption DEF Nobody

LEMMA AccountCallMoves ==
  ASSUME AccountsTypeOK, NEW c \in AccountCall, NEW rec \in CallState,
         accountCall' = [accountCall EXCEPT ![c] = rec]
  PROVE  /\ accountCall' \in [AccountCall -> CallState] /\ accountCall'[c] = rec
         /\ \A o \in AccountCall \ {c} : accountCall'[o] = accountCall[o]
  BY DEF AccountsTypeOK

(* A call that goes on by itself: the identities, the clock and the tokens  *)
(* stay, and what matters is what is known of the call.                     *)
LEMMA CallGoesOn ==
  ASSUME AccountsInv, NEW c \in AccountCall, NEW rec \in CallState,
         accountCall' = [accountCall EXCEPT ![c] = rec],
         accountCall[c].pc # "done", rec.pc # "commit",
         UNCHANGED <<identities, clock, browser, changes, accountPast>>,
         apiKey' \subseteq [id : AccountCall, revoked : BOOLEAN],
         SignInOf(c)', ChangeOf(c)'
  PROVE  AccountsInv'
<1> USE DEF identities, accountPast
<1>1. /\ accountCall' \in [AccountCall -> CallState] /\ accountCall'[c] = rec
      /\ \A o \in AccountCall \ {c} : accountCall'[o] = accountCall[o]
  BY AccountCallMoves DEF AccountsInv
<1>2. AccountsTypeOK' /\ IdentitiesAreKnown' /\ OneTenantPerAddress'
  BY <1>1 DEF AccountsInv, AccountsTypeOK, IdentitiesAreKnown, OneTenantPerAddress
<1>3. \A o \in AccountCall : accountCall[o].pc = "done" => accountCall'[o].pc = "done"
  BY <1>1
<1>4. \A t \in browser : TokenOf(t)'
  BY <1>3 DEF AccountsInv, AccountsTypeOK, TokenOf, TenantHeld, Doing
<1>5. ASSUME NEW o \in AccountCall \ {c} PROVE SignInOf(o)' /\ ChangeOf(o)'
  <2>1. SignInOf(o) /\ ChangeOf(o) /\ accountCall'[o] = accountCall[o]
    BY <1>1 DEF AccountsInv
  <2>2. accountCall[o].by \in AccountCall \cup {Nobody}
    BY DEF AccountsInv, AccountsTypeOK, CallState
  <2>3. SignInOf(o)'
    BY <2>1, <2>2, <1>3 DEF SignInOf, Doing, TenantHeld
  <2>4. \A p \in AccountCall : accountCall'[p].pc = "commit" => accountCall[p].pc = "commit"
    BY <1>1
  <2>5. ChangeOf(o)'
    BY <2>1, <2>4 DEF ChangeOf, Doing, SurvivesCutoff
  <2>6. QED
    BY <2>3, <2>5
<1>6. QED
  BY <1>2, <1>4, <1>5 DEF AccountsInv

(* A call that ends, or fails, and one that begins.                         *)
LEMMA CallEnds ==
  ASSUME AccountsInv, NEW c \in AccountCall, NEW pc \in {"done", "failed"}, Proceeds(c, pc),
         accountCall[c].pc # "done",
         UNCHANGED <<identities, clock, browser, changes, accountPast>>,
         apiKey' \subseteq [id : AccountCall, revoked : BOOLEAN]
  PROVE  AccountsInv'
<1>1. accountCall[c] \in CallState
  BY DEF AccountsInv, AccountsTypeOK
<1>2. PICK rec \in CallState : rec = [accountCall[c] EXCEPT !.pc = pc]
  BY <1>1 DEF CallState
<1>3. rec.pc = pc /\ rec.by = accountCall[c].by
  BY <1>1, <1>2 DEF CallState
<1>4. accountCall' = [accountCall EXCEPT ![c] = rec]
  BY <1>2 DEF Proceeds
<1>5. /\ accountCall'[c] = rec
      /\ \A o \in AccountCall \ {c} : accountCall'[o] = accountCall[o]
  BY <1>4, AccountCallMoves DEF AccountsInv
<1>6. rec.by # Nobody => rec.by \in AccountCall /\ accountCall[rec.by].pc = "done"
  BY <1>1, <1>3 DEF AccountsInv, SignInOf, Doing, CallState
<1>7. SignInOf(c)'
  BY <1>3, <1>5, <1>6 DEF SignInOf, Doing
<1>8. ChangeOf(c)'
  BY <1>3, <1>5 DEF ChangeOf, Doing
<1>9. QED
  BY <1>3, <1>4, <1>7, <1>8, CallGoesOn

LEMMA CallBegins ==
  ASSUME AccountsInv, NEW c \in AccountCall, NEW rec \in CallState,
         accountCall[c].pc = "idle", accountCall' = [accountCall EXCEPT ![c] = rec],
         UNCHANGED <<identities, clock, credentials, changes, accountPast>>,
         rec.pc \in {"issue", "create", "lock", "key", "failed"},
         rec.by # Nobody => accountCall[rec.by].pc = "done",
         rec.pc = "create" => rec.op = "oauth" /\ rec.tenant = c /\ password.version = 0 /\ rec.version = 0,
         rec.pc = "issue" => TenantHeld(rec.tenant) /\ rec.version \in {0, password.version},
         rec.pc = "lock" => /\ rec.op \in {"change", "reset"} /\ password.version # 0 /\ rec.version <= changes
                            /\ rec.op = "reset" => rec.by = Nobody
                            /\ rec.op = "change" => \A t \in browser: t.jti = rec.by => SurvivesCutoff(t)
  PROVE  AccountsInv'
<1> USE DEF identities, accountPast, credentials
<1>1. /\ accountCall'[c] = rec
      /\ \A o \in AccountCall \ {c} : accountCall'[o] = accountCall[o]
  BY AccountCallMoves DEF AccountsInv
<1>2. rec.by # Nobody => rec.by # c /\ rec.by \in AccountCall
  BY DEF CallState
<1>3. rec.by # Nobody => accountCall'[rec.by].pc = "done"
  BY <1>1, <1>2
<1>4. SignInOf(c)'
  BY <1>1, <1>3 DEF SignInOf, Doing, TenantHeld
<1>5. ChangeOf(c)'
  BY <1>1 DEF ChangeOf, Doing, SurvivesCutoff
<1>6. apiKey' \subseteq [id : AccountCall, revoked : BOOLEAN]
  BY DEF AccountsInv, AccountsTypeOK
<1>7. QED
  BY <1>4, <1>5, <1>6, CallGoesOn

LEMMA CallStepsInv ==
  ASSUME AccountsInv, NEW c \in AccountCall,
         \/ Login(c) \/ ResolveOAuthAccount(c) \/ ResetPassword(c) \/ SaveApiKey(c)
         \/ \E t \in browser: ChangePassword(c, t) \/ CreateApiKey(c, t)
  PROVE  AccountsInv'
<1> USE DEF identities, accountPast, credentials
<1>t. AccountsTypeOK
  BY DEF AccountsInv
<1>n. c \in Nat /\ Nobody = 0 /\ c # Nobody
  BY NobodyCalls DEF Nobody
<1>1. CASE Login(c)
  <2>1. PICK rec : rec = [op |-> "login", pc |-> "issue", by |-> Nobody, version |-> password.version, tenant |-> password.tenant]
    OBVIOUS
  <2>2. rec \in CallState
    BY <2>1, <1>t DEF AccountsTypeOK, CallState
  <2>3. accountCall' = [accountCall EXCEPT ![c] = rec] /\ accountCall[c].pc = "idle" /\ password.version # 0
    BY <2>1, <1>1 DEF Login, Begin, Doing
  <2>4. TenantHeld(password.tenant)
    <3>2. password.tenant # Nobody
      BY <2>3 DEF AccountsInv, IdentitiesAreKnown
    <3>3. QED
      BY <2>3, <3>2 DEF TenantHeld
  <2>5. UNCHANGED <<identities, clock, credentials, changes, accountPast>>
    BY <1>1 DEF Login
  <2>6. QED
    BY <2>1, <2>2, <2>3, <2>4, <2>5, CallBegins
<1>2. CASE ResolveOAuthAccount(c)
  <2>1. PICK tenant \in {oauth} \cup {password.tenant: v \in {password.version} \ {0}} :
          /\ tenant = Nobody => password.version = 0
          /\ Begin(c, "oauth", IF tenant = Nobody THEN "create" ELSE "issue", Nobody, 0,
                   IF tenant = Nobody THEN c ELSE tenant)
    BY <1>2 DEF ResolveOAuthAccount
  <2>2. PICK rec : rec = [op |-> "oauth", pc |-> IF tenant = Nobody THEN "create" ELSE "issue",
                          by |-> Nobody, version |-> 0, tenant |-> IF tenant = Nobody THEN c ELSE tenant]
    OBVIOUS
  <2>3. tenant \in Nat
    BY <2>1, <1>t DEF AccountsTypeOK
  <2>4. rec \in CallState
    BY <2>2, <2>3, <1>n DEF CallState
  <2>5. tenant # Nobody => TenantHeld(tenant)
    BY <2>1 DEF TenantHeld
  <2>6. accountCall' = [accountCall EXCEPT ![c] = rec] /\ accountCall[c].pc = "idle"
    BY <2>1, <2>2 DEF Begin, Doing
  <2>7. UNCHANGED <<identities, clock, credentials, changes, accountPast>>
    BY <1>2 DEF ResolveOAuthAccount
  <2>8. QED
    BY <2>1, <2>2, <2>4, <2>5, <2>6, <2>7, CallBegins
<1>3. CASE ResetPassword(c)
  <2>1. PICK rec : rec = [op |-> "reset", pc |-> "lock", by |-> Nobody, version |-> 0, tenant |-> Nobody]
    OBVIOUS
  <2>2. rec \in CallState
    BY <2>1, <1>n DEF CallState
  <2>3. accountCall' = [accountCall EXCEPT ![c] = rec] /\ accountCall[c].pc = "idle" /\ password.version # 0
    BY <2>1, <1>3 DEF ResetPassword, Begin, Doing
  <2>4. UNCHANGED <<identities, clock, credentials, changes, accountPast>> /\ changes >= 0
    BY <1>3, <1>t DEF ResetPassword, AccountsTypeOK
  <2>5. QED
    BY <2>1, <2>2, <2>3, <2>4, CallBegins
<1>4. CASE SaveApiKey(c)
  <2>0. [id |-> c, revoked |-> FALSE] \in [id : AccountCall, revoked : BOOLEAN]
    OBVIOUS
  <2>1. apiKey' \subseteq [id : AccountCall, revoked : BOOLEAN]
    BY <1>4, <1>t, <2>0 DEF SaveApiKey, AccountsTypeOK
  <2>2. accountCall[c].pc # "done" /\ Proceeds(c, "done")
    BY <1>4 DEF SaveApiKey, Doing
  <2>3. UNCHANGED <<identities, clock, browser, changes, accountPast>>
    BY <1>4 DEF SaveApiKey
  <2>4. QED
    BY <2>1, <2>2, <2>3, CallEnds
<1>5. ASSUME NEW t \in browser, ChangePassword(c, t) \/ CreateApiKey(c, t) PROVE AccountsInv'
  <2>t. t.jti \in AccountCall /\ accountCall[t.jti].pc = "done" /\ \A u \in browser: u.jti = t.jti => u = t
    BY <1>t DEF AccountsInv, AccountsTypeOK, TokenOf, Doing
  <2>1. CASE ChangePassword(c, t)
    <3>1. PICK rec : rec = [op |-> "change", pc |-> "lock", by |-> t.jti, version |-> password.version, tenant |-> Nobody]
      OBVIOUS
    <3>2. rec \in CallState
      BY <3>1, <2>t, <1>t, <1>n DEF AccountsTypeOK, CallState
    <3>3. accountCall' = [accountCall EXCEPT ![c] = rec] /\ accountCall[c].pc = "idle" /\ password.version # 0
      BY <3>1, <2>1 DEF ChangePassword, Begin, Doing
    <3>4. \A u \in browser: u.jti = t.jti => SurvivesCutoff(u)
      BY <2>1, <2>t DEF ChangePassword, SessionTokenLive, SignInIdentityLive
    <3>5. password.version <= changes
      BY DEF AccountsInv, IdentitiesAreKnown
    <3>6. UNCHANGED <<identities, clock, credentials, changes, accountPast>>
      BY <2>1 DEF ChangePassword
    <3>7. QED
      BY <3>1, <3>2, <3>3, <3>4, <3>5, <3>6, <2>t, CallBegins
  <2>2. CASE CreateApiKey(c, t)
    <3>1. PICK rec : rec = [op |-> "key", pc |-> "key", by |-> t.jti, version |-> 0, tenant |-> Nobody]
      OBVIOUS
    <3>2. rec \in CallState
      BY <3>1, <2>t, <1>n DEF CallState
    <3>3. accountCall' = [accountCall EXCEPT ![c] = rec] /\ accountCall[c].pc = "idle"
      BY <3>1, <2>2 DEF CreateApiKey, Begin, Doing
    <3>4. UNCHANGED <<identities, clock, credentials, changes, accountPast>>
      BY <2>2 DEF CreateApiKey
    <3>5. QED
      BY <3>1, <3>2, <3>3, <3>4, <2>t, CallBegins
  <2>3. QED
    BY <1>5, <2>1, <2>2
<1>6. QED
  BY <1>1, <1>2, <1>3, <1>4, <1>5

(* The registration that is the address's first: nobody is signed in, and   *)
(* nobody is about to be.                                                   *)
LEMMA RegisterInv ==
  ASSUME AccountsInv, NEW c \in AccountCall, RegisterAccount(c)
  PROVE  AccountsInv'
<1> USE DEF identities, accountPast, credentials
<1>t. AccountsTypeOK
  BY DEF AccountsInv
<1>n. c \in Nat /\ Nobody = 0 /\ c # Nobody
  BY NobodyCalls DEF Nobody
<1>1. PICK rec : rec = [op |-> "register", pc |-> IF registered THEN "failed" ELSE "issue", by |-> Nobody,
                        version |-> changes + 1, tenant |-> c]
  OBVIOUS
<1>2. changes + 1 \in Nat /\ changes + 1 > changes /\ changes + 1 # 0
  <2>1. changes \in Nat
    BY <1>t DEF AccountsTypeOK
  <2>2. QED
    BY <2>1
<1>3. rec \in CallState
  BY <1>1, <1>2, <1>n DEF CallState
<1>4. accountCall' = [accountCall EXCEPT ![c] = rec] /\ accountCall[c].pc = "idle"
  BY <1>1 DEF RegisterAccount, Begin, Doing
<1>5. CASE registered
  <2>1. UNCHANGED <<identities, clock, credentials, changes, accountPast>>
    BY <1>5 DEF RegisterAccount
  <2>2. QED
    BY <1>1, <1>3, <1>4, <1>5, <2>1, CallBegins
<1>6. CASE ~registered
  <2>1. /\ registered' = TRUE /\ password' = [version |-> changes + 1, tenant |-> c]
        /\ changes' = changes + 1
        /\ crossed' = \E o \in AccountCall: accountCall[o].op = "oauth" /\ accountCall[o].pc = "create"
        /\ UNCHANGED <<oauth, cutoff, clock, browser, signedOut, apiKey, mcpToken, overtaken>>
    BY <1>6 DEF RegisterAccount, Doing
  <2>2. oauth = Nobody /\ password.version = 0 /\ \A tenant: ~TenantHeld(tenant)
    BY <1>6 DEF AccountsInv, IdentitiesAreKnown, TenantHeld
  <2>3. browser = {} /\ \A o \in AccountCall: accountCall[o].pc # "issue"
    BY <2>2 DEF AccountsInv, TokenOf, SignInOf, Doing
  <2>4. /\ accountCall' \in [AccountCall -> CallState] /\ accountCall'[c] = rec
        /\ \A o \in AccountCall \ {c} : accountCall'[o] = accountCall[o]
    BY <1>3, <1>4, <1>t, AccountCallMoves
  <2>5. password' \in [version : Nat, tenant : Nat] /\ password'.version = changes + 1 /\ password'.tenant = c
    BY <2>1, <1>2, <1>n
  <2>6. AccountsTypeOK'
    BY <2>1, <2>4, <2>5, <1>2, <1>t DEF AccountsTypeOK
  <2>7. IdentitiesAreKnown' /\ OneTenantPerAddress'
    BY <2>1, <2>2, <2>5, <1>2, <1>n DEF AccountsInv, AccountsTypeOK, IdentitiesAreKnown, OneTenantPerAddress
  <2>8. \A t \in browser': TokenOf(t)' /\ \A u \in browser' : u.jti = t.jti => u = t
    BY <2>1, <2>3
  <2>9. ASSUME NEW o \in AccountCall PROVE SignInOf(o)' /\ ChangeOf(o)'
    <3>1. CASE o = c
      <4>1. accountCall'[o].pc = "issue" /\ accountCall'[o].by = Nobody
            /\ accountCall'[o].tenant = c /\ accountCall'[o].version = changes + 1
        BY <3>1, <2>4, <1>1, <1>6
      <4>2. QED
        BY <4>1, <2>5, <1>2, <1>n DEF SignInOf, ChangeOf, Doing, TenantHeld
    <3>2. CASE o # c
      <4>1. accountCall'[o] = accountCall[o] /\ accountCall[o].pc \notin {"issue", "lock", "commit"}
        BY <3>2, <2>2, <2>3, <2>4 DEF AccountsInv, ChangeOf
      <4>2. accountCall[o].by # Nobody => accountCall'[accountCall[o].by].pc = "done"
        <5>1. accountCall[o].by \in AccountCall \cup {Nobody}
          BY <1>t DEF AccountsTypeOK, CallState
        <5>2. QED
          BY <5>1, <2>4, <1>4 DEF AccountsInv, SignInOf, Doing
      <4>3. SignInOf(o)'
        BY <4>1, <4>2, <2>1 DEF AccountsInv, SignInOf, Doing
      <4>4. QED
        BY <4>1, <4>3 DEF ChangeOf, Doing
    <3>3. QED
      BY <3>1, <3>2
  <2>10. QED
    BY <2>6, <2>7, <2>8, <2>9 DEF AccountsInv
<1>7. QED
  BY <1>5, <1>6

(* A token is issued.                                                       *)
LEMMA IssueInv ==
  ASSUME AccountsInv, NEW c \in AccountCall, Issue(c)
  PROVE  AccountsInv'
<1> USE DEF identities
<1>t. AccountsTypeOK
  BY DEF AccountsInv
<1>n. c \in Nat /\ Nobody = 0 /\ c # Nobody
  BY NobodyCalls DEF Nobody
<1>s. SignInOf(c) /\ accountCall[c] \in CallState /\ accountCall[c].pc = "issue"
  BY <1>t DEF AccountsInv, AccountsTypeOK, Issue, Doing
<1>1. PICK rec \in CallState : rec = [accountCall[c] EXCEPT !.pc = "done"]
  BY <1>s DEF CallState
<1>2. rec.pc = "done" /\ rec.by = accountCall[c].by
  BY <1>1, <1>s DEF CallState
<1>3. /\ accountCall' \in [AccountCall -> CallState] /\ accountCall'[c] = rec
      /\ \A o \in AccountCall \ {c} : accountCall'[o] = accountCall[o]
  <2>1. accountCall' = [accountCall EXCEPT ![c] = rec]
    BY <1>1 DEF Issue, Proceeds
  <2>2. QED
    BY <2>1, <1>t, AccountCallMoves
<1>4. PICK new : new = [jti |-> c, version |-> accountCall[c].version, tenant |-> accountCall[c].tenant, iat |-> clock]
  OBVIOUS
<1>5. new \in [jti : AccountCall, version : Nat, tenant : Nat, iat : Nat]
  BY <1>4, <1>s, <1>t DEF AccountsTypeOK, CallState
<1>6. /\ browser' = browser \cup {new} /\ overtaken \subseteq overtaken'
      /\ \A o \in AccountCall : accountCall[o].pc = "commit" => c \in overtaken'
      /\ UNCHANGED <<identities, clock, signedOut, apiKey, mcpToken, changes, crossed>>
  BY <1>4 DEF Issue, Doing
<1>7. AccountsTypeOK' /\ IdentitiesAreKnown' /\ OneTenantPerAddress'
  BY <1>3, <1>5, <1>6, <1>t DEF AccountsInv, AccountsTypeOK, IdentitiesAreKnown, OneTenantPerAddress
<1>8. \A t \in browser : t.jti # c /\ t.jti \in AccountCall
  BY <1>s, <1>t DEF AccountsInv, AccountsTypeOK, TokenOf, Doing
<1>9. ASSUME NEW t \in browser PROVE TokenOf(t)'
  <2>1. TokenOf(t) /\ accountCall'[t.jti] = accountCall[t.jti]
    BY <1>3, <1>8 DEF AccountsInv
  <2>2. QED
    BY <2>1, <1>6 DEF TokenOf, Doing, TenantHeld
<1>10. TokenOf(new)'
  <2>1. new.jti = c /\ new.version = accountCall[c].version /\ new.tenant = accountCall[c].tenant /\ new.iat = clock
    BY <1>4
  <2>2. clock <= clock'
    BY <1>6, <1>t DEF AccountsTypeOK
  <2>3. QED
    BY <2>1, <2>2, <1>2, <1>3, <1>6, <1>s DEF TokenOf, SignInOf, Doing, TenantHeld
<1>11. \A t \in browser': TokenOf(t)' /\ \A u \in browser' : u.jti = t.jti => u = t
  BY <1>4, <1>6, <1>8, <1>9, <1>10 DEF AccountsInv
<1>12. ASSUME NEW o \in AccountCall PROVE SignInOf(o)' /\ ChangeOf(o)'
  <2>1. accountCall[o].by \in AccountCall \cup {Nobody} /\ SignInOf(o) /\ ChangeOf(o)
    BY <1>t DEF AccountsInv, AccountsTypeOK, CallState
  <2>2. accountCall[o].by # Nobody => accountCall'[accountCall[o].by].pc = "done" /\ accountCall[o].by # c
    BY <2>1, <1>2, <1>3, <1>s DEF SignInOf, Doing
  <2>3. accountCall'[o].by = accountCall[o].by
    BY <1>2, <1>3
  <2>4. CASE o = c
    BY <2>4, <2>2, <2>3, <1>2, <1>3 DEF SignInOf, ChangeOf, Doing
  <2>5. CASE o # c
    <3>1. accountCall'[o] = accountCall[o]
      BY <2>5, <1>3
    <3>2. SignInOf(o)'
      BY <3>1, <2>1, <2>2, <1>6 DEF SignInOf, Doing, TenantHeld
    <3>3. accountCall[o].by # c /\ new.jti = c
      BY <2>2, <1>4, <1>n
    <3>4. \A p \in AccountCall : accountCall'[p].pc = "commit" => accountCall[p].pc = "commit"
      BY <1>2, <1>3
    <3>5. ChangeOf(o)'
      BY <3>1, <3>3, <3>4, <2>1, <1>6 DEF ChangeOf, Doing, SurvivesCutoff
    <3>6. QED
      BY <3>2, <3>5
  <2>6. QED
    BY <2>4, <2>5
<1>13. QED
  BY <1>7, <1>11, <1>12 DEF AccountsInv

(* A provider identity is made.                                             *)
LEMMA CreateOAuthInv ==
  ASSUME AccountsInv, NEW c \in AccountCall, CreateOAuthIdentity(c)
  PROVE  AccountsInv'
<1> USE DEF identities, accountPast, credentials
<1>t. AccountsTypeOK
  BY DEF AccountsInv
<1>n. c \in Nat /\ Nobody = 0 /\ c # Nobody
  BY NobodyCalls DEF Nobody
<1>s. SignInOf(c) /\ accountCall[c] \in CallState /\ accountCall[c].pc = "create"
  BY <1>t DEF AccountsInv, AccountsTypeOK, CreateOAuthIdentity, Doing
<1>1. CASE oauth # Nobody
  <2>1. Proceeds(c, "failed") /\ UNCHANGED <<identities, clock, credentials, changes, accountPast>>
    BY <1>1 DEF CreateOAuthIdentity
  <2>2. apiKey' \subseteq [id : AccountCall, revoked : BOOLEAN]
    BY <2>1, <1>t DEF AccountsTypeOK
  <2>3. QED
    BY <2>1, <2>2, <1>s, CallEnds
<1>2. CASE oauth = Nobody
  <2>1. /\ registered' = TRUE /\ oauth' = c /\ Proceeds(c, "issue")
        /\ UNCHANGED <<password, cutoff, clock, credentials, changes, accountPast>>
    BY <1>2 DEF CreateOAuthIdentity
  <2>2. PICK rec \in CallState : rec = [accountCall[c] EXCEPT !.pc = "issue"]
    BY <1>s DEF CallState
  <2>3. rec.pc = "issue" /\ rec.by = accountCall[c].by /\ rec.tenant = c /\ rec.version = 0
    BY <2>2, <1>s DEF CallState, SignInOf, Doing
  <2>4. /\ accountCall' \in [AccountCall -> CallState] /\ accountCall'[c] = rec
        /\ \A o \in AccountCall \ {c} : accountCall'[o] = accountCall[o]
    <3>1. accountCall' = [accountCall EXCEPT ![c] = rec]
      BY <2>1, <2>2 DEF Proceeds
    <3>2. QED
      BY <3>1, <1>t, AccountCallMoves
  <2>5. \A tenant : TenantHeld(tenant) => TenantHeld(tenant)'
    BY <1>2, <2>1 DEF TenantHeld
  <2>6. AccountsTypeOK'
    BY <2>1, <2>4, <1>n, <1>t DEF AccountsTypeOK
  <2>7. IdentitiesAreKnown' /\ OneTenantPerAddress'
    BY <2>1, <1>n, <1>s DEF AccountsInv, IdentitiesAreKnown, OneTenantPerAddress, SignInOf, Doing
  <2>8. \A o \in AccountCall : accountCall[o].pc = "done" => accountCall'[o].pc = "done"
    BY <2>4, <1>s
  <2>9. ASSUME NEW t \in browser PROVE TokenOf(t)'
    <3>1. TokenOf(t) /\ t.jti \in AccountCall
      BY <1>t DEF AccountsInv, AccountsTypeOK
    <3>2. TenantHeld(t.tenant)'
      BY <3>1, <2>5 DEF TokenOf
    <3>3. QED
      BY <3>1, <3>2, <2>1, <2>8 DEF TokenOf, Doing
  <2>10. ASSUME NEW o \in AccountCall PROVE SignInOf(o)' /\ ChangeOf(o)'
    <3>1. accountCall[o].by \in AccountCall \cup {Nobody} /\ SignInOf(o) /\ ChangeOf(o)
      BY <1>t DEF AccountsInv, AccountsTypeOK, CallState
    <3>2. accountCall[o].by # Nobody => accountCall'[accountCall[o].by].pc = "done"
      BY <3>1, <2>8 DEF SignInOf, Doing
    <3>3. CASE o = c
      <4>1. TenantHeld(c)'
        BY <2>1, <1>n DEF TenantHeld
      <4>2. accountCall'[o].tenant = c /\ accountCall'[o].pc = "issue" /\ accountCall'[o].by = accountCall[o].by
            /\ accountCall'[o].version = 0
        BY <3>3, <2>3, <2>4
      <4>4. QED
        BY <4>1, <4>2, <3>2 DEF SignInOf, ChangeOf, Doing, TenantHeld
    <3>4. CASE o # c
      <4>1. accountCall'[o] = accountCall[o]
        BY <3>4, <2>4
      <4>3. SignInOf(o)'
        <5>1. PICK tenant : tenant = accountCall[o].tenant
          OBVIOUS
        <5>2. accountCall[o].pc = "issue" => TenantHeld(tenant)
          BY <5>1, <3>1 DEF SignInOf, Doing
        <5>3. accountCall[o].pc = "issue" => TenantHeld(tenant)'
          BY <5>2, <2>5
        <5>4. QED
          BY <4>1, <5>1, <5>3, <3>1, <3>2, <2>1 DEF SignInOf, Doing, TenantHeld
      <4>4. \A p \in AccountCall : accountCall'[p].pc = "commit" => accountCall[p].pc = "commit"
        BY <2>3, <2>4
      <4>5. ChangeOf(o)'
        BY <4>1, <4>4, <3>1, <2>1 DEF ChangeOf, Doing, SurvivesCutoff
      <4>6. QED
        BY <4>3, <4>5
    <3>5. QED
      BY <3>3, <3>4
  <2>11. QED
    BY <2>1, <2>6, <2>7, <2>9, <2>10 DEF AccountsInv
<1>3. QED
  BY <1>1, <1>2

(* The row is locked: no other change is being made, and whoever signed in  *)
(* at this moment is overtaken.                                             *)
LEMMA LockInv ==
  ASSUME AccountsInv, NEW c \in AccountCall, LockIdentity(c)
  PROVE  AccountsInv'
<1> USE DEF identities, accountPast, credentials
<1>t. AccountsTypeOK
  BY DEF AccountsInv
<1>s. SignInOf(c) /\ ChangeOf(c) /\ accountCall[c] \in CallState /\ accountCall[c].pc = "lock"
  BY <1>t DEF AccountsInv, AccountsTypeOK, LockIdentity, Doing
<1>1. CASE accountCall[c].op = "change" /\ accountCall[c].version # password.version
  <2>1. Proceeds(c, "failed") /\ UNCHANGED <<identities, clock, credentials, changes, accountPast>>
    BY <1>1 DEF LockIdentity
  <2>2. apiKey' \subseteq [id : AccountCall, revoked : BOOLEAN]
    BY <2>1, <1>t DEF AccountsTypeOK
  <2>3. QED
    BY <2>1, <2>2, <1>s, CallEnds
<1>2. CASE ~(accountCall[c].op = "change" /\ accountCall[c].version # password.version)
  <2>1. /\ accountCall' = [accountCall EXCEPT ![c].pc = "commit", ![c].tenant = clock]
        /\ overtaken' = overtaken \cup SameMoment
        /\ \A o \in AccountCall : accountCall[o].pc # "commit"
        /\ UNCHANGED <<identities, clock, credentials, changes, crossed>>
    BY <1>2 DEF LockIdentity, RowFree, Doing
  <2>2. PICK rec : rec = [accountCall[c] EXCEPT !.pc = "commit", !.tenant = clock]
    OBVIOUS
  <2>3. rec \in CallState /\ rec.pc = "commit" /\ rec.tenant = clock /\ rec.by = accountCall[c].by
        /\ rec.version = accountCall[c].version /\ rec.op = accountCall[c].op
    BY <2>2, <1>s, <1>t DEF CallState, AccountsTypeOK
  <2>4. /\ accountCall' \in [AccountCall -> CallState] /\ accountCall'[c] = rec
        /\ \A o \in AccountCall \ {c} : accountCall'[o] = accountCall[o]
    <3>1. accountCall' = [accountCall EXCEPT ![c] = rec]
      BY <2>1, <2>2, <1>t, <1>s DEF AccountsTypeOK, CallState
    <3>2. QED
      BY <3>1, <2>3, <1>t, AccountCallMoves
  <2>5. \A t \in browser : t.iat >= clock => t.jti \in overtaken'
    <3>1. \A t \in browser : t.iat <= clock /\ t.iat \in Nat /\ clock \in Nat
      BY <1>t DEF AccountsInv, TokenOf, AccountsTypeOK
    <3>2. \A t \in browser : t.iat >= clock => t.iat = clock
      BY <3>1
    <3>3. QED
      BY <3>2, <2>1 DEF SameMoment
  <2>6. AccountsTypeOK' /\ IdentitiesAreKnown' /\ OneTenantPerAddress'
    BY <2>1, <2>4, <1>t DEF AccountsInv, AccountsTypeOK, IdentitiesAreKnown, OneTenantPerAddress
  <2>7. \A o \in AccountCall : accountCall[o].pc = "done" => accountCall'[o].pc = "done"
    BY <2>4, <1>s
  <2>8. \A t \in browser : TokenOf(t)'
    BY <2>1, <2>7, <1>t DEF AccountsInv, AccountsTypeOK, TokenOf, TenantHeld, Doing
  <2>9. ASSUME NEW o \in AccountCall PROVE SignInOf(o)' /\ ChangeOf(o)'
    <3>1. accountCall[o].by \in AccountCall \cup {Nobody} /\ SignInOf(o) /\ ChangeOf(o)
      BY <1>t DEF AccountsInv, AccountsTypeOK, CallState
    <3>2. accountCall[o].by # Nobody => accountCall'[accountCall[o].by].pc = "done"
      BY <3>1, <2>7 DEF SignInOf, Doing
    <3>3. CASE o = c
      <4>0. accountCall'[o] = rec
        BY <3>3, <2>4
      <4>1. SignInOf(o)'
        BY <4>0, <3>2, <3>3, <2>3 DEF SignInOf, Doing
      <4>2. clock \in Nat \ {0} /\ cutoff.at <= clock
        BY <1>t DEF AccountsInv, AccountsTypeOK, IdentitiesAreKnown
      <4>3. \A p \in AccountCall \ {o} : accountCall'[p].pc # "commit"
        BY <3>3, <2>1, <2>4
      <4>4. clock > 0 /\ clock >= cutoff.at /\ clock <= clock
        BY <4>2, <1>t DEF AccountsTypeOK
      <4>5. ChangeOf(o)'
        BY <4>0, <4>3, <4>4, <3>1, <3>3, <1>2, <1>s, <2>1, <2>3, <2>5 DEF ChangeOf, Doing, SurvivesCutoff
      <4>6. QED
        BY <4>1, <4>5
    <3>4. CASE o # c
      <4>1. accountCall'[o] = accountCall[o] /\ accountCall[o].pc # "commit"
        BY <3>4, <2>1, <2>4
      <4>2. SignInOf(o)'
        BY <4>1, <3>1, <3>2, <2>1 DEF SignInOf, Doing, TenantHeld
      <4>3. ChangeOf(o)'
        BY <4>1, <3>1, <2>1 DEF ChangeOf, Doing, SurvivesCutoff
      <4>4. QED
        BY <4>2, <4>3
    <3>5. QED
      BY <3>3, <3>4
  <2>10. QED
    BY <2>1, <2>6, <2>8, <2>9 DEF AccountsInv
<1>3. QED
  BY <1>1, <1>2

(* The password changes: every session that survives the new cutoff was     *)
(* overtaken, or is the one that is kept.                                   *)
LEMMA CommitInv ==
  ASSUME AccountsInv, NEW c \in AccountCall, CommitPassword(c)
  PROVE  AccountsInv'
<1> USE DEF identities, accountPast, credentials
<1>t. AccountsTypeOK
  BY DEF AccountsInv
<1>s. SignInOf(c) /\ ChangeOf(c) /\ accountCall[c] \in CallState /\ accountCall[c].pc = "commit"
  BY <1>t DEF AccountsInv, AccountsTypeOK, CommitPassword, Doing
<1>1. PICK rec \in CallState : rec = [accountCall[c] EXCEPT !.pc = "done"]
  BY <1>s DEF CallState
<1>2. rec.pc = "done" /\ rec.by = accountCall[c].by
  BY <1>1, <1>s DEF CallState
<1>3. /\ accountCall' \in [AccountCall -> CallState] /\ accountCall'[c] = rec
      /\ \A o \in AccountCall \ {c} : accountCall'[o] = accountCall[o]
  <2>1. accountCall' = [accountCall EXCEPT ![c] = rec]
    BY <1>1 DEF CommitPassword, Proceeds
  <2>2. QED
    BY <2>1, <1>t, AccountCallMoves
<1>4. changes' = changes + 1 /\ changes \in Nat /\ changes + 1 \in Nat /\ changes + 1 # 0
      /\ \A v : v \in Nat /\ v <= changes => v # changes + 1 /\ v <= changes + 1
  <2>1. changes' = changes + 1 /\ changes \in Nat
    BY <1>t DEF CommitPassword, AccountsTypeOK
  <2>2. QED
    BY ONLY <2>1
<1>5. /\ password' = [password EXCEPT !.version = changes + 1]
      /\ cutoff' = [at |-> accountCall[c].tenant, kept |-> accountCall[c].by]
      /\ apiKey' = IF accountCall[c].op = "reset" THEN {[k EXCEPT !.revoked = TRUE]: k \in apiKey} ELSE apiKey
      /\ overtaken' = overtaken \cup {o \in AccountCall: accountCall[o].pc = "issue"}
      /\ UNCHANGED <<registered, oauth, clock, browser, signedOut, mcpToken, crossed>>
  BY DEF CommitPassword, Doing
<1>6. /\ password' \in [version : Nat, tenant : Nat] /\ password'.version = changes + 1
      /\ password'.tenant = password.tenant
  BY <1>4, <1>5, <1>t DEF AccountsTypeOK
<1>7. /\ cutoff' \in [at : Nat, kept : AccountCall \cup {Nobody}]
      /\ cutoff'.at = accountCall[c].tenant /\ cutoff'.kept = accountCall[c].by
  BY <1>5, <1>s DEF CallState
<1>8. /\ accountCall[c].tenant > 0 /\ accountCall[c].tenant <= clock
      /\ \A t \in browser: t.iat >= accountCall[c].tenant => t.jti \in overtaken
      /\ \A o \in AccountCall \ {c}: accountCall[o].pc # "commit"
      /\ password.version # 0
  BY <1>s DEF ChangeOf, Doing
<1>9. apiKey' \subseteq [id : AccountCall, revoked : BOOLEAN]
  <2>1. \A k \in apiKey : [k EXCEPT !.revoked = TRUE] \in [id : AccountCall, revoked : BOOLEAN]
    BY <1>t DEF AccountsTypeOK
  <2>2. QED
    BY <2>1, <1>5, <1>t DEF AccountsTypeOK
<1>10. AccountsTypeOK'
  BY <1>3, <1>4, <1>5, <1>6, <1>7, <1>9, <1>t DEF AccountsTypeOK
<1>11. IdentitiesAreKnown' /\ OneTenantPerAddress'
  BY <1>4, <1>5, <1>6, <1>7, <1>8 DEF AccountsInv, IdentitiesAreKnown, OneTenantPerAddress
<1>12. \A o \in AccountCall : accountCall[o].pc = "done" => accountCall'[o].pc = "done"
  BY <1>2, <1>3
<1>13. ASSUME NEW t \in browser PROVE TokenOf(t)'
  <2>1. TokenOf(t) /\ t.jti \in AccountCall /\ t.iat \in Nat /\ accountCall[c].tenant \in Nat
    BY <1>t, <1>s DEF AccountsInv, AccountsTypeOK, CallState
  <2>2. TenantHeld(t.tenant)'
    BY <2>1, <1>5, <1>6, <1>4 DEF TokenOf, TenantHeld
  <2>3. t.jti \in overtaken' \/ (cutoff'.at # 0 /\ t.iat < cutoff'.at)
    BY <2>1, <1>5, <1>7, <1>8
  <2>4. accountCall'[t.jti].pc = "done" /\ t.iat <= clock'
    BY <2>1, <1>5, <1>12 DEF TokenOf, Doing
  <2>5. password'.version # 0
    BY <1>4, <1>6
  <2>6. QED
    BY <2>2, <2>3, <2>4, <2>5 DEF TokenOf, Doing
<1>14. ASSUME NEW o \in AccountCall PROVE SignInOf(o)' /\ ChangeOf(o)'
  <2>1. accountCall[o].by \in AccountCall \cup {Nobody} /\ SignInOf(o) /\ ChangeOf(o) /\ accountCall[o].version \in Nat
    BY <1>t DEF AccountsInv, AccountsTypeOK, CallState
  <2>2. accountCall[o].by # Nobody => accountCall'[accountCall[o].by].pc = "done"
    BY <2>1, <1>12 DEF SignInOf, Doing
  <2>3. CASE o = c
    BY <2>2, <2>3, <1>2, <1>3 DEF SignInOf, ChangeOf, Doing
  <2>4. CASE o # c
    <3>1. accountCall'[o] = accountCall[o] /\ accountCall[o].pc # "commit"
      BY <2>4, <1>3, <1>8
    <3>2. accountCall[o].pc = "issue" => o \in overtaken'
      BY <1>5
    <3>3. SignInOf(o)'
      BY <3>1, <3>2, <2>1, <2>2, <1>4, <1>5, <1>6, <1>8 DEF SignInOf, Doing, TenantHeld
    <3>4. accountCall[o].pc = "lock" => accountCall[o].version # changes + 1 /\ accountCall[o].version <= changes'
      BY <2>1, <1>4 DEF ChangeOf
    <3>5. ChangeOf(o)'
      BY <3>1, <3>4, <2>1, <1>4, <1>6 DEF ChangeOf, Doing
    <3>6. QED
      BY <3>3, <3>5
  <2>5. QED
    BY <2>3, <2>4
<1>15. \A t \in browser': TokenOf(t)' /\ \A u \in browser' : u.jti = t.jti => u = t
  BY <1>5, <1>13 DEF AccountsInv
<1>16. QED
  BY <1>10, <1>11, <1>14, <1>15 DEF AccountsInv

LEMMA AccountsNextInv == AccountsInv /\ [AccountsNext]_accountVars => AccountsInv'
<1> SUFFICES ASSUME AccountsInv, [AccountsNext]_accountVars PROVE AccountsInv'
  OBVIOUS
<1> USE DEF identities, accountPast, credentials
<1>t. AccountsTypeOK
  BY DEF AccountsInv
<1>f. ASSUME UNCHANGED <<identities, browser, accountCall, changes, accountPast>>, clock' >= clock, clock' \in Nat \ {0},
             apiKey' \subseteq [id : AccountCall, revoked : BOOLEAN]
      PROVE  AccountsInv'
  <2>1. AccountsTypeOK'
    BY <1>f, <1>t DEF AccountsTypeOK
  <2>2. clock \in Nat /\ cutoff.at \in Nat /\ \A t \in browser : t.iat \in Nat
    BY <1>t DEF AccountsTypeOK
  <2>3. \A n \in Nat : n <= clock => n <= clock'
    BY <1>f, <2>2
  <2>4. IdentitiesAreKnown' /\ OneTenantPerAddress'
    BY <1>f, <2>2, <2>3 DEF AccountsInv, IdentitiesAreKnown, OneTenantPerAddress
  <2>5. \A t \in browser : TokenOf(t)'
    BY <1>f, <2>2, <2>3 DEF AccountsInv, TokenOf, TenantHeld, Doing
  <2>6. ASSUME NEW o \in AccountCall PROVE SignInOf(o)' /\ ChangeOf(o)'
    <3>1. SignInOf(o) /\ ChangeOf(o) /\ accountCall[o].tenant \in Nat
      BY <1>t DEF AccountsInv, AccountsTypeOK, CallState
    <3>2. SignInOf(o)'
      BY <1>f, <3>1 DEF SignInOf, Doing, TenantHeld
    <3>3. ChangeOf(o)'
      BY <1>f, <3>1, <2>3 DEF ChangeOf, Doing, SurvivesCutoff
    <3>4. QED
      BY <3>2, <3>3
  <2>7. QED
    BY <1>f, <2>1, <2>4, <2>5, <2>6 DEF AccountsInv
<1>c. clock' = clock => clock' >= clock /\ clock' \in Nat \ {0}
  BY <1>t DEF AccountsTypeOK
<1>1. ASSUME NEW c \in AccountCall,
             \/ RegisterAccount(c) \/ Login(c) \/ ResolveOAuthAccount(c) \/ CreateOAuthIdentity(c)
             \/ Issue(c) \/ ResetPassword(c) \/ LockIdentity(c) \/ CommitPassword(c) \/ SaveApiKey(c)
             \/ \E t \in browser: ChangePassword(c, t) \/ CreateApiKey(c, t)
      PROVE  AccountsInv'
  BY <1>1, RegisterInv, CallStepsInv, CreateOAuthInv, IssueInv, LockInv, CommitInv
<1>2. ASSUME NEW t \in browser, Logout(t) PROVE AccountsInv'
  <2>1. /\ UNCHANGED <<identities, clock, browser, accountCall, changes, accountPast>>
        /\ apiKey' \subseteq [id : AccountCall, revoked : BOOLEAN]
    BY <1>2, <1>t DEF Logout, AccountsTypeOK
  <2>2. QED
    BY <2>1, <1>c, <1>f
<1>3. ASSUME NEW k \in apiKey, RevokeApiKey(k) \/ Handshake(k) PROVE AccountsInv'
  <2>1. UNCHANGED <<identities, clock, browser, accountCall, changes, accountPast>>
    BY <1>3 DEF RevokeApiKey, Handshake
  <2>2. [k EXCEPT !.revoked = TRUE] \in [id : AccountCall, revoked : BOOLEAN]
    BY <1>t DEF AccountsTypeOK
  <2>3. apiKey' \subseteq [id : AccountCall, revoked : BOOLEAN]
    BY <1>3, <2>2, <1>t DEF RevokeApiKey, Handshake, AccountsTypeOK
  <2>4. QED
    BY <2>1, <2>3, <1>c, <1>f
<1>4. CASE Tick
  <2>1. /\ UNCHANGED <<identities, browser, accountCall, changes, accountPast>> /\ clock' = clock + 1 /\ clock \in Nat
        /\ apiKey' \subseteq [id : AccountCall, revoked : BOOLEAN]
    BY <1>4, <1>t DEF Tick, AccountsTypeOK
  <2>2. clock' >= clock /\ clock' \in Nat \ {0}
    BY <2>1
  <2>3. QED
    BY <2>1, <2>2, <1>f
<1>5. CASE UNCHANGED accountVars
  <2>1. /\ UNCHANGED <<identities, clock, browser, accountCall, changes, accountPast>>
        /\ apiKey' \subseteq [id : AccountCall, revoked : BOOLEAN]
    BY <1>5, <1>t DEF accountVars, AccountsTypeOK
  <2>2. QED
    BY <2>1, <1>c, <1>f
<1>6. QED
  BY <1>1, <1>2, <1>3, <1>4, <1>5 DEF AccountsNext

(* A session that is not accepted is none any more: its tenant is still the *)
(* address's, so that it was signed out or is before the cutoff, and a new  *)
(* cutoff neither lets it in again nor keeps it.                            *)
LEMMA StepKeepsOut ==
  ASSUME AccountsInv, [AccountsNext]_accountVars
  PROVE  /\ \A t \in browser: ~SessionTokenLive(t) => ~SessionTokenLive(t)'
         /\ \A k \in apiKey: k.revoked => k \in apiKey'
<1> USE DEF identities, accountPast, credentials
<1>t. AccountsTypeOK
  BY DEF AccountsInv
<1>1. signedOut \subseteq signedOut'
  BY DEF AccountsNext, RegisterAccount, Login, ResolveOAuthAccount, CreateOAuthIdentity, Issue, ResetPassword,
         LockIdentity, CommitPassword, SaveApiKey, ChangePassword, CreateApiKey, Logout, RevokeApiKey, Handshake,
         Tick, accountVars
<1>2. cutoff' = cutoff \/ \E c \in AccountCall : CommitPassword(c)
  BY DEF AccountsNext, RegisterAccount, Login, ResolveOAuthAccount, CreateOAuthIdentity, Issue, ResetPassword,
         LockIdentity, SaveApiKey, ChangePassword, CreateApiKey, Logout, RevokeApiKey, Handshake,
         Tick, accountVars
<1>3. ASSUME NEW t \in browser, ~SurvivesCutoff(t) PROVE ~SurvivesCutoff(t)'
  <2>1. CASE cutoff' = cutoff
    BY <1>3, <2>1 DEF SurvivesCutoff
  <2>2. ASSUME NEW c \in AccountCall, CommitPassword(c) PROVE ~SurvivesCutoff(t)'
    <3>1. accountCall[c] \in CallState /\ accountCall[c].pc = "commit" /\ ChangeOf(c)
      BY <2>2, <1>t DEF AccountsInv, AccountsTypeOK, CommitPassword, Doing
    <3>2. cutoff'.at = accountCall[c].tenant /\ cutoff'.kept = accountCall[c].by
      BY <2>2 DEF CommitPassword
    <3>3. t.jti # accountCall[c].by
      <4>1. CASE accountCall[c].op = "change"
        BY <4>1, <1>3, <3>1 DEF ChangeOf, Doing
      <4>2. CASE accountCall[c].op = "reset"
        BY <4>2, <3>1, <1>t, NobodyCalls DEF ChangeOf, AccountsTypeOK
      <4>3. QED
        BY <4>1, <4>2, <3>1 DEF ChangeOf
    <3>4. t.iat \in Nat /\ cutoff.at \in Nat /\ accountCall[c].tenant \in Nat
      BY <3>1, <1>t DEF AccountsTypeOK, CallState
    <3>5. accountCall[c].tenant >= cutoff.at /\ accountCall[c].tenant > 0 /\ ~(t.iat >= cutoff.at)
      BY <1>3, <3>1 DEF ChangeOf, Doing, SurvivesCutoff
    <3>6. accountCall[c].tenant # 0 /\ ~(t.iat >= accountCall[c].tenant)
      BY ONLY <3>4, <3>5
    <3>7. QED
      BY <3>2, <3>3, <3>6 DEF SurvivesCutoff
  <2>3. QED
    BY <1>2, <2>1, <2>2
<1>4. \A t \in browser : t.tenant \in {oauth} \cup {password.tenant: v \in {password.version} \ {0}}
  BY DEF AccountsInv, TokenOf, TenantHeld
<1>5. \A t \in browser: ~SessionTokenLive(t) => ~SessionTokenLive(t)'
  BY <1>1, <1>3, <1>4 DEF SessionTokenLive, SignInIdentityLive
<1>6. ASSUME NEW k \in apiKey, k.revoked PROVE k \in apiKey'
  <2>1. k = [k EXCEPT !.revoked = TRUE]
    BY <1>6, <1>t DEF AccountsTypeOK
  <2>2. QED
    BY <1>6, <2>1 DEF AccountsNext, RegisterAccount, Login, ResolveOAuthAccount, CreateOAuthIdentity, Issue,
         ResetPassword, LockIdentity, CommitPassword, SaveApiKey, ChangePassword, CreateApiKey, Logout, RevokeApiKey,
         Handshake, Tick, accountVars
<1>7. QED
  BY <1>5, <1>6

LEMMA OldPasswordsAreOut == AccountsInv => OldPasswordIsOut
<1> SUFFICES ASSUME AccountsInv, NEW t \in browser, SessionTokenLive(t), t.version \notin {0, password.version}
             PROVE  t.jti \in overtaken \cup {cutoff.kept}
  BY DEF OldPasswordIsOut
<1>1. t.iat \in Nat /\ cutoff.at \in Nat
  BY DEF AccountsInv, AccountsTypeOK
<1>2. t.iat < cutoff.at => ~(t.iat >= cutoff.at)
  BY <1>1
<1>3. QED
  BY <1>2 DEF AccountsInv, TokenOf, SessionTokenLive, SignInIdentityLive, SurvivesCutoff

(* Who is signed in, through every order of any number of sign-ins, changes *)
(* of the password, resets and sign-outs (password-change.ts,               *)
(* session-cutoff.ts, auth.service.ts): a session of a replaced password is *)
(* out unless the change overtook or kept it, one address has one tenant,   *)
(* and what was ended stays ended.                                          *)
THEOREM SignInsAreTrue == AccountsSpec => SignInsHold
<1>1. AccountsInit => AccountsInv
  BY AccountsInitInv
<1>2. AccountsInv /\ [AccountsNext]_accountVars => AccountsInv'
  BY AccountsNextInv
<1>3. AccountsInv => OldPasswordIsOut /\ OneTenantPerAddress
  BY OldPasswordsAreOut DEF AccountsInv
<1>4. AccountsInv /\ [AccountsNext]_accountVars =>
        [/\ \A t \in browser: ~SessionTokenLive(t) => ~SessionTokenLive(t)'
         /\ \A k \in apiKey: k.revoked => k \in apiKey']_accountVars
  BY StepKeepsOut
<1>5. QED
  BY <1>1, <1>2, <1>3, <1>4, PTL DEF AccountsSpec, SignInsHold, EndedStaysEnded

(***************************************************************************)
(* One conversion.                                                         *)
(***************************************************************************)

USE DEF conversionVars, work, callers, trouble

LEMMA ConversionInitInv == ConversionInit => ConversionInv
<1> SUFFICES ASSUME ConversionInit PROVE ConversionInv
  OBVIOUS
<1>1. NoJob \in JobRow /\ NoJob.status = "none" /\ Off \in AtWork /\ Off.pc = "off"
  BY DEF NoJob, JobRow, Off, AtWork
<1>2. \A w \in Worker: convertWorker[w] = Off
  BY DEF ConversionInit
<1>3. queued \in Queued /\ queued.state = "none"
  BY DEF ConversionInit, Queued
<1>4. ConversionTypeOK
  BY <1>1, <1>3 DEF ConversionInit, ConversionTypeOK
<1>5. QED
  BY <1>1, <1>2, <1>3, <1>4
  DEF ConversionInit, ConversionInv, ReadyIsStored, DownloadedWasStored, ReadyWasPut,
      OwnerIsAtIt, ReadyIsOver, NotBeforeTheRequest

(* A worker moves: to a place of the run, with a row it has read.              *)
LEMMA WorkerMoves ==
  ASSUME ConversionTypeOK, NEW w \in Worker, NEW rec \in AtWork,
         convertWorker' = [convertWorker EXCEPT ![w] = rec]
  PROVE  /\ convertWorker' \in [Worker -> AtWork] /\ convertWorker'[w] = rec
         /\ \A o \in Worker \ {w}: convertWorker'[o] = convertWorker[o]
  BY DEF ConversionTypeOK

LEMMA WorkerGoes ==
  ASSUME ConversionTypeOK, NEW w \in Worker, NEW place \in {"off", "read", "mark", "convert", "ready", "fail", "done"},
         convertWorker' = [convertWorker EXCEPT ![w].pc = place]
  PROVE  /\ convertWorker' \in [Worker -> AtWork] /\ convertWorker'[w].pc = place
         /\ \A o \in Worker \ {w}: convertWorker'[o] = convertWorker[o]
  BY DEF ConversionTypeOK, AtWork

LEMMA OffIsAtWork == Off \in AtWork /\ Off.pc = "off"
  BY DEF Off, NoJob, AtWork, JobRow

(* saveJob of the row that was read, with another status.                      *)
LEMMA RowIsSaved ==
  ASSUME ConversionTypeOK, NEW w \in Worker
  PROVE  LET row == convertWorker[w].read
             running == [row EXCEPT !.status = "running"]
             ready == [row EXCEPT !.status = "ready", !.result = TRUE]
             refused == [row EXCEPT !.status = "failed", !.error = TRUE]
         IN  /\ running \in JobRow /\ running.status = "running"
             /\ ready \in JobRow /\ ready.status = "ready" /\ ready.result
             /\ refused \in JobRow /\ refused.status = "failed"
<1>1. convertWorker[w].read \in JobRow
  BY DEF ConversionTypeOK, AtWork
<1>2. QED
  BY <1>1 DEF JobRow

(* The end of a run leaves the worker off, and takes the job only from who owns it. *)
LEMMA ThrowsEffect ==
  ASSUME ConversionTypeOK, NEW w \in Worker, Throws(w)
  PROVE  /\ convertWorker' = [convertWorker EXCEPT ![w] = Off]
         /\ queued' \in Queued
         /\ queued.owner # {w} => queued' = queued
         /\ queued.owner = {w} => queued'.owner = {} /\ queued'.state \in {"waiting", "failed"}
  BY DEF Throws, ConversionTypeOK, Queued

LEMMA HandOnEffect ==
  ASSUME ConversionTypeOK, HandOn
  PROVE  queued' \in Queued /\ queued'.owner = {} /\ queued'.state \in {"waiting", "failed"}
<1>1. queued \in Queued /\ MaxStalls \in Nat
  BY ConversionAssumption DEF ConversionTypeOK
<1>2. CASE queued.stalls < MaxStalls
  <2>1. queued' = [queued EXCEPT !.owner = {}, !.state = "waiting", !.stalls = @ + 1]
    BY <1>2 DEF HandOn
  <2>2. queued' = [state |-> "waiting", tries |-> queued.tries, stalls |-> queued.stalls + 1, owner |-> {}]
    BY <1>1, <2>1 DEF Queued
  <2>3. queued.stalls + 1 \in Nat
    BY <1>1 DEF Queued
  <2>4. QED
    BY <1>1, <2>2, <2>3 DEF Queued
<1>3. CASE ~(queued.stalls < MaxStalls)
  <2>1. queued'.owner = {} /\ queued'.state = "failed" /\ queued' = [queued EXCEPT !.owner = {}, !.state = "failed"]
    BY <1>1, <1>3 DEF HandOn, Queued
  <2>2. QED
    BY <1>1, <2>1 DEF Queued
<1>4. QED
  BY <1>2, <1>3

LEMMA TakeEffect ==
  ASSUME ConversionTypeOK, NEW w \in Worker, TakeConversion(w)
  PROVE  queued' \in Queued /\ queued'.owner = {w} /\ queued'.state = "active"
<1>1. queued \in Queued /\ queued' = [queued EXCEPT !.state = "active", !.tries = @ + 1, !.owner = {w}]
  BY DEF TakeConversion, ConversionTypeOK
<1>2. queued.tries + 1 \in Nat /\ {w} \in SUBSET Worker
  BY <1>1 DEF Queued
<1>3. queued' = [state |-> "active", tries |-> queued.tries + 1, stalls |-> queued.stalls, owner |-> {w}]
  BY <1>1 DEF Queued
<1>4. QED
  BY <1>1, <1>2, <1>3 DEF Queued

LEMMA ConversionTypes ==
  ASSUME ConversionTypeOK, [ConversionNext]_conversionVars
  PROVE  ConversionTypeOK'
<1> USE ConversionAssumption DEF ConversionTypeOK
<1>1. CASE RequestConversion
  BY <1>1 DEF RequestConversion, NoJob, JobRow
<1>2. CASE EnqueueConversion
  BY <1>2 DEF EnqueueConversion, Fails, Queued
<1>3. CASE DeleteConvertible
  BY <1>3 DEF DeleteConvertible
<1>4. CASE PollConversion
  BY <1>4 DEF PollConversion
<1>5. CASE HandOn
  BY <1>5, HandOnEffect DEF HandOn, Silent
<1>6. ASSUME NEW w \in Worker, TakeConversion(w) \/ ConvertStep(w) \/ WorkerDies(w)
      PROVE  ConversionTypeOK'
  <2>1. CASE TakeConversion(w)
    BY <2>1, TakeEffect, WorkerGoes DEF TakeConversion
  <2>2. CASE RunRead(w)
    <3>1. CASE convertible
      <4>1. [pc |-> "mark", read |-> conversion] \in AtWork
        BY DEF AtWork
      <4>2. QED
        BY <2>2, <3>1, <4>1, WorkerMoves DEF RunRead
    <3>2. CASE ~convertible
      BY <2>2, <3>2, ThrowsEffect, WorkerMoves, OffIsAtWork DEF RunRead
    <3>3. QED
      BY <3>1, <3>2
  <2>3. CASE MarkRunning(w)
    BY <2>3, WorkerGoes, RowIsSaved DEF MarkRunning
  <2>4. CASE ConvertAndPut(w)
    BY <2>4, WorkerGoes DEF ConvertAndPut
  <2>5. CASE SaveReady(w)
    BY <2>5, WorkerGoes, RowIsSaved DEF SaveReady
  <2>6. CASE SaveFailed(w)
    BY <2>6, ThrowsEffect, WorkerMoves, OffIsAtWork, RowIsSaved DEF SaveFailed
  <2>7. CASE RunReturns(w)
    BY <2>7, WorkerMoves, OffIsAtWork DEF RunReturns, Queued
  <2>8. CASE WorkerDies(w)
    BY <2>8, WorkerMoves, OffIsAtWork DEF WorkerDies
  <2>9. QED
    BY <1>6, <2>1, <2>2, <2>3, <2>4, <2>5, <2>6, <2>7, <2>8 DEF ConvertStep
<1>7. CASE UNCHANGED conversionVars
  BY <1>7
<1>8. QED
  BY <1>1, <1>2, <1>3, <1>4, <1>5, <1>6, <1>7 DEF ConversionNext

LEMMA ConversionStepInv ==
  ASSUME ConversionInv, [ConversionNext]_conversionVars
  PROVE  ConversionInv' /\ (conversion.status = "ready" /\ conversion'.status # "ready" => takenAway \/ deaths > 0)
<1> DEFINE Parts == /\ ReadyIsStored /\ DownloadedWasStored
                    /\ ReadyWasPut /\ OwnerIsAtIt /\ ReadyIsOver /\ NotBeforeTheRequest
           Stays == conversion.status = "ready" /\ conversion'.status # "ready" => takenAway \/ deaths > 0
<1>t. ConversionTypeOK /\ Parts /\ ConversionTypeOK'
  BY ConversionTypes DEF ConversionInv
<1>n. deaths \in Nat
  BY <1>t DEF ConversionTypeOK
<1> SUFFICES Parts' /\ Stays
  BY <1>t DEF ConversionInv
<1> USE DEF ReadyIsStored, DownloadedWasStored, ReadyWasPut, OwnerIsAtIt, ReadyIsOver, NotBeforeTheRequest
<1>1. CASE RequestConversion
  BY <1>t, <1>1 DEF RequestConversion, NoJob
<1>2. CASE EnqueueConversion
  BY <1>t, <1>2 DEF EnqueueConversion, Fails, ConversionTypeOK, Queued
<1>3. CASE DeleteConvertible
  BY <1>t, <1>3 DEF DeleteConvertible
<1>4. CASE PollConversion
  BY <1>t, <1>4 DEF PollConversion
<1>5. CASE HandOn
  BY <1>t, <1>n, <1>5, HandOnEffect DEF HandOn, Silent
<1>6. ASSUME NEW w \in Worker, TakeConversion(w) \/ ConvertStep(w) \/ WorkerDies(w)
      PROVE  Parts' /\ Stays
  <2>1. CASE TakeConversion(w)
    <3>1. /\ queued'.owner = {w} /\ queued'.state = "active" /\ queued.state = "waiting"
          /\ UNCHANGED <<conversion, callers, bundleStored, failures, trouble>>
      BY <1>t, <2>1, TakeEffect DEF TakeConversion
    <3>2. convertWorker'[w].pc = "read" /\ \A o \in Worker \ {w}: convertWorker'[o] = convertWorker[o]
      BY <1>t, <2>1, WorkerGoes DEF TakeConversion
    <3>3. ~takenAway /\ deaths = 0 => \A o \in Worker \ {w}: convertWorker[o].pc = "off"
      BY <1>t, <3>1
    <3>4. OwnerIsAtIt'
      BY <1>n, <3>1, <3>2, <3>3
    <3>5. QED
      BY <1>t, <1>n, <3>1, <3>2, <3>4
  <2>2. CASE RunRead(w)
    <3>1. CASE convertible
      <4>0. conversion \in JobRow
        BY <1>t DEF ConversionTypeOK
      <4>1. [pc |-> "mark", read |-> conversion] \in AtWork
        BY <4>0 DEF AtWork
      <4>2. convertWorker'[w].pc = "mark" /\ \A o \in Worker \ {w}: convertWorker'[o] = convertWorker[o]
        BY <1>t, <2>2, <3>1, <4>1, WorkerMoves DEF RunRead
      <4>3. QED
        BY <1>t, <1>n, <2>2, <3>1, <4>2 DEF RunRead
    <3>2. CASE ~convertible
      <4>1. Throws(w) /\ convertWorker[w].pc = "read"
        BY <2>2, <3>2 DEF RunRead
      <4>2. convertWorker'[w].pc = "off" /\ \A o \in Worker \ {w}: convertWorker'[o] = convertWorker[o]
        BY <1>t, <4>1, ThrowsEffect, WorkerMoves, OffIsAtWork
      <4>3. QED
        BY <1>t, <1>n, <2>2, <4>1, <4>2, ThrowsEffect DEF RunRead
    <3>3. QED
      BY <3>1, <3>2
  <2>3. CASE MarkRunning(w)
    <3>1. convertWorker[w].pc = "mark" /\ conversion'.status = "running" /\ UNCHANGED <<queued, callers, bundleStored, trouble>>
      BY <1>t, <2>3, RowIsSaved DEF MarkRunning
    <3>2. convertWorker'[w].pc = "convert" /\ \A o \in Worker \ {w}: convertWorker'[o] = convertWorker[o]
      BY <1>t, <2>3, WorkerGoes DEF MarkRunning
    <3>3. QED
      BY <1>t, <1>n, <3>1, <3>2
  <2>4. CASE ConvertAndPut(w)
    <3>1. convertWorker'[w].pc \in {"ready", "fail"} /\ \A o \in Worker \ {w}: convertWorker'[o] = convertWorker[o]
      BY <1>t, <2>4, WorkerGoes DEF ConvertAndPut
    <3>2. convertWorker'[w].pc = "ready" => bundleStored'
      BY <1>t, <2>4, WorkerGoes DEF ConvertAndPut
    <3>3. bundleStored => bundleStored'
      BY <2>4 DEF ConvertAndPut
    <3>4. convertWorker[w].pc = "convert" /\ UNCHANGED <<conversion, queued, callers, trouble>>
      BY <2>4 DEF ConvertAndPut
    <3>5. QED
      BY <1>t, <1>n, <3>1, <3>2, <3>3, <3>4
  <2>5. CASE SaveReady(w)
    <3>1. convertWorker[w].pc = "ready" /\ UNCHANGED <<queued, callers, bundleStored, trouble>> /\ bundleStored
      BY <1>t, <2>5 DEF SaveReady
    <3>2. convertWorker'[w].pc \in {"done", "fail"} /\ \A o \in Worker \ {w}: convertWorker'[o] = convertWorker[o]
      <4>1. \E place \in {"done", "fail"}: convertWorker' = [convertWorker EXCEPT ![w].pc = place]
        BY <2>5 DEF SaveReady
      <4>2. QED
        BY <1>t, <4>1, WorkerGoes
    <3>3. \/ conversion'.status = "ready" /\ conversion'.result /\ convertWorker'[w].pc = "done"
          \/ conversion' = conversion
      <4>1. CASE /\ conversion' = [convertWorker[w].read EXCEPT !.status = "ready", !.result = TRUE]
                 /\ convertWorker' = [convertWorker EXCEPT ![w].pc = "done"]
        <5>1. conversion'.status = "ready" /\ conversion'.result
          BY <1>t, <4>1, RowIsSaved
        <5>2. convertWorker'[w].pc = "done"
          BY <1>t, <4>1, WorkerGoes
        <5>3. QED
          BY <5>1, <5>2
      <4>2. QED
        BY <2>5, <4>1 DEF SaveReady
    <3>4. QED
      BY <1>t, <1>n, <3>1, <3>2, <3>3
  <2>6. CASE SaveFailed(w)
    <3>1. /\ convertWorker[w].pc = "fail" /\ conversion'.status = "failed" /\ Throws(w)
          /\ UNCHANGED <<callers, bundleStored, failures, trouble>>
      BY <1>t, <2>6, RowIsSaved DEF SaveFailed
    <3>2. convertWorker'[w].pc = "off" /\ \A o \in Worker \ {w}: convertWorker'[o] = convertWorker[o]
      BY <1>t, <3>1, ThrowsEffect, WorkerMoves, OffIsAtWork
    <3>3. QED
      BY <1>t, <1>n, <3>1, <3>2, ThrowsEffect
  <2>7. CASE RunReturns(w)
    <3>1. /\ convertWorker[w].pc = "done" /\ UNCHANGED <<conversion, callers, bundleStored, failures, trouble>>
          /\ queued.owner # {w} => queued' = queued
          /\ queued.owner = {w} => queued'.owner = {} /\ queued'.state = "completed"
      BY <1>t, <2>7 DEF RunReturns, ConversionTypeOK, Queued
    <3>2. convertWorker'[w].pc = "off" /\ \A o \in Worker \ {w}: convertWorker'[o] = convertWorker[o]
      BY <1>t, <2>7, WorkerMoves, OffIsAtWork DEF RunReturns
    <3>3. QED
      BY <1>t, <1>n, <3>1, <3>2
  <2>8. CASE WorkerDies(w)
    <3>1. deaths' > 0 /\ convertWorker[w].pc # "off" /\ UNCHANGED <<conversion, queued, callers, bundleStored, takenAway>>
      BY <1>n, <2>8 DEF WorkerDies
    <3>2. convertWorker'[w].pc = "off" /\ \A o \in Worker \ {w}: convertWorker'[o] = convertWorker[o]
      BY <1>t, <2>8, WorkerMoves, OffIsAtWork DEF WorkerDies
    <3>3. QED
      BY <1>t, <1>n, <3>1, <3>2
  <2>9. QED
    BY <1>6, <2>1, <2>2, <2>3, <2>4, <2>5, <2>6, <2>7, <2>8 DEF ConvertStep
<1>7. CASE UNCHANGED conversionVars
  BY <1>t, <1>7
<1>8. QED
  BY <1>1, <1>2, <1>3, <1>4, <1>5, <1>6, <1>7 DEF ConversionNext

(* A conversion that is ready is in storage, a download was there to be taken, *)
(* and ready is the last word unless a worker died or was robbed of the job.   *)
THEOREM ConversionsAreTrue == ConversionSpec => ConversionIsTrue
<1>1. ConversionInit => ConversionInv
  BY ConversionInitInv
<1>2. ConversionInv /\ [ConversionNext]_conversionVars => ConversionInv'
  BY ConversionStepInv
<1>3. ConversionInv /\ [ConversionNext]_conversionVars
        => [conversion.status = "ready" /\ conversion'.status # "ready" => takenAway \/ deaths > 0]_conversionVars
  BY ConversionStepInv
<1>4. ConversionInv => ReadyIsStored /\ DownloadedWasStored
  BY DEF ConversionInv
<1>5. ConversionSpec => ReadyStays
  BY <1>1, <1>2, <1>3, PTL DEF ConversionSpec, ReadyStays
<1>6. QED
  BY <1>1, <1>2, <1>4, <1>5, PTL DEF ConversionSpec, ConversionIsTrue

(***************************************************************************)
(* The rate limits.                                                        *)
(***************************************************************************)

USE DEF rateVars

(* What a set of requests weighs when one more joins it, or one leaves.     *)
LEMMA RequestsWeigh ==
  ASSUME NEW S \in SUBSET Request, NEW T \in SUBSET Request
  PROVE  /\ Cardinality(S) \in Nat /\ Cardinality(T) \in Nat /\ Cardinality(Request) \in Nat
         /\ Cardinality(S) <= Cardinality(Request)
         /\ T \subseteq S => Cardinality(T) <= Cardinality(S)
         /\ \A r : T \subseteq S \cup {r} => Cardinality(T) <= Cardinality(S) + 1
         /\ \A r \in S : T \subseteq S \ {r} => Cardinality(T) + 1 <= Cardinality(S)
<1>1. IsFiniteSet(Request) /\ IsFiniteSet(S) /\ IsFiniteSet(T)
  BY RateAssumption, FS_Subset
<1>2. Cardinality(S) \in Nat /\ Cardinality(T) \in Nat /\ Cardinality(Request) \in Nat
  BY <1>1, FS_CardinalityType
<1>3. Cardinality(S) <= Cardinality(Request)
  BY <1>1, FS_Subset
<1>4. T \subseteq S => Cardinality(T) <= Cardinality(S)
  BY <1>1, FS_Subset
<1>5. ASSUME NEW r, T \subseteq S \cup {r}
      PROVE  Cardinality(T) <= Cardinality(S) + 1
  <2>1. IsFiniteSet(S \cup {r}) /\ Cardinality(S \cup {r}) = IF r \in S THEN Cardinality(S) ELSE Cardinality(S) + 1
    BY <1>1, FS_AddElement
  <2>2. Cardinality(T) <= Cardinality(S \cup {r})
    BY <1>5, <2>1, FS_Subset
  <2>3. QED
    BY <1>2, <2>1, <2>2
<1>6. ASSUME NEW r \in S, T \subseteq S \ {r}
      PROVE  Cardinality(T) + 1 <= Cardinality(S)
  <2>1. IsFiniteSet(S \ {r}) /\ Cardinality(S \ {r}) = Cardinality(S) - 1
    BY <1>1, FS_RemoveElement
  <2>2. Cardinality(T) <= Cardinality(S \ {r})
    BY <1>6, <2>1, FS_Subset
  <2>3. QED
    BY <1>2, <2>1, <2>2
<1>7. QED
  BY <1>2, <1>3, <1>4, <1>5, <1>6

LEMMA RateInitInv == RateInit => RateInv
<1> SUFFICES ASSUME RateInit PROVE RateInv
  OBVIOUS
<1>1. RateTypeOK
  BY DEF RateInit, RateTypeOK, NoAttempt, Key, Handled, Handling
<1>2. Admissible = {} /\ Guessing = {}
  BY DEF RateInit, Admissible, Guessing, NoAttempt
<1>3. Cardinality({}) = 0 /\ Cardinality(Request) \in Nat
  BY RateAssumption, FS_EmptySet, FS_CardinalityType
<1>4. through = 0 /\ counter["flood"].count = 0 /\ counter["failed"].count = 0
  BY DEF RateInit, Key
<1>5. QED
  BY <1>1, <1>2, <1>3, <1>4, RateAssumption DEF RateInv

Elsewhere(r) == \A o \in Request \ {r} : attempt'[o] = attempt[o]

(* What a step does to the attempt of its own request.                      *)
LEMMA MovesEffect ==
  ASSUME RateTypeOK, NEW r \in Request,
         NEW place \in Handled,
         Moves(r, place)
  PROVE  /\ attempt' \in [Request -> Handling]
         /\ attempt'[r].at = place
         /\ place # "idle" => attempt'[r].count = attempt[r].count /\ attempt'[r].late = attempt[r].late
         /\ Elsewhere(r)
<1>1. CASE place = "idle"
  <2>1. NoAttempt \in Handling /\ NoAttempt.at = "idle" /\ attempt' = [attempt EXCEPT ![r] = NoAttempt]
    BY <1>1 DEF Moves, NoAttempt, Handling, Handled
  <2>2. QED
    BY <1>1, <2>1 DEF RateTypeOK, Elsewhere
<1>2. CASE place # "idle"
  <2>1. attempt' = [attempt EXCEPT ![r] = [attempt[r] EXCEPT !.at = place]]
    BY <1>2 DEF Moves
  <2>2. QED
    BY <1>2, <2>1 DEF RateTypeOK, Elsewhere, Handling
<1>3. QED
  BY <1>1, <1>2

LEMMA IncrEffect ==
  ASSUME RateTypeOK, NEW r \in Request, NEW k \in Key, NEW place \in Handled,
         Incr(r, k, place)
  PROVE  /\ attempt' \in [Request -> Handling]
         /\ attempt'[r].at = place /\ attempt'[r].count = counter[k].count + 1 /\ ~attempt'[r].late
         /\ Elsewhere(r)
         /\ counter' \in [Key -> [count: Nat, expires: BOOLEAN]]
         /\ counter'[k].count = counter[k].count + 1
         /\ \A j \in Key \ {k} : counter'[j] = counter[j]
<1>1. counter[k].count + 1 \in Nat
  BY DEF RateTypeOK
<1>2. [at |-> place, count |-> counter[k].count + 1, late |-> FALSE] \in Handling
  BY <1>1 DEF Handling
<1>3. /\ attempt' \in [Request -> Handling] /\ Elsewhere(r)
      /\ attempt'[r] = [at |-> place, count |-> counter[k].count + 1, late |-> FALSE]
  BY <1>2 DEF Incr, RateTypeOK, Elsewhere
<1>4. /\ counter' \in [Key -> [count: Nat, expires: BOOLEAN]]
      /\ counter'[k].count = counter[k].count + 1
      /\ \A j \in Key \ {k} : counter'[j] = counter[j]
  BY <1>1 DEF Incr, RateTypeOK
<1>5. QED
  BY <1>3, <1>4

LEMMA OpenWindowEffect ==
  ASSUME RateTypeOK, NEW r \in Request, NEW k \in Key, NEW place, OpenWindow(r, k, place)
  PROVE  /\ Moves(r, place)
         /\ counter' \in [Key -> [count: Nat, expires: BOOLEAN]]
         /\ \A j \in Key : counter'[j].count = counter[j].count
<1>1. (counter[k].expires \/ attempt[r].count = 1) \in BOOLEAN
  OBVIOUS
<1>2. QED
  BY <1>1 DEF OpenWindow, RateTypeOK

(* Every step keeps the two budgets: what is let through is paid for by a count *)
(* of the open window, what is recorded by a guess in flight.                   *)
LEMMA RateStepInv == ASSUME RateInv, [RateNext]_rateVars PROVE RateInv'
<1> USE DEF Handled
<1>t. /\ RateTypeOK /\ Limit \in Nat /\ Failures \in Nat \ {0}
      /\ Admissible \in SUBSET Request /\ Guessing \in SUBSET Request
      /\ Admissible' \in SUBSET Request /\ Guessing' \in SUBSET Request
      /\ counter["flood"].count \in Nat /\ counter["failed"].count \in Nat /\ through \in Nat
      /\ "flood" \in Key /\ "failed" \in Key
  BY RateAssumption DEF RateInv, RateTypeOK, Key, Admissible, Guessing, Handled
<1>c. /\ Cardinality(Admissible) \in Nat /\ Cardinality(Admissible') \in Nat
      /\ Cardinality(Guessing) \in Nat /\ Cardinality(Guessing') \in Nat /\ Cardinality(Request) \in Nat
  BY <1>t, RequestsWeigh
<1>i. /\ through + Cardinality(Admissible) <= Limit
      /\ through + Cardinality(Admissible) <= counter["flood"].count
      /\ counter["failed"].count + Cardinality(Guessing) <= Failures - 1 + Cardinality(Request)
  BY DEF RateInv
<1>r. ASSUME RateTypeOK',
             through' + Cardinality(Admissible') <= Limit,
             through' + Cardinality(Admissible') <= counter'["flood"].count,
             counter'["failed"].count + Cardinality(Guessing') <= Failures - 1 + Cardinality(Request)
      PROVE  RateInv'
  BY <1>r DEF RateInv
(* A step that lets nobody through, and puts nobody among those to be counted. *)
<1>q. ASSUME RateTypeOK', through' = through, Admissible' \subseteq Admissible, Guessing' \subseteq Guessing,
             counter'["flood"].count = counter["flood"].count, counter'["failed"].count = counter["failed"].count
      PROVE  RateInv'
  <2>1. Cardinality(Admissible') <= Cardinality(Admissible) /\ Cardinality(Guessing') <= Cardinality(Guessing)
    BY <1>t, <1>q, RequestsWeigh
  <2>2. QED
    BY <1>t, <1>c, <1>i, <1>q, <1>r, <2>1
<1>1. ASSUME NEW r \in Request, Hit(r) PROVE RateInv'
  <2>1. Incr(r, "flood", "expire flood") /\ through' = through /\ attempt[r].at = "idle"
    BY <1>1 DEF Hit, IsAt
  <2>2. /\ attempt'[r].at = "expire flood" /\ attempt'[r].count = counter["flood"].count + 1 /\ Elsewhere(r)
        /\ counter'["flood"].count = counter["flood"].count + 1 /\ counter'["failed"] = counter["failed"]
    BY <1>t, <2>1, IncrEffect DEF Key
  <2>3. RateTypeOK'
    BY <1>t, <2>1, IncrEffect DEF RateTypeOK
  <2>4. Guessing' \subseteq Guessing /\ Admissible' \subseteq Admissible \cup {r}
    BY <2>2 DEF Guessing, Admissible, Elsewhere
  <2>5. Cardinality(Guessing') <= Cardinality(Guessing) /\ Cardinality(Admissible') <= Cardinality(Admissible) + 1
    BY <1>t, <2>4, RequestsWeigh
  <2>6. CASE counter["flood"].count + 1 <= Limit
    <3>1. /\ through + Cardinality(Admissible') <= counter["flood"].count + 1
          /\ through + Cardinality(Admissible') <= Limit
          /\ counter["failed"].count + Cardinality(Guessing') <= Failures - 1 + Cardinality(Request)
      BY <1>t, <1>c, <1>i, <2>5, <2>6
    <3>2. QED
      BY <1>r, <2>1, <2>2, <2>3, <3>1
  <2>7. CASE ~(counter["flood"].count + 1 <= Limit)
    <3>1. Admissible' \subseteq Admissible
      BY <2>2, <2>7 DEF Admissible, Elsewhere
    <3>2. Cardinality(Admissible') <= Cardinality(Admissible)
      BY <1>t, <3>1, RequestsWeigh
    <3>3. QED
      <4>1. /\ through + Cardinality(Admissible') <= counter["flood"].count + 1
            /\ through + Cardinality(Admissible') <= Limit
            /\ counter["failed"].count + Cardinality(Guessing') <= Failures - 1 + Cardinality(Request)
        BY <1>t, <1>c, <1>i, <2>5, <3>2
      <4>2. QED
        BY <1>r, <2>1, <2>2, <2>3, <4>1
  <2>8. QED
    BY <2>6, <2>7
<1>2. ASSUME NEW r \in Request, Expire(r) PROVE RateInv'
  <2>1. OpenWindow(r, "flood", "counted") /\ through' = through /\ attempt[r].at = "expire flood"
    BY <1>2 DEF Expire, IsAt
  <2>2. Moves(r, "counted") /\ counter'["flood"].count = counter["flood"].count /\ counter'["failed"].count = counter["failed"].count
    BY <1>t, <2>1, OpenWindowEffect
  <2>3. /\ attempt'[r].at = "counted" /\ attempt'[r].count = attempt[r].count /\ attempt'[r].late = attempt[r].late
        /\ Elsewhere(r)
    BY <1>t, <2>2, MovesEffect
  <2>4. RateTypeOK'
    BY <1>t, <2>1, <2>2, OpenWindowEffect, MovesEffect DEF RateTypeOK
  <2>5. Admissible' \subseteq Admissible /\ Guessing' \subseteq Guessing
    BY <2>1, <2>3 DEF Admissible, Guessing, Elsewhere
  <2>6. QED
    BY <1>q, <2>1, <2>2, <2>4, <2>5
<1>3. ASSUME NEW r \in Request, CanActivate(r) PROVE RateInv'
  <2>1. attempt[r].at = "counted" /\ UNCHANGED counter
    BY <1>3 DEF CanActivate, IsAt
  <2>2. CASE attempt[r].count > Limit
    <3>1. Moves(r, "idle") /\ through' = through
      BY <1>3, <2>2 DEF CanActivate
    <3>2. attempt'[r].at = "idle" /\ Elsewhere(r) /\ RateTypeOK'
      BY <1>t, <2>1, <3>1, MovesEffect DEF RateTypeOK
    <3>3. Admissible' \subseteq Admissible /\ Guessing' \subseteq Guessing
      BY <3>2 DEF Admissible, Guessing, Elsewhere
    <3>4. QED
      BY <1>q, <2>1, <3>1, <3>2, <3>3
  <2>3. CASE ~(attempt[r].count > Limit)
    <3>1. Moves(r, "peek") /\ through' = through + (IF attempt[r].late THEN 0 ELSE 1)
      BY <1>3, <2>3 DEF CanActivate
    <3>2. attempt'[r].at = "peek" /\ Elsewhere(r) /\ RateTypeOK'
      <4>1. through' \in Nat
        BY <1>t, <3>1
      <4>2. QED
        BY <1>t, <2>1, <3>1, <4>1, MovesEffect DEF RateTypeOK
    <3>3. Admissible' \subseteq Admissible \ {r} /\ Guessing' \subseteq Guessing
      BY <3>2 DEF Admissible, Guessing, Elsewhere
    <3>4. CASE attempt[r].late
      BY <1>t, <1>q, <2>1, <3>1, <3>2, <3>3, <3>4
    <3>5. CASE ~attempt[r].late
      <4>1. attempt[r].count \in Nat
        BY <1>t DEF RateTypeOK, Handling
      <4>2. r \in Admissible
        <5>1. attempt[r].count <= Limit
          BY <1>t, <2>3, <4>1
        <5>2. QED
          BY <2>1, <3>5, <5>1 DEF Admissible
      <4>3. Cardinality(Admissible') + 1 <= Cardinality(Admissible) /\ Cardinality(Guessing') <= Cardinality(Guessing)
        BY <1>t, <3>3, <4>2, RequestsWeigh
      <4>4. through' = through + 1
        BY <3>1, <3>5
      <4>5. QED
        BY <1>t, <1>c, <1>i, <1>r, <2>1, <3>2, <4>3, <4>4
    <3>6. QED
      BY <3>4, <3>5
  <2>4. QED
    BY <2>2, <2>3
<1>4. ASSUME NEW r \in Request, Peek(r) PROVE RateInv'
  <2>1. attempt[r].at = "peek" /\ UNCHANGED <<counter, through>>
    BY <1>4 DEF Peek, IsAt
  <2>2. CASE counter["failed"].count >= Failures
    <3>1. Moves(r, "idle")
      BY <1>4, <2>2 DEF Peek
    <3>2. attempt'[r].at = "idle" /\ Elsewhere(r) /\ RateTypeOK'
      BY <1>t, <2>1, <3>1, MovesEffect DEF RateTypeOK
    <3>3. Admissible' \subseteq Admissible /\ Guessing' \subseteq Guessing
      BY <3>2 DEF Admissible, Guessing, Elsewhere
    <3>4. QED
      BY <1>q, <2>1, <3>2, <3>3
  <2>3. CASE ~(counter["failed"].count >= Failures)
    <3>1. Moves(r, "guess")
      BY <1>4, <2>3 DEF Peek
    <3>2. attempt'[r].at = "guess" /\ Elsewhere(r) /\ RateTypeOK'
      BY <1>t, <2>1, <3>1, MovesEffect DEF RateTypeOK
    <3>3. Admissible' \subseteq Admissible
      BY <3>2 DEF Admissible, Elsewhere
    <3>4. Cardinality(Admissible') <= Cardinality(Admissible) /\ Cardinality(Guessing') <= Cardinality(Request)
      BY <1>t, <3>3, RequestsWeigh
    <3>5. QED
      BY <1>t, <1>c, <1>i, <1>r, <2>1, <2>3, <3>2, <3>4
  <2>4. QED
    BY <2>2, <2>3
<1>5. ASSUME NEW r \in Request, Answer(r) PROVE RateInv'
  <2>1. attempt[r].at = "guess" /\ UNCHANGED <<counter, through>>
    BY <1>5 DEF Answer, IsAt
  <2>2. PICK place \in {"idle", "record"} : Moves(r, place)
    BY <1>5 DEF Answer
  <2>3. attempt'[r].at = place /\ Elsewhere(r) /\ RateTypeOK'
    BY <1>t, <2>1, <2>2, MovesEffect DEF RateTypeOK
  <2>4. Admissible' \subseteq Admissible /\ Guessing' \subseteq Guessing
    BY <2>1, <2>2, <2>3 DEF Admissible, Guessing, Elsewhere
  <2>5. QED
    BY <1>q, <2>1, <2>3, <2>4
<1>6. ASSUME NEW r \in Request, RecordFailure(r) PROVE RateInv'
  <2>1. Incr(r, "failed", "expire failed") /\ through' = through /\ attempt[r].at = "record"
    BY <1>6 DEF RecordFailure, IsAt
  <2>2. /\ attempt'[r].at = "expire failed" /\ Elsewhere(r)
        /\ counter'["failed"].count = counter["failed"].count + 1 /\ counter'["flood"] = counter["flood"]
    BY <1>t, <2>1, IncrEffect DEF Key
  <2>3. RateTypeOK'
    BY <1>t, <2>1, IncrEffect DEF RateTypeOK
  <2>4. Guessing' \subseteq Guessing \ {r} /\ r \in Guessing /\ Admissible' \subseteq Admissible
    BY <2>1, <2>2 DEF Guessing, Admissible, Elsewhere
  <2>5. Cardinality(Guessing') + 1 <= Cardinality(Guessing) /\ Cardinality(Admissible') <= Cardinality(Admissible)
    BY <1>t, <2>4, RequestsWeigh
  <2>6. QED
    <3>1. /\ through + Cardinality(Admissible') <= counter["flood"].count
          /\ through + Cardinality(Admissible') <= Limit
          /\ counter["failed"].count + 1 + Cardinality(Guessing') <= Failures - 1 + Cardinality(Request)
      BY <1>t, <1>c, <1>i, <2>5
    <3>2. QED
      BY <1>r, <2>1, <2>2, <2>3, <3>1
<1>7. ASSUME NEW r \in Request, ExpireFailures(r) PROVE RateInv'
  <2>1. OpenWindow(r, "failed", "idle") /\ through' = through
    BY <1>7 DEF ExpireFailures
  <2>2. Moves(r, "idle") /\ counter'["flood"].count = counter["flood"].count /\ counter'["failed"].count = counter["failed"].count
    BY <1>t, <2>1, OpenWindowEffect
  <2>3. attempt'[r].at = "idle" /\ Elsewhere(r)
    BY <1>t, <2>2, MovesEffect
  <2>4. RateTypeOK'
    BY <1>t, <2>1, <2>2, OpenWindowEffect, MovesEffect DEF RateTypeOK
  <2>5. Admissible' \subseteq Admissible /\ Guessing' \subseteq Guessing
    BY <2>3 DEF Admissible, Guessing, Elsewhere
  <2>6. QED
    BY <1>q, <2>1, <2>2, <2>4, <2>5
<1>8. ASSUME NEW r \in Request, Die(r) PROVE RateInv'
  <2>1. Moves(r, "idle") /\ UNCHANGED <<counter, through>>
    BY <1>8 DEF Die
  <2>2. attempt'[r].at = "idle" /\ Elsewhere(r) /\ RateTypeOK'
    BY <1>t, <2>1, MovesEffect DEF RateTypeOK
  <2>3. Admissible' \subseteq Admissible /\ Guessing' \subseteq Guessing
    BY <2>2 DEF Admissible, Guessing, Elsewhere
  <2>4. QED
    BY <1>q, <2>1, <2>2, <2>3
<1>9. ASSUME NEW k \in Key, Lapse(k) PROVE RateInv'
  <2>1. counter'[k].count = 0 /\ \A j \in Key \ {k} : counter'[j] = counter[j]
    BY <1>t, <1>9 DEF Lapse, RateTypeOK
  <2>2. counter' \in [Key -> [count: Nat, expires: BOOLEAN]]
    BY <1>t, <1>9 DEF Lapse, RateTypeOK
  <2>3. CASE k = "flood"
    <3>1. through' = 0 /\ attempt' = [r \in Request |-> [attempt[r] EXCEPT !.late = attempt[r].at # "idle"]]
      BY <1>9, <2>3 DEF Lapse, IsAt
    <3>2. \A r \in Request : attempt'[r].at = attempt[r].at /\ attempt'[r].late = (attempt[r].at # "idle")
      BY <1>t, <3>1 DEF RateTypeOK, Handling
    <3>3. RateTypeOK'
      <4>1. \A r \in Request : [attempt[r] EXCEPT !.late = attempt[r].at # "idle"] \in Handling
        BY <1>t DEF RateTypeOK, Handling
      <4>2. QED
        BY <2>2, <3>1, <4>1 DEF RateTypeOK
    <3>4. Admissible' = {} /\ Guessing' = Guessing
      BY <3>2 DEF Admissible, Guessing
    <3>5. Cardinality({}) = 0
      BY FS_EmptySet
    <3>6. counter'["failed"] = counter["failed"] /\ counter'["flood"].count = 0
      BY <1>t, <2>1, <2>3
    <3>7. QED
      BY <1>t, <1>c, <1>i, <1>r, <3>1, <3>3, <3>4, <3>5, <3>6
  <2>4. CASE k = "failed"
    <3>1. UNCHANGED <<through, attempt>>
      BY <1>9, <2>4 DEF Lapse
    <3>2. RateTypeOK' /\ Admissible' = Admissible /\ Guessing' = Guessing
      BY <1>t, <2>2, <3>1 DEF RateTypeOK, Admissible, Guessing
    <3>3. counter'["flood"] = counter["flood"] /\ counter'["failed"].count = 0
      BY <1>t, <2>1, <2>4
    <3>4. Cardinality(Guessing) <= Cardinality(Request)
      BY <1>t, RequestsWeigh
    <3>5. QED
      BY <1>t, <1>c, <1>i, <1>r, <3>1, <3>2, <3>3, <3>4
  <2>5. QED
    BY <2>3, <2>4 DEF Key
<1>10. CASE UNCHANGED rateVars
  <2>1. RateTypeOK' /\ Admissible' = Admissible /\ Guessing' = Guessing
    BY <1>t, <1>10 DEF RateTypeOK, Admissible, Guessing
  <2>2. QED
    BY <1>q, <1>10, <2>1
<1>11. QED
  BY <1>1, <1>2, <1>3, <1>4, <1>5, <1>6, <1>7, <1>8, <1>9, <1>10 DEF RateNext, Handle

(* One window lets through no more than its limit however many requests race, *)
(* and an account takes no more wrong guesses than its budget and one for each *)
(* other request that can be in flight.                                        *)
THEOREM BudgetsAreKept == RateSpec => []RatesAreKept
<1>1. RateInit => RateInv
  BY RateInitInv
<1>2. RateInv /\ [RateNext]_rateVars => RateInv'
  BY RateStepInv
<1>3. RateInv => RatesAreKept
  <2> SUFFICES ASSUME RateInv PROVE RatesAreKept
    OBVIOUS
  <2>1. /\ Admissible \in SUBSET Request /\ Guessing \in SUBSET Request /\ Limit \in Nat /\ Failures \in Nat
        /\ through \in Nat /\ counter["failed"].count \in Nat
    BY RateAssumption DEF Admissible, Guessing, RateInv, RateTypeOK, Key
  <2>2. Cardinality(Admissible) \in Nat /\ Cardinality(Guessing) \in Nat /\ Cardinality(Request) \in Nat
    BY <2>1, RequestsWeigh
  <2>3. QED
    BY <2>1, <2>2 DEF RateInv, RatesAreKept, WindowHolds, GuessesAreBounded
<1>4. QED
  BY <1>1, <1>2, <1>3, PTL DEF RateSpec

(***************************************************************************)
(* The distillation budget.                                                *)
(***************************************************************************)

USE DEF distilVars

(* What the runs under way hold, when one more reserves and when one is over. *)
LEMMA RunsHold ==
  ASSUME NEW S \in SUBSET Distil
  PROVE  /\ Cardinality(S) \in Nat /\ Estimate * Cardinality(S) \in Nat
         /\ \A r \in Distil \ S : Estimate * Cardinality(S \cup {r}) = Estimate * Cardinality(S) + Estimate
         /\ \A r \in S : /\ Estimate * Cardinality(S) = Estimate * Cardinality(S \ {r}) + Estimate
                         /\ Estimate * Cardinality(S \ {r}) \in Nat
         /\ S = {} => Estimate * Cardinality(S) = 0
         /\ \A r \in Distil : S = {r} => Estimate * Cardinality(S) = Estimate
<1>1. IsFiniteSet(S) /\ Estimate \in Nat
  BY DistilAssumption, FS_Subset
<1>2. Cardinality(S) \in Nat
  BY <1>1, FS_CardinalityType
<1>3. \A n \in Nat : Estimate * n \in Nat /\ Estimate * (n + 1) = Estimate * n + Estimate
  BY <1>1
<1>4. ASSUME NEW r \in Distil \ S
      PROVE  Estimate * Cardinality(S \cup {r}) = Estimate * Cardinality(S) + Estimate
  <2>1. Cardinality(S \cup {r}) = Cardinality(S) + 1
    BY <1>1, FS_AddElement
  <2>2. QED
    BY <1>2, <1>3, <2>1
<1>5. ASSUME NEW r \in S
      PROVE  /\ Estimate * Cardinality(S) = Estimate * Cardinality(S \ {r}) + Estimate
             /\ Estimate * Cardinality(S \ {r}) \in Nat
  <2>1. IsFiniteSet(S \ {r}) /\ Cardinality(S \ {r}) = Cardinality(S) - 1
    BY <1>1, FS_RemoveElement
  <2>2. Cardinality(S \ {r}) \in Nat
    BY <2>1, FS_CardinalityType
  <2>3. Cardinality(S) = Cardinality(S \ {r}) + 1
    BY <1>2, <2>1, <2>2
  <2>4. QED
    BY <1>3, <2>2, <2>3
<1>6. S = {} => Estimate * Cardinality(S) = 0
  BY <1>1, FS_EmptySet
<1>7. ASSUME NEW r \in Distil, S = {r} PROVE Estimate * Cardinality(S) = Estimate
  BY <1>1, <1>7, FS_Singleton
<1>8. QED
  BY <1>2, <1>3, <1>4, <1>5, <1>6, <1>7

LEMMA DistilInitInv == DistilInit => DistilInv
<1> SUFFICES ASSUME DistilInit PROVE DistilInv
  OBVIOUS
<1>1. settings \in SettingsRow /\ settings.spent = 0 /\ settings.window = 0
  BY DEF DistilInit, SettingsRow
<1>2. distilling \in [Distil -> RunRow] /\ \A r \in Distil : distilling[r].at = "idle" /\ distilling[r].window = 0
  BY DEF DistilInit, RunRow
<1>3. /\ edit.read = settings /\ edit \in [open: BOOLEAN, read: SettingsRow] /\ paid = 0 /\ lost = 0
      /\ disturbed = FALSE /\ count.windows = 0 /\ count \in [edits: Nat, months: Nat, breaks: Nat, windows: Nat]
  BY <1>1 DEF DistilInit
<1>4. InFlight = {}
  BY <1>2 DEF InFlight
<1>5. SpendIsAccounted
  BY <1>1, <1>3, <1>4, RunsHold DEF SpendIsAccounted
<1>6. DistilTypeOK
  BY <1>1, <1>2, <1>3 DEF DistilTypeOK
<1>7. WindowsAreOpened
  BY <1>1, <1>2, <1>3 DEF WindowsAreOpened
<1>8. QED
  BY <1>5, <1>6, <1>7 DEF DistilInv

LEMMA CallsReserved ==
  ASSUME NEW c \in RunRow, NEW w \in Nat
  PROVE  [c EXCEPT !.at = "save", !.window = w] \in RunRow
  BY DEF RunRow

LEMMA CallsAnswered ==
  ASSUME NEW c \in RunRow, NEW k \in Nat
  PROVE  [c EXCEPT !.at = "settle", !.cost = k] \in RunRow
  BY DEF RunRow

LEMMA CallsReservedFields ==
  ASSUME NEW c \in RunRow, NEW w \in Nat
  PROVE  [c EXCEPT !.at = "save", !.window = w].window = w /\ [c EXCEPT !.at = "save", !.window = w].at = "save"
  BY DEF RunRow

LEMMA CallsAnsweredFields ==
  ASSUME NEW c \in RunRow, NEW k \in Nat
  PROVE  [c EXCEPT !.at = "settle", !.cost = k].window = c.window /\ [c EXCEPT !.at = "settle", !.cost = k].at = "settle"
  BY DEF RunRow

Others(r) == \A o \in Distil \ {r} : distilling'[o] = distilling[o]

LEMMA StepsEffect ==
  ASSUME DistilTypeOK, NEW r \in Distil,
         NEW place \in {"idle", "reserve", "save", "distil", "settle", "refund", "fail", "notes", "finish", "over", "broken"},
         Steps(r, place)
  PROVE  /\ distilling' \in [Distil -> RunRow] /\ Others(r)
         /\ distilling'[r].at = place /\ distilling'[r].window = distilling[r].window
  BY DEF DistilTypeOK, Steps, RunRow, Others

(* A run that stays where it holds its estimate, or stays where it holds none. *)
LEMMA HoldsAsBefore ==
  ASSUME NEW r \in Distil, Others(r), distilling'[r].window = distilling[r].window, settings'.window = settings.window,
         distilling[r].at \in {"save", "distil", "settle", "refund"} <=> distilling'[r].at \in {"save", "distil", "settle", "refund"}
  PROVE  InFlight' = InFlight
  BY DEF InFlight, Others

(* One that no longer holds it. *)
LEMMA LetsGo ==
  ASSUME NEW r \in Distil, Others(r), settings'.window = settings.window,
         distilling'[r].at \notin {"save", "distil", "settle", "refund"}
  PROVE  InFlight' = InFlight \ {r}
  BY DEF InFlight, Others

LEMMA OpenedRow ==
  ASSUME DistilTypeOK, WindowsAreOpened
  PROVE  /\ Opened \in SettingsRow
         /\ settings.over => Opened.spent = 0 /\ Opened.window = count.windows + 1
         /\ ~settings.over => Opened = settings
<1>1. settings \in SettingsRow /\ count.windows + 1 \in Nat
  BY DEF DistilTypeOK
<1>2. CASE settings.over
  <2>1. Opened = [settings EXCEPT !.spent = 0, !.over = FALSE, !.window = count.windows + 1]
    BY <1>2 DEF Opened
  <2>2. Opened = [enabled |-> settings.enabled, budget |-> settings.budget, spent |-> 0, over |-> FALSE,
                  window |-> count.windows + 1]
    BY <1>1, <2>1 DEF SettingsRow
  <2>3. QED
    BY <1>1, <1>2, <2>2 DEF SettingsRow
<1>3. CASE ~settings.over
  BY <1>1, <1>3 DEF Opened
<1>4. QED
  BY <1>2, <1>3

LEMMA ChargedRow ==
  ASSUME NEW row \in SettingsRow
  PROVE  /\ Charged(row) \in SettingsRow
         /\ Charged(row).spent = row.spent + Estimate /\ Charged(row).window = row.window
<1>1. row.spent + Estimate \in Nat
  BY DistilAssumption DEF SettingsRow
<1>2. Charged(row) = [enabled |-> row.enabled, budget |-> row.budget, spent |-> row.spent + Estimate, over |-> row.over,
                      window |-> row.window]
  BY DEF Charged, SettingsRow
<1>3. QED
  BY <1>1, <1>2 DEF SettingsRow

(* The counter moves with a reservation: in a window that is over, from zero. *)
LEMMA ReserveInv == ASSUME DistilInv, NEW r \in Distil, Reserve(r) PROVE DistilInv'
<1>t. /\ DistilTypeOK /\ WindowsAreOpened /\ settings \in SettingsRow /\ Estimate \in Nat
      /\ distilling \in [Distil -> RunRow] /\ distilling[r].at = "reserve" /\ count.windows \in Nat
      /\ paid \in Nat /\ lost \in Nat /\ settings.spent \in Nat
      /\ UNCHANGED edit
  BY DistilAssumption DEF DistilInv, DistilTypeOK, Reserve, Stands, SettingsRow
<1>1. /\ distilling' \in [Distil -> RunRow] /\ Others(r)
      /\ \/ /\ settings' = Charged(Opened) /\ distilling'[r].at = "save" /\ distilling'[r].window = Opened.window
         \/ /\ settings' = Opened /\ distilling'[r].at = "over" /\ distilling'[r].window = distilling[r].window
  <2>1. CASE Affordable(Opened)
    <3>1. /\ settings' = Charged(Opened)
          /\ distilling' = [distilling EXCEPT ![r] = [distilling[r] EXCEPT !.at = "save", !.window = Opened.window]]
      BY <2>1 DEF Reserve
    <3>2. Opened.window \in Nat
      BY <1>t, OpenedRow DEF SettingsRow
    <3> DEFINE c == [distilling[r] EXCEPT !.at = "save", !.window = Opened.window]
    <3>3. c \in RunRow /\ c.window = Opened.window /\ c.at = "save"
      BY <1>t, <3>2, CallsReserved, CallsReservedFields
    <3> HIDE DEF c
    <3>4. distilling' = [distilling EXCEPT ![r] = c]
      BY <3>1 DEF c
    <3>5. QED
      BY <1>t, <3>1, <3>3, <3>4 DEF Others
  <2>2. CASE ~Affordable(Opened)
    <3>1. settings' = Opened /\ Steps(r, "over")
      BY <2>2 DEF Reserve
    <3>2. QED
      BY <1>t, <3>1, StepsEffect
  <2>3. QED
    BY <2>1, <2>2
<1>2. settings' \in SettingsRow /\ settings'.window = Opened.window
  BY <1>t, <1>1, OpenedRow, ChargedRow
<1>3. CASE settings.over
  <2>1. /\ Opened.spent = 0 /\ Opened.window = count.windows + 1 /\ Opened \in SettingsRow
    BY <1>t, <1>3, OpenedRow
  <2>2. paid' = 0 /\ lost' = 0 /\ disturbed' = FALSE /\ count' = [count EXCEPT !.windows = @ + 1]
    BY <1>3 DEF Reserve
  <2>3. count'.windows = count.windows + 1 /\ count' \in [edits: Nat, months: Nat, breaks: Nat, windows: Nat]
    BY <1>t, <2>2 DEF DistilTypeOK
  <2>4. DistilTypeOK'
    BY <1>t, <1>1, <1>2, <2>2, <2>3 DEF DistilTypeOK
  <2>5. \A o \in Distil : distilling[o].window \in Nat /\ distilling[o].window <= count.windows
    BY <1>t DEF WindowsAreOpened, RunRow
  <2>6. WindowsAreOpened'
    <3>1. settings.window \in Nat /\ edit.read.window \in Nat
      BY <1>t DEF DistilTypeOK, SettingsRow
    <3>2. settings'.window <= count'.windows /\ edit'.read.window <= count'.windows
      BY <1>t, <1>2, <2>1, <2>3, <3>1 DEF WindowsAreOpened
    <3>3. \A o \in Distil : distilling'[o].window <= count'.windows
      BY <1>t, <1>1, <2>1, <2>3, <2>5 DEF Others
    <3>4. QED
      BY <3>2, <3>3 DEF WindowsAreOpened
  <2>7. \A o \in Distil : distilling[o].window # settings'.window
    BY <1>t, <1>2, <2>1, <2>5
  <2>8. SpendIsAccounted'
    <3>1. CASE settings' = Charged(Opened) /\ distilling'[r].at = "save" /\ distilling'[r].window = Opened.window
      <4>1. InFlight' = {r}
        BY <1>1, <1>2, <2>7, <3>1 DEF InFlight, Others
      <4>2. settings'.spent = 0 + Estimate
        BY <2>1, <3>1, ChargedRow
      <4>3. Estimate * Cardinality(InFlight') = Estimate
        BY <4>1, RunsHold
      <4>4. QED
        BY <1>t, <2>2, <4>2, <4>3 DEF SpendIsAccounted
    <3>2. CASE settings' = Opened /\ distilling'[r].at = "over"
      <4>1. InFlight' = {}
        BY <1>1, <2>7, <3>2 DEF InFlight, Others
      <4>2. Estimate * Cardinality(InFlight') = 0
        BY <4>1, RunsHold
      <4>3. QED
        BY <2>1, <2>2, <3>2, <4>2 DEF SpendIsAccounted
    <3>3. QED
      BY <1>1, <3>1, <3>2
  <2>9. QED
    BY <2>4, <2>6, <2>8 DEF DistilInv
<1>4. CASE ~settings.over
  <2>1. Opened = settings /\ UNCHANGED <<paid, lost, disturbed, count>>
    BY <1>t, <1>4, OpenedRow DEF Reserve
  <2>2. DistilTypeOK'
    BY <1>t, <1>1, <1>2, <2>1 DEF DistilTypeOK
  <2>3. WindowsAreOpened'
    BY <1>t, <1>1, <1>2, <2>1 DEF WindowsAreOpened, Others
  <2>4. SpendIsAccounted => SpendIsAccounted'
    <3>1. r \notin InFlight /\ InFlight \in SUBSET Distil
      BY <1>t DEF InFlight
    <3>2. CASE settings' = Charged(settings) /\ distilling'[r].at = "save" /\ distilling'[r].window = settings.window
      <4>1. InFlight' = InFlight \cup {r}
        BY <1>1, <1>2, <2>1, <3>2 DEF InFlight, Others
      <4>2. settings'.spent = settings.spent + Estimate
        BY <1>t, <3>2, ChargedRow
      <4>3. /\ Estimate * Cardinality(InFlight \cup {r}) = Estimate * Cardinality(InFlight) + Estimate
            /\ Estimate * Cardinality(InFlight) \in Nat
        BY <3>1, RunsHold
      <4>4. QED
        BY <1>t, <2>1, <4>1, <4>2, <4>3 DEF SpendIsAccounted
    <3>3. CASE settings' = settings /\ distilling'[r].at = "over" /\ distilling'[r].window = distilling[r].window
      <4>1. InFlight' = InFlight
        BY <1>t, <1>1, <3>3, HoldsAsBefore
      <4>2. QED
        BY <2>1, <3>3, <4>1 DEF SpendIsAccounted
    <3>4. QED
      BY <1>1, <2>1, <3>2, <3>3
  <2>5. QED
    BY <2>1, <2>2, <2>3, <2>4 DEF DistilInv
<1>5. QED
  BY <1>3, <1>4

(* Settling gives back the estimate and takes what the run cost; a run of      *)
(* another window disturbs the counter of this one.                            *)
LEMMA SettleInv ==
  ASSUME DistilInv, NEW r \in Distil, NEW c \in Nat, NEW place \in {"notes", "fail"},
         distilling[r].at \in {"settle", "refund"}, SettleAt(r, c, place)
  PROVE  DistilInv'
<1>t. /\ DistilTypeOK /\ WindowsAreOpened /\ settings \in SettingsRow /\ Estimate \in Nat
      /\ distilling \in [Distil -> RunRow] /\ settings.spent \in Nat /\ paid \in Nat /\ lost \in Nat
      /\ UNCHANGED <<edit, lost, count>>
  BY DistilAssumption DEF DistilInv, DistilTypeOK, SettleAt, SettingsRow
<1>1. /\ distilling' \in [Distil -> RunRow] /\ Others(r) /\ distilling'[r].at = place /\ distilling'[r].window = distilling[r].window
  BY <1>t, StepsEffect DEF SettleAt
<1>2. /\ settings' \in SettingsRow /\ settings'.window = settings.window
      /\ settings.spent + c >= Estimate => settings'.spent = settings.spent + c - Estimate
  <2> DEFINE spent == IF settings.spent + c < Estimate THEN 0 ELSE settings.spent + c - Estimate
  <2>1. spent \in Nat
    BY <1>t
  <2>2. settings' = [settings EXCEPT !.spent = spent]
    BY DEF SettleAt
  <2>3. settings' = [enabled |-> settings.enabled, budget |-> settings.budget, spent |-> spent, over |-> settings.over,
                     window |-> settings.window]
    BY <1>t, <2>2 DEF SettingsRow
  <2>4. settings.spent + c >= Estimate => spent = settings.spent + c - Estimate
    BY <1>t
  <2> HIDE DEF spent
  <2>5. QED
    BY <1>t, <2>1, <2>3, <2>4 DEF SettingsRow
<1>3. WindowsAreOpened'
  BY <1>t, <1>1, <1>2 DEF WindowsAreOpened, Others
<1>4. InFlight' = InFlight \ {r} /\ InFlight \in SUBSET Distil
  BY <1>1, <1>2, LetsGo DEF InFlight
<1>5. CASE distilling[r].window = settings.window
  <2>1. paid' = paid + c /\ UNCHANGED disturbed
    BY <1>5 DEF SettleAt
  <2>2. DistilTypeOK'
    BY <1>t, <1>1, <1>2, <2>1 DEF DistilTypeOK
  <2>3. r \in InFlight
    BY <1>5 DEF InFlight
  <2>4. /\ Estimate * Cardinality(InFlight) = Estimate * Cardinality(InFlight \ {r}) + Estimate
        /\ Estimate * Cardinality(InFlight \ {r}) \in Nat
    BY <1>4, <2>3, RunsHold
  <2>5. SpendIsAccounted => SpendIsAccounted'
    <3> SUFFICES ASSUME SpendIsAccounted PROVE SpendIsAccounted'
      OBVIOUS
    <3>1. settings.spent = paid + lost + Estimate * Cardinality(InFlight \ {r}) + Estimate
      BY <1>t, <2>4 DEF SpendIsAccounted
    <3>2. settings'.spent = settings.spent + c - Estimate
      BY <1>t, <1>2, <2>4, <3>1
    <3>3. QED
      BY <1>t, <1>4, <2>1, <2>4, <3>1, <3>2 DEF SpendIsAccounted
  <2>6. QED
    BY <1>3, <2>1, <2>2, <2>5 DEF DistilInv
<1>6. CASE distilling[r].window # settings.window
  <2>1. disturbed' = TRUE /\ UNCHANGED paid
    BY <1>6 DEF SettleAt
  <2>2. DistilTypeOK'
    BY <1>t, <1>1, <1>2, <2>1 DEF DistilTypeOK
  <2>3. QED
    BY <1>3, <2>1, <2>2 DEF DistilInv
<1>7. QED
  BY <1>5, <1>6

(* A run that breaks off leaves its estimate to the window it was of.          *)
LEMMA BreakOffInv == ASSUME DistilInv, NEW r \in Distil, BreakOff(r) PROVE DistilInv'
<1>t. /\ DistilTypeOK /\ WindowsAreOpened /\ Estimate \in Nat /\ settings.spent \in Nat /\ paid \in Nat /\ lost \in Nat
      /\ UNCHANGED <<settings, edit, paid, disturbed>>
  BY DistilAssumption DEF DistilInv, DistilTypeOK, BreakOff, SettingsRow
<1>1. /\ distilling' \in [Distil -> RunRow] /\ Others(r) /\ distilling'[r].at = "broken" /\ distilling'[r].window = distilling[r].window
  BY <1>t, StepsEffect DEF BreakOff
<1>2. count'.windows = count.windows /\ count' \in [edits: Nat, months: Nat, breaks: Nat, windows: Nat]
  BY <1>t DEF BreakOff, DistilTypeOK
<1>3. WindowsAreOpened'
  BY <1>t, <1>1, <1>2 DEF WindowsAreOpened, Others
<1>4. InFlight' = InFlight \ {r} /\ InFlight \in SUBSET Distil
  BY <1>t, <1>1, LetsGo DEF InFlight
<1>5. lost' = lost + (IF r \in InFlight THEN Estimate ELSE 0)
  BY DEF BreakOff
<1>6. DistilTypeOK'
  BY <1>t, <1>1, <1>2, <1>5 DEF DistilTypeOK
<1>7. CASE r \in InFlight
  <2>1. /\ Estimate * Cardinality(InFlight) = Estimate * Cardinality(InFlight \ {r}) + Estimate
        /\ Estimate * Cardinality(InFlight \ {r}) \in Nat
    BY <1>4, <1>7, RunsHold
  <2>2. SpendIsAccounted => SpendIsAccounted'
    BY <1>t, <1>4, <1>5, <1>7, <2>1 DEF SpendIsAccounted
  <2>3. QED
    BY <1>t, <1>3, <1>6, <2>2 DEF DistilInv
<1>8. CASE r \notin InFlight
  <2>1. InFlight' = InFlight /\ lost' = lost
    BY <1>t, <1>4, <1>5, <1>8
  <2>2. SpendIsAccounted => SpendIsAccounted'
    BY <1>t, <2>1 DEF SpendIsAccounted
  <2>3. QED
    BY <1>t, <1>3, <1>6, <2>2 DEF DistilInv
<1>9. QED
  BY <1>7, <1>8

(* The row an edit saves is the row it read: that is the counter as it stands, *)
(* or the counter is disturbed.                                                *)
LEMMA SaveSettingsInv == ASSUME DistilInv, SaveSettings PROVE DistilInv'
<1>t. /\ DistilTypeOK /\ WindowsAreOpened /\ edit.read \in SettingsRow /\ settings \in SettingsRow
      /\ UNCHANGED <<distilling, paid, lost, count>>
  BY DEF DistilInv, DistilTypeOK, SaveSettings
<1>1. PICK enabled \in BOOLEAN, budget \in Budget : settings' = [edit.read EXCEPT !.enabled = enabled, !.budget = budget]
  BY DEF SaveSettings
<1>2. settings' = [enabled |-> enabled, budget |-> budget, spent |-> edit.read.spent, over |-> edit.read.over,
                   window |-> edit.read.window]
  BY <1>t, <1>1 DEF SettingsRow
<1>3. settings' \in SettingsRow /\ settings'.spent = edit.read.spent /\ settings'.window = edit.read.window
  BY <1>t, <1>2 DEF SettingsRow
<1>4. edit' = [edit EXCEPT !.open = FALSE]
  BY DEF SaveSettings
<1>5. edit' \in [open: BOOLEAN, read: SettingsRow] /\ edit'.read = edit.read
  BY <1>t, <1>4 DEF DistilTypeOK
<1>6. disturbed' = (disturbed \/ edit.read.spent # settings.spent \/ edit.read.window # settings.window)
  BY DEF SaveSettings
<1>7. DistilTypeOK'
  BY <1>t, <1>3, <1>5, <1>6 DEF DistilTypeOK
<1>8. WindowsAreOpened'
  BY <1>t, <1>3, <1>5 DEF WindowsAreOpened
<1>9. ~disturbed' => ~disturbed /\ settings'.spent = settings.spent /\ settings'.window = settings.window
  BY <1>3, <1>6
<1>10. settings'.window = settings.window => InFlight' = InFlight
  BY <1>t DEF InFlight
<1>11. disturbed' \/ SpendIsAccounted'
  BY <1>t, <1>9, <1>10 DEF SpendIsAccounted, DistilInv
<1>12. QED
  BY <1>7, <1>8, <1>11 DEF DistilInv

LEMMA MonthTurnsInv == ASSUME DistilInv, MonthTurns PROVE DistilInv'
<1>t. /\ DistilTypeOK /\ WindowsAreOpened /\ edit.read \in SettingsRow /\ settings \in SettingsRow
      /\ UNCHANGED <<distilling, paid, lost, disturbed>>
  BY DEF DistilInv, DistilTypeOK, MonthTurns
<1>1. settings' = [settings EXCEPT !.over = TRUE] /\ edit' = [edit EXCEPT !.read.over = TRUE]
  BY DEF MonthTurns
<1>2. settings' \in SettingsRow /\ settings'.spent = settings.spent /\ settings'.window = settings.window
  BY <1>t, <1>1 DEF SettingsRow
<1>3. edit' = [edit EXCEPT !.read = [edit.read EXCEPT !.over = TRUE]]
  BY <1>1
<1>4. [edit.read EXCEPT !.over = TRUE] \in SettingsRow /\ [edit.read EXCEPT !.over = TRUE].window = edit.read.window
  BY <1>t DEF SettingsRow
<1>5. edit' \in [open: BOOLEAN, read: SettingsRow] /\ edit'.read.window = edit.read.window
  BY <1>t, <1>3, <1>4 DEF DistilTypeOK
<1>6. count' \in [edits: Nat, months: Nat, breaks: Nat, windows: Nat] /\ count'.windows = count.windows
  BY <1>t DEF MonthTurns, DistilTypeOK
<1>7. InFlight' = InFlight
  BY <1>t, <1>2 DEF InFlight
<1>8. QED
  BY <1>t, <1>2, <1>5, <1>6, <1>7 DEF DistilInv, DistilTypeOK, WindowsAreOpened, SpendIsAccounted

(* A run that only goes on.                                                    *)
LEMMA GoesOnInv ==
  ASSUME DistilInv, NEW r \in Distil, distilling' \in [Distil -> RunRow], Others(r), distilling'[r].window = distilling[r].window,
         distilling[r].at \in {"save", "distil", "settle", "refund"} <=> distilling'[r].at \in {"save", "distil", "settle", "refund"},
         UNCHANGED <<settings, edit, paid, lost, disturbed, count>>
  PROVE  DistilInv'
<1>1. InFlight' = InFlight
  BY HoldsAsBefore
<1>2. DistilTypeOK' /\ WindowsAreOpened'
  BY DEF DistilInv, DistilTypeOK, WindowsAreOpened, Others
<1>3. QED
  BY <1>1, <1>2 DEF DistilInv, SpendIsAccounted

LEMMA DistilStepInv == ASSUME DistilInv, [DistilNext]_distilVars PROVE DistilInv'
<1>t. DistilTypeOK
  BY DEF DistilInv
<1>1. ASSUME NEW r \in Distil, Ask(r) PROVE DistilInv'
  BY <1>t, <1>1, StepsEffect, GoesOnInv DEF Ask, Stands
<1>2. ASSUME NEW r \in Distil, Proceed(r) PROVE DistilInv'
  <2>1. CASE Reserve(r)
    BY <2>1, ReserveInv
  <2>2. CASE SaveRunning(r)
    BY <1>t, <2>2, StepsEffect, GoesOnInv DEF SaveRunning, Stands
  <2>3. CASE Answers(r)
    <3>1. distilling[r].at = "distil" /\ UNCHANGED <<settings, edit, paid, lost, disturbed, count>>
      BY <2>3 DEF Answers, Stands
    <3>2. CASE Steps(r, "refund")
      BY <1>t, <3>1, <3>2, StepsEffect, GoesOnInv
    <3>3. ASSUME NEW c \in Cost, distilling' = [distilling EXCEPT ![r] = [distilling[r] EXCEPT !.at = "settle", !.cost = c]]
          PROVE  DistilInv'
      <4> DEFINE d == [distilling[r] EXCEPT !.at = "settle", !.cost = c]
      <4>1. d \in RunRow /\ d.window = distilling[r].window /\ d.at = "settle"
        BY <1>t, DistilAssumption, CallsAnswered, CallsAnsweredFields DEF DistilTypeOK
      <4> HIDE DEF d
      <4>2. distilling' = [distilling EXCEPT ![r] = d]
        BY <3>3 DEF d
      <4>3. distilling' \in [Distil -> RunRow] /\ Others(r) /\ distilling'[r].window = distilling[r].window /\ distilling'[r].at = "settle"
        BY <1>t, <4>1, <4>2 DEF DistilTypeOK, Others
      <4>4. QED
        BY <3>1, <4>3, GoesOnInv
    <3>4. QED
      BY <2>3, <3>2, <3>3 DEF Answers
  <2>4. CASE Settle(r)
    <3>1. distilling[r].cost \in Nat
      BY <1>t DEF DistilTypeOK, RunRow
    <3>2. QED
      BY <2>4, <3>1, SettleInv DEF Settle, Stands
  <2>5. CASE Refund(r)
    BY <2>5, SettleInv DEF Refund, Stands
  <2>6. CASE SaveFailure(r)
    BY <1>t, <2>6, StepsEffect, GoesOnInv DEF SaveFailure, Stands
  <2>7. CASE WriteNotes(r)
    BY <1>t, <2>7, StepsEffect, GoesOnInv DEF WriteNotes, Stands
  <2>8. CASE FinishJob(r)
    BY <1>t, <2>8, StepsEffect, GoesOnInv DEF FinishJob, Stands
  <2>9. QED
    BY <1>2, <2>1, <2>2, <2>3, <2>4, <2>5, <2>6, <2>7, <2>8 DEF Proceed
<1>3. ASSUME NEW r \in Distil, BreakOff(r) PROVE DistilInv'
  BY <1>3, BreakOffInv
<1>4. CASE ReadSettings
  <2>1. /\ edit' = [open |-> TRUE, read |-> settings] /\ count' = [count EXCEPT !.edits = @ + 1]
        /\ UNCHANGED <<settings, distilling, paid, lost, disturbed>>
    BY <1>4 DEF ReadSettings
  <2>2. DistilTypeOK' /\ count'.windows = count.windows
    BY <1>t, <2>1 DEF DistilTypeOK
  <2>3. InFlight' = InFlight
    BY <2>1 DEF InFlight
  <2>4. QED
    BY <2>1, <2>2, <2>3 DEF DistilInv, WindowsAreOpened, SpendIsAccounted
<1>5. CASE SaveSettings
  BY <1>5, SaveSettingsInv
<1>6. CASE MonthTurns
  BY <1>6, MonthTurnsInv
<1>7. CASE SessionGoes \/ UNCHANGED distilVars
  <2>1. UNCHANGED <<settings, distilling, edit, paid, lost, disturbed, count>>
    BY <1>7 DEF SessionGoes
  <2>2. InFlight' = InFlight
    BY <2>1 DEF InFlight
  <2>3. QED
    BY <2>1, <2>2 DEF DistilInv, DistilTypeOK, WindowsAreOpened, SpendIsAccounted
<1>8. QED
  BY <1>1, <1>2, <1>3, <1>4, <1>5, <1>6, <1>7 DEF DistilNext

(* Short of an edit saved over a counter that had moved, and of a run settled  *)
(* in another month than it reserved in, what an account is charged is what    *)
(* its runs of the month cost and what those under way or broken off hold.     *)
THEOREM SpendIsTrue == DistilSpec => []DistillationIsTrue
<1>1. DistilInit => DistilInv
  BY DistilInitInv
<1>2. DistilInv /\ [DistilNext]_distilVars => DistilInv'
  BY DistilStepInv
<1>3. DistilInv => DistillationIsTrue
  BY DEF DistilInv, DistillationIsTrue
<1>4. QED
  BY <1>1, <1>2, <1>3, PTL DEF DistilSpec

(* The error groups.                                                        *)

LEMMA TrackedIsFinite ==
  ASSUME NEW counts
  PROVE  IsFiniteSet(Tracked(counts)) /\ Cardinality(Tracked(counts)) \in Nat
BY ErrorGroupsAssumption, FS_Subset, FS_CardinalityType DEF Tracked

LEMMA ErrorInitInv == ErrorInit => ErrorInv
<1> SUFFICES ASSUME ErrorInit PROVE ErrorInv
  OBVIOUS
<1>1. Tracked(NoErrors) = {}
  BY DEF Tracked, NoErrors
<1>2. Cardinality(Tracked(NoErrors)) = 0
  BY <1>1, FS_EmptySet
<1>3. groups = NoErrors /\ errorFile.groups = NoErrors /\ errorFile.dropped = 0 /\ errorFile.readable
  BY DEF ErrorInit, EmptyFile
<1>4. NoErrors \in [Kind -> Nat] /\ \A k \in Kind : NoErrors[k] = 0
  BY DEF NoErrors
<1>5. ErrorTypeOK
  BY <1>4 DEF ErrorInit, ErrorTypeOK, EmptyFile
<1>6. errorPlace.at = "down"
  BY DEF ErrorInit
<1>7. ErrorsHold
  BY <1>2, <1>3, <1>6, ErrorGroupsAssumption DEF ErrorInit, ErrorsHold, NeverCountedTwice, CountsSurvive, CapIsKept, Working, ErrorPlaceIs
<1>8. WriteIsWhole /\ StartsEmpty
  BY <1>3, <1>6 DEF ErrorInit, WriteIsWhole, StartsEmpty, ErrorPlaceIs
<1>9. FileIsNotAhead /\ FileIsCurrent
  BY <1>3, <1>4, <1>6 DEF ErrorInit, FileIsNotAhead, FileIsCurrent, InTheFile, DroppedInTheFile, ErrorPlaceIs
<1>10. FileIsCapped
  BY <1>2, <1>3, ErrorGroupsAssumption DEF FileIsCapped
<1>11. QED
  BY <1>5, <1>7, <1>8, <1>9, <1>10 DEF ErrorInv

(* The process moves on; what it runs as stays.                             *)
LEMMA ErrorPlaceMoves ==
  ASSUME ErrorTypeOK, NEW p \in {"down", "starting", "up", "saving", "stopping", "closing"}, ErrorMoves(p)
  PROVE  /\ errorPlace' \in [runs: {"api", "worker"}, at: {"down", "starting", "up", "saving", "stopping", "closing"}]
         /\ errorPlace'.at = p /\ errorPlace'.runs = errorPlace.runs
BY DEF ErrorTypeOK, ErrorMoves

LEMMA StartProcessInv == ErrorInv /\ StartProcess => ErrorInv'
<1> SUFFICES ASSUME ErrorInv, StartProcess PROVE ErrorInv'
  OBVIOUS
<1>t. ErrorTypeOK
  BY DEF ErrorInv
<1>1. /\ errorPlace' \in [runs: {"api", "worker"}, at: {"down", "starting", "up", "saving", "stopping", "closing"}]
      /\ errorPlace'.at = "starting" /\ errorPlace'.runs = errorPlace.runs
  BY <1>t, ErrorPlaceMoves DEF StartProcess
<1>2. /\ slip' \in [fresh: BOOLEAN, late: BOOLEAN, damaged: BOOLEAN, lost: BOOLEAN, cut: BOOLEAN]
      /\ slip'.damaged = slip.damaged /\ slip'.lost = slip.lost /\ slip'.cut = slip.cut /\ ~slip'.fresh
  BY <1>t DEF StartProcess, ErrorTypeOK
<1>3. groups' = NoErrors /\ overflow' = 0 /\ NoErrors \in [Kind -> Nat] /\ \A k \in Kind : NoErrors[k] = 0
  BY DEF StartProcess, NoErrors
<1>4. UNCHANGED <<errorFile, happened, turnedAway>>
  BY DEF StartProcess
<1>5. Cardinality(Tracked(groups')) = 0
  <2>1. Tracked(NoErrors) = {}
    BY DEF Tracked, NoErrors
  <2>2. QED
    BY <1>3, <2>1, FS_EmptySet
<1>6. ErrorTypeOK'
  BY <1>t, <1>1, <1>2, <1>3, <1>4 DEF ErrorTypeOK
<1>7. FileIsNotAhead'
  BY <1>4 DEF ErrorInv, FileIsNotAhead, InTheFile, DroppedInTheFile
<1>8. NeverCountedTwice'
  <2>1. DroppedInTheFile' <= turnedAway' /\ \A k \in Kind : InTheFile(k)' <= happened'[k]
    BY <1>7 DEF FileIsNotAhead
  <2>2. overflow' + DroppedInTheFile' <= turnedAway'
    BY <1>3, <1>6, <2>1 DEF ErrorTypeOK, DroppedInTheFile
  <2>3. \A k \in Kind : groups'[k] + InTheFile(k)' <= happened'[k]
    BY <1>3, <1>6, <2>1 DEF ErrorTypeOK, InTheFile
  <2>4. QED
    BY <1>1, <2>2, <2>3 DEF NeverCountedTwice, Working, ErrorPlaceIs
<1>9. CountsSurvive'
  BY <1>1 DEF CountsSurvive, Working
<1>10. CapIsKept'
  BY <1>1, <1>2, <1>5, ErrorGroupsAssumption DEF ErrorInv, ErrorsHold, CapIsKept
<1>11. WriteIsWhole'
  BY <1>1, <1>2, <1>4 DEF ErrorInv, WriteIsWhole, ErrorPlaceIs
<1>12. FileIsCurrent'
  <2>1. CASE slip.lost \/ slip.cut \/ slip.damaged
    BY <1>2, <2>1 DEF FileIsCurrent
  <2>2. CASE ~(slip.lost \/ slip.cut \/ slip.damaged)
    <3>1. errorFile.groups = happened /\ errorFile.dropped = turnedAway
      BY <2>2 DEF ErrorInv, FileIsCurrent, StartProcess, ErrorPlaceIs
    <3>2. overflow' + errorFile'.dropped = turnedAway'
      BY <1>t, <1>3, <1>4, <3>1 DEF ErrorTypeOK
    <3>3. \A k \in Kind : groups'[k] + errorFile'.groups[k] = happened'[k]
      BY <1>t, <1>3, <1>4, <3>1 DEF ErrorTypeOK
    <3>4. QED
      BY <1>1, <3>2, <3>3 DEF FileIsCurrent, ErrorPlaceIs, Working
  <2>3. QED
    BY <2>1, <2>2
<1>13. StartsEmpty'
  BY <1>3, <1>5, ErrorGroupsAssumption DEF StartsEmpty
<1>14. FileIsCapped'
  BY <1>1, <1>4 DEF ErrorInv, FileIsCapped
<1>15. QED
  BY <1>6, <1>7, <1>8, <1>9, <1>10, <1>11, <1>12, <1>13, <1>14 DEF ErrorInv, ErrorsHold

(* What a failure does to the counts: one more here and in the history.     *)
LEMMA RecordedTwice ==
  ASSUME ErrorInv, NEW k \in Kind, RecordError(k)
  PROVE  /\ groups' \in [Kind -> Nat] /\ happened' \in [Kind -> Nat] /\ overflow' \in Nat /\ turnedAway' \in Nat
         /\ \A j \in Kind : \E d \in {0, 1} : groups'[j] = groups[j] + d /\ happened'[j] = happened[j] + d
         /\ \E d \in {0, 1} : overflow' = overflow + d /\ turnedAway' = turnedAway + d
         /\ Cardinality(Tracked(groups')) <= MaxGroups \/ Tracked(groups') = Tracked(groups)
<1>t. ErrorTypeOK
  BY DEF ErrorInv
<1>1. CASE groups[k] = 0 /\ Cardinality(Tracked(groups)) >= MaxGroups
  <2>1. overflow' = overflow + 1 /\ turnedAway' = turnedAway + 1 /\ UNCHANGED <<groups, happened>>
    BY <1>1 DEF RecordError
  <2>2. \A j \in Kind : groups'[j] = groups[j] + 0 /\ happened'[j] = happened[j] + 0
    BY <1>t, <2>1 DEF ErrorTypeOK
  <2>3. QED
    BY <1>t, <2>1, <2>2 DEF ErrorTypeOK
<1>2. CASE ~(groups[k] = 0 /\ Cardinality(Tracked(groups)) >= MaxGroups)
  <2>1. /\ groups' = [groups EXCEPT ![k] = @ + 1] /\ happened' = [happened EXCEPT ![k] = @ + 1]
        /\ UNCHANGED <<overflow, turnedAway>>
    BY <1>2 DEF RecordError
  <2>2. groups' \in [Kind -> Nat] /\ happened' \in [Kind -> Nat]
    BY <1>t, <2>1 DEF ErrorTypeOK
  <2>3. ASSUME NEW j \in Kind PROVE \E d \in {0, 1} : groups'[j] = groups[j] + d /\ happened'[j] = happened[j] + d
    <3>1. CASE j = k
      BY <1>t, <2>1, <3>1 DEF ErrorTypeOK
    <3>2. CASE j # k
      BY <1>t, <2>1, <3>2 DEF ErrorTypeOK
    <3>3. QED
      BY <3>1, <3>2
  <2>4. overflow' = overflow + 0 /\ turnedAway' = turnedAway + 0 /\ overflow' \in Nat /\ turnedAway' \in Nat
    BY <1>t, <2>1 DEF ErrorTypeOK
  <2>5. Tracked(groups') = Tracked(groups) \cup {k}
    BY <1>t, <2>1 DEF ErrorTypeOK, Tracked
  <2>6. CASE groups[k] # 0
    <3>1. Tracked(groups') = Tracked(groups)
      BY <2>5, <2>6 DEF Tracked
    <3>2. QED
      BY <2>2, <2>3, <2>4, <3>1
  <2>7. CASE groups[k] = 0
    <3>1. k \notin Tracked(groups) /\ ~(Cardinality(Tracked(groups)) >= MaxGroups)
      BY <1>2, <2>7 DEF Tracked
    <3>2. Cardinality(Tracked(groups')) = Cardinality(Tracked(groups)) + 1
      BY <2>5, <3>1, TrackedIsFinite, FS_AddElement
    <3>3. Cardinality(Tracked(groups')) <= MaxGroups
      BY <3>1, <3>2, TrackedIsFinite, ErrorGroupsAssumption
    <3>4. QED
      BY <2>2, <2>3, <2>4, <3>3
  <2>8. QED
    BY <2>6, <2>7
<1>3. QED
  BY <1>1, <1>2

LEMMA RecordErrorInv == ErrorInv /\ (\E k \in Kind : RecordError(k)) => ErrorInv'
<1> SUFFICES ASSUME ErrorInv, NEW k \in Kind, RecordError(k) PROVE ErrorInv'
  OBVIOUS
<1>t. ErrorTypeOK
  BY DEF ErrorInv
<1>1. UNCHANGED <<errorPlace, errorFile, temporary>> /\ MayFail
  BY DEF RecordError
<1>2. /\ slip' \in [fresh: BOOLEAN, late: BOOLEAN, damaged: BOOLEAN, lost: BOOLEAN, cut: BOOLEAN]
      /\ slip'.damaged = slip.damaged /\ slip'.lost = slip.lost /\ slip'.cut = slip.cut /\ slip'.fresh
  BY <1>t DEF RecordError, ErrorTypeOK, ErrorPlaceIs
<1>3. slip'.late = ErrorPlaceIs("closing")
  BY <1>t DEF RecordError, ErrorTypeOK, ErrorPlaceIs
<1>4. errorPlace.at \in {"up", "closing", "starting"} /\ (errorPlace.at = "starting" => errorPlace.runs = "worker")
  BY <1>1 DEF MayFail, ErrorPlaceIs
<1>5. /\ groups' \in [Kind -> Nat] /\ happened' \in [Kind -> Nat] /\ overflow' \in Nat /\ turnedAway' \in Nat
      /\ \A j \in Kind : \E d \in {0, 1} : groups'[j] = groups[j] + d /\ happened'[j] = happened[j] + d
      /\ \E d \in {0, 1} : overflow' = overflow + d /\ turnedAway' = turnedAway + d
      /\ Cardinality(Tracked(groups')) <= MaxGroups \/ Tracked(groups') = Tracked(groups)
  BY RecordedTwice
<1>6. ErrorTypeOK'
  BY <1>t, <1>1, <1>2, <1>5 DEF ErrorTypeOK
<1>7. FileIsNotAhead'
  <2>1. DroppedInTheFile <= turnedAway /\ \A j \in Kind : InTheFile(j) <= happened[j]
    BY DEF ErrorInv, FileIsNotAhead
  <2>2. DroppedInTheFile \in Nat /\ \A j \in Kind : InTheFile(j) \in Nat
    BY <1>t DEF ErrorTypeOK, DroppedInTheFile, InTheFile
  <2>3. DroppedInTheFile' = DroppedInTheFile /\ \A j \in Kind : InTheFile(j)' = InTheFile(j)
    BY <1>1 DEF DroppedInTheFile, InTheFile
  <2>4. DroppedInTheFile <= turnedAway'
    BY <1>t, <1>5, <2>1, <2>2 DEF ErrorTypeOK
  <2>5. \A j \in Kind : InTheFile(j) <= happened'[j]
    BY <1>t, <1>5, <2>1, <2>2 DEF ErrorTypeOK
  <2>6. QED
    BY <2>3, <2>4, <2>5 DEF FileIsNotAhead
<1>8. NeverCountedTwice'
  <2>1. CASE errorPlace.at = "starting"
    <3>1. overflow + DroppedInTheFile <= turnedAway /\ \A j \in Kind : groups[j] + InTheFile(j) <= happened[j]
      BY <2>1 DEF ErrorInv, ErrorsHold, NeverCountedTwice, ErrorPlaceIs
    <3>2. DroppedInTheFile \in Nat /\ \A j \in Kind : InTheFile(j) \in Nat
      BY <1>t DEF ErrorTypeOK, DroppedInTheFile, InTheFile
    <3>3. DroppedInTheFile' = DroppedInTheFile /\ \A j \in Kind : InTheFile(j)' = InTheFile(j)
      BY <1>1 DEF DroppedInTheFile, InTheFile
    <3>4. overflow' + DroppedInTheFile <= turnedAway'
      BY <1>t, <1>5, <3>1, <3>2 DEF ErrorTypeOK
    <3>5. \A j \in Kind : groups'[j] + InTheFile(j) <= happened'[j]
      BY <1>t, <1>5, <3>1, <3>2 DEF ErrorTypeOK
    <3>6. QED
      BY <1>1, <2>1, <3>3, <3>4, <3>5 DEF NeverCountedTwice, Working, ErrorPlaceIs
  <2>2. CASE errorPlace.at # "starting"
    <3>1. overflow <= turnedAway /\ \A j \in Kind : groups[j] <= happened[j]
      BY <1>4, <2>2 DEF ErrorInv, ErrorsHold, NeverCountedTwice, Working
    <3>2. overflow' <= turnedAway' /\ \A j \in Kind : groups'[j] <= happened'[j]
      BY <1>t, <1>5, <3>1 DEF ErrorTypeOK
    <3>3. QED
      BY <1>1, <2>2, <3>2 DEF NeverCountedTwice, ErrorPlaceIs
  <2>3. QED
    BY <2>1, <2>2
<1>9. CountsSurvive'
  <2> SUFFICES ASSUME Working, ~slip.lost, ~slip.cut PROVE groups' = happened' /\ overflow' = turnedAway'
    BY <1>1, <1>2 DEF CountsSurvive, Working
  <2>1. groups = happened /\ overflow = turnedAway
    BY DEF ErrorInv, ErrorsHold, CountsSurvive
  <2>2. \A j \in Kind : groups'[j] = happened'[j]
    BY <1>5, <2>1
  <2>3. QED
    BY <1>5, <2>1, <2>2
<1>10. CapIsKept' /\ StartsEmpty'
  <2>1. Cardinality(Tracked(groups)) \in Nat /\ Cardinality(Tracked(groups')) \in Nat /\ MaxGroups \in Nat
    BY TrackedIsFinite, ErrorGroupsAssumption
  <2>2. /\ errorPlace.runs = "api" => ~slip.cut
        /\ Cardinality(Tracked(groups)) <= (IF errorPlace.runs = "api" THEN 1 ELSE 2) * MaxGroups
    BY DEF ErrorInv, ErrorsHold, CapIsKept
  <2>3. Cardinality(Tracked(groups')) <= (IF errorPlace.runs = "api" THEN 1 ELSE 2) * MaxGroups
    BY <1>5, <2>1, <2>2
  <2>4. errorPlace.at = "starting" => Cardinality(Tracked(groups')) <= MaxGroups
    BY <1>5, <2>1 DEF ErrorInv, StartsEmpty, ErrorPlaceIs
  <2>5. CapIsKept'
    BY <1>1, <1>2, <2>2, <2>3 DEF CapIsKept
  <2>6. StartsEmpty'
    BY <1>1, <1>2, <1>4, <2>4 DEF StartsEmpty, ErrorPlaceIs
  <2>7. QED
    BY <2>5, <2>6
<1>11. WriteIsWhole'
  BY <1>1, <1>2, <1>4 DEF ErrorInv, WriteIsWhole, ErrorPlaceIs
<1>12. FileIsCurrent'
  <2> SUFFICES ASSUME ~slip.lost, ~slip.cut, ~slip.damaged PROVE FileIsCurrent'
    BY <1>2 DEF FileIsCurrent
  <2>1. ~(ErrorPlaceIs("down") \/ (Working /\ ~slip.fresh) \/ (ErrorPlaceIs("closing") /\ ~slip.late))'
    BY <1>1, <1>2, <1>3, <1>4 DEF ErrorPlaceIs
  <2>2. CASE errorPlace.at = "starting"
    <3>1. /\ overflow + errorFile.dropped = turnedAway
          /\ \A j \in Kind : groups[j] + errorFile.groups[j] = happened[j]
      BY <2>2 DEF ErrorInv, FileIsCurrent, ErrorPlaceIs
    <3>2. errorFile.dropped \in Nat /\ \A j \in Kind : errorFile.groups[j] \in Nat
      BY <1>t DEF ErrorTypeOK
    <3>3. overflow' + errorFile.dropped = turnedAway'
      BY <1>t, <1>5, <3>1, <3>2 DEF ErrorTypeOK
    <3>4. \A j \in Kind : groups'[j] + errorFile.groups[j] = happened'[j]
      BY <1>t, <1>5, <3>1, <3>2 DEF ErrorTypeOK
    <3>5. QED
      BY <1>1, <2>1, <3>3, <3>4 DEF FileIsCurrent
  <2>3. CASE errorPlace.at # "starting"
    BY <1>1, <2>1, <2>3 DEF FileIsCurrent, ErrorPlaceIs
  <2>4. QED
    BY <2>2, <2>3
<1>13. FileIsCapped'
  BY <1>1 DEF ErrorInv, FileIsCapped
<1>14. QED
  BY <1>6, <1>7, <1>8, <1>9, <1>10, <1>11, <1>12, <1>13 DEF ErrorInv, ErrorsHold

(* The file is read: what it has is added to what was counted since.        *)
LEMMA RestoreErrorsInv == ErrorInv /\ RestoreErrors => ErrorInv'
<1> SUFFICES ASSUME ErrorInv, RestoreErrors PROVE ErrorInv'
  OBVIOUS
<1>t. ErrorTypeOK
  BY DEF ErrorInv
<1>s. errorPlace.at = "starting"
  BY DEF RestoreErrors, ErrorPlaceIs
<1>1. /\ errorPlace' \in [runs: {"api", "worker"}, at: {"down", "starting", "up", "saving", "stopping", "closing"}]
      /\ errorPlace'.at = "up" /\ errorPlace'.runs = errorPlace.runs
  BY <1>t, ErrorPlaceMoves DEF RestoreErrors
<1>2. UNCHANGED <<errorFile, happened, turnedAway>>
  BY DEF RestoreErrors
<1>n. MaxGroups \in Nat
  BY ErrorGroupsAssumption
<1>3. /\ overflow + DroppedInTheFile <= turnedAway
      /\ \A k \in Kind : groups[k] + InTheFile(k) <= happened[k]
  BY <1>s DEF ErrorInv, ErrorsHold, NeverCountedTwice, ErrorPlaceIs
<1>4. Cardinality(Tracked(groups)) <= MaxGroups /\ (errorPlace.runs = "api" => groups = NoErrors /\ overflow = 0)
  BY <1>s DEF ErrorInv, StartsEmpty, ErrorPlaceIs
<1>5. ~slip.fresh => groups = NoErrors /\ overflow = 0
  BY <1>s DEF ErrorInv, StartsEmpty, ErrorPlaceIs
<1>6. /\ errorPlace.runs = "api" => ~slip.cut
      /\ errorPlace.runs = "api" => Cardinality(Tracked(errorFile.groups)) <= MaxGroups
  BY DEF ErrorInv, ErrorsHold, CapIsKept, FileIsCapped
<1>7. FileIsNotAhead' /\ FileIsCapped'
  BY <1>1, <1>2 DEF ErrorInv, FileIsNotAhead, FileIsCapped, InTheFile, DroppedInTheFile
<1>8. StartsEmpty'
  BY <1>1 DEF StartsEmpty, ErrorPlaceIs
<1>9. CASE errorFile.readable
  <2> PICK K \in SUBSET Kind :
         /\ TakenBack(K) /\ groups' = Merged(K)
         /\ slip' = [slip EXCEPT !.cut = @ \/ K # Tracked(errorFile.groups)]
         /\ overflow' = overflow + errorFile.dropped
    BY <1>9 DEF RestoreErrors
  <2>1. /\ slip' \in [fresh: BOOLEAN, late: BOOLEAN, damaged: BOOLEAN, lost: BOOLEAN, cut: BOOLEAN]
        /\ slip'.damaged = slip.damaged /\ slip'.lost = slip.lost /\ slip'.fresh = slip.fresh
        /\ slip'.cut <=> (slip.cut \/ K # Tracked(errorFile.groups))
    BY <1>t DEF ErrorTypeOK
  <2>2. groups' \in [Kind -> Nat] /\ overflow' \in Nat
    BY <1>t DEF ErrorTypeOK, Merged
  <2>3. ErrorTypeOK'
    BY <1>t, <1>1, <1>2, <2>1, <2>2 DEF ErrorTypeOK
  <2>4. \A k \in Kind : \/ k \in K /\ groups'[k] = groups[k] + errorFile.groups[k]
                        \/ k \notin K /\ groups'[k] = groups[k]
    BY DEF Merged
  <2>5. NeverCountedTwice'
    <3>1. overflow' <= turnedAway
      BY <1>3, <1>9 DEF DroppedInTheFile
    <3>2. ASSUME NEW k \in Kind PROVE groups'[k] <= happened[k]
      <4>1. groups[k] + errorFile.groups[k] <= happened[k]
        BY <1>3, <1>9 DEF InTheFile
      <4>2. groups[k] \in Nat /\ errorFile.groups[k] \in Nat /\ happened[k] \in Nat
        BY <1>t DEF ErrorTypeOK
      <4>3. QED
        BY <2>4, <4>1, <4>2
    <3>3. QED
      BY <1>1, <1>2, <3>1, <3>2 DEF NeverCountedTwice, ErrorPlaceIs
  <2>6. ~slip.damaged
    BY <1>9 DEF ErrorInv, WriteIsWhole
  <2>7. ~slip'.lost /\ ~slip'.cut => groups' = happened' /\ overflow' = turnedAway'
    <3> SUFFICES ASSUME ~slip.lost, ~slip.cut, K = Tracked(errorFile.groups) PROVE groups' = happened /\ overflow' = turnedAway
      BY <1>2, <2>1
    <3>1. /\ overflow + errorFile.dropped = turnedAway
          /\ \A k \in Kind : groups[k] + errorFile.groups[k] = happened[k]
      BY <1>s, <2>6 DEF ErrorInv, FileIsCurrent, ErrorPlaceIs
    <3>2. ASSUME NEW k \in Kind PROVE groups'[k] = happened[k]
      <4>1. k \notin K => errorFile.groups[k] = 0
        BY DEF Tracked
      <4>2. groups[k] \in Nat /\ errorFile.groups[k] \in Nat
        BY <1>t DEF ErrorTypeOK
      <4>3. QED
        BY <2>4, <3>1, <4>1, <4>2
    <3>3. QED
      BY <1>t, <2>2, <3>1, <3>2 DEF ErrorTypeOK
  <2>8. CountsSurvive'
    BY <2>7 DEF CountsSurvive
  <2>9. CapIsKept'
    <3>1. IsFiniteSet(K) /\ Cardinality(K) \in Nat /\ Cardinality(K) <= MaxGroups
      <4>1. IsFiniteSet(K) /\ Cardinality(K) \in Nat
        BY ErrorGroupsAssumption, FS_Subset, FS_CardinalityType
      <4>2. QED
        BY <1>n, <4>1 DEF TakenBack
    <3>2. errorPlace.runs = "api" => K = Tracked(errorFile.groups)
      BY <1>6 DEF TakenBack
    <3>3. Tracked(groups') \subseteq Tracked(groups) \cup K
      BY <2>4 DEF Tracked
    <3>4. Cardinality(Tracked(groups) \cup K) <= Cardinality(Tracked(groups)) + Cardinality(K)
      <4>1. Cardinality(Tracked(groups) \cap K) \in Nat
        BY <3>1, FS_Subset, FS_CardinalityType
      <4>2. IsFiniteSet(Tracked(groups)) /\ Cardinality(Tracked(groups)) \in Nat
        BY TrackedIsFinite
      <4>3. Cardinality(Tracked(groups) \cup K) = Cardinality(Tracked(groups)) + Cardinality(K) - Cardinality(Tracked(groups) \cap K)
        BY <3>1, <4>2, FS_Union
      <4>4. QED
        BY <3>1, <4>1, <4>2, <4>3
    <3>5. Cardinality(Tracked(groups')) <= Cardinality(Tracked(groups) \cup K) /\ Cardinality(Tracked(groups) \cup K) \in Nat
      <4>1. IsFiniteSet(Tracked(groups) \cup K)
        BY <3>1, TrackedIsFinite, FS_Union
      <4>2. QED
        BY <3>3, <4>1, FS_Subset, FS_CardinalityType
    <3>6. errorPlace.runs = "api" => Cardinality(Tracked(groups)) = 0
      <4>1. Tracked(NoErrors) = {}
        BY DEF Tracked, NoErrors
      <4>2. QED
        BY <1>4, <4>1, FS_EmptySet
    <3>7. Cardinality(Tracked(groups')) <= (IF errorPlace.runs = "api" THEN 1 ELSE 2) * MaxGroups
      BY <1>n, <1>4, <3>1, <3>4, <3>5, <3>6, TrackedIsFinite
    <3>8. QED
      BY <1>1, <1>6, <2>1, <3>2, <3>7 DEF CapIsKept
  <2>10. WriteIsWhole'
    BY <1>1, <1>2, <2>1 DEF ErrorInv, WriteIsWhole, ErrorPlaceIs
  <2>11. FileIsCurrent'
    <3> SUFFICES ASSUME ~slip.lost, ~slip.cut, ~slip.fresh PROVE errorFile.groups = happened /\ errorFile.dropped = turnedAway
      BY <1>1, <1>2, <2>1 DEF FileIsCurrent, ErrorPlaceIs, Working
    <3>1. /\ overflow + errorFile.dropped = turnedAway
          /\ \A k \in Kind : groups[k] + errorFile.groups[k] = happened[k]
      BY <1>s, <2>6 DEF ErrorInv, FileIsCurrent, ErrorPlaceIs
    <3>2. overflow = 0 /\ \A k \in Kind : groups[k] = 0
      BY <1>5 DEF NoErrors
    <3>3. errorFile.dropped = turnedAway /\ \A k \in Kind : errorFile.groups[k] = happened[k]
      BY <1>t, <3>1, <3>2 DEF ErrorTypeOK
    <3>4. QED
      BY <1>t, <3>3 DEF ErrorTypeOK
  <2>12. QED
    BY <1>7, <1>8, <2>3, <2>5, <2>8, <2>9, <2>10, <2>11 DEF ErrorInv, ErrorsHold
<1>10. CASE ~errorFile.readable
  <2>1. slip' = [slip EXCEPT !.lost = @ \/ slip.damaged] /\ UNCHANGED <<groups, overflow>>
    BY <1>10 DEF RestoreErrors
  <2>2. slip.damaged
    BY <1>t, <1>10 DEF ErrorInv, WriteIsWhole, ErrorTypeOK
  <2>3. /\ slip' \in [fresh: BOOLEAN, late: BOOLEAN, damaged: BOOLEAN, lost: BOOLEAN, cut: BOOLEAN]
        /\ slip'.damaged = slip.damaged /\ slip'.lost /\ slip'.cut = slip.cut
    BY <1>t, <2>1, <2>2 DEF ErrorTypeOK
  <2>4. ErrorTypeOK'
    BY <1>t, <1>1, <1>2, <2>1, <2>3 DEF ErrorTypeOK
  <2>5. NeverCountedTwice'
    <3>1. overflow <= turnedAway /\ \A k \in Kind : groups[k] <= happened[k]
      BY <1>t, <1>3, <1>10 DEF ErrorTypeOK, InTheFile, DroppedInTheFile
    <3>2. QED
      BY <1>1, <1>2, <2>1, <3>1 DEF NeverCountedTwice, ErrorPlaceIs
  <2>6. CapIsKept'
    <3>1. Cardinality(Tracked(groups)) <= (IF errorPlace.runs = "api" THEN 1 ELSE 2) * MaxGroups
      BY <1>n, <1>4, TrackedIsFinite
    <3>2. QED
      BY <1>1, <1>6, <2>1, <2>3, <3>1 DEF CapIsKept
  <2>7. CountsSurvive' /\ FileIsCurrent'
    BY <2>3 DEF CountsSurvive, FileIsCurrent
  <2>8. WriteIsWhole'
    BY <1>1, <1>2, <2>3 DEF ErrorInv, WriteIsWhole, ErrorPlaceIs
  <2>9. QED
    BY <1>7, <1>8, <2>4, <2>5, <2>6, <2>7, <2>8 DEF ErrorInv, ErrorsHold
<1>11. QED
  BY <1>9, <1>10

(* A step that counts nothing keeps what was said of the counts, while the      *)
(* process works or when it stops.                                              *)
LEMMA CountsStand ==
  ASSUME ErrorInv, Working, UNCHANGED <<groups, overflow, happened, turnedAway>>, errorPlace'.runs = errorPlace.runs,
         errorPlace'.at # "starting", slip'.cut = slip.cut, slip.lost => slip'.lost
  PROVE  ErrorsHold' /\ StartsEmpty'
<1>1. NeverCountedTwice'
  BY DEF ErrorInv, ErrorsHold, NeverCountedTwice, Working, ErrorPlaceIs
<1>2. CountsSurvive'
  BY DEF ErrorInv, ErrorsHold, CountsSurvive, Working
<1>3. CapIsKept'
  BY DEF ErrorInv, ErrorsHold, CapIsKept
<1>4. StartsEmpty'
  BY DEF StartsEmpty, ErrorPlaceIs
<1>5. QED
  BY <1>1, <1>2, <1>3, <1>4 DEF ErrorsHold

LEMMA FlushErrorsInv == ErrorInv /\ FlushErrors => ErrorInv'
<1> SUFFICES ASSUME ErrorInv, FlushErrors PROVE ErrorInv'
  OBVIOUS
<1>t. ErrorTypeOK
  BY DEF ErrorInv
<1>s. errorPlace.at = "up"
  BY DEF FlushErrors, ErrorPlaceIs
<1>1. /\ errorPlace' \in [runs: {"api", "worker"}, at: {"down", "starting", "up", "saving", "stopping", "closing"}]
      /\ errorPlace'.at \in {"saving", "stopping"} /\ errorPlace'.runs = errorPlace.runs
  BY <1>t, ErrorPlaceMoves DEF FlushErrors
<1>2. UNCHANGED <<groups, overflow, errorFile, happened, turnedAway, slip>> /\ temporary' = Persistable
  BY DEF FlushErrors, BeginWrite
<1>3. ErrorTypeOK'
  BY <1>t, <1>1, <1>2 DEF ErrorTypeOK
<1>4. ErrorsHold' /\ StartsEmpty'
  BY <1>s, <1>1, <1>2, CountsStand DEF Working
<1>5. WriteIsWhole'
  BY <1>2 DEF ErrorInv, WriteIsWhole, Persistable
<1>6. FileIsNotAhead' /\ FileIsCapped'
  BY <1>1, <1>2 DEF ErrorInv, FileIsNotAhead, FileIsCapped, InTheFile, DroppedInTheFile
<1>7. FileIsCurrent'
  BY <1>s, <1>1, <1>2 DEF ErrorInv, FileIsCurrent, ErrorPlaceIs, Working
<1>8. QED
  BY <1>3, <1>4, <1>5, <1>6, <1>7 DEF ErrorInv

LEMMA RenameErrorsInv == ErrorInv /\ RenameErrors => ErrorInv'
<1> SUFFICES ASSUME ErrorInv, RenameErrors PROVE ErrorInv'
  OBVIOUS
<1>t. ErrorTypeOK
  BY DEF ErrorInv
<1>s. errorPlace.at \in {"saving", "stopping"}
  BY DEF RenameErrors, ErrorPlaceIs
<1>1. /\ errorPlace' \in [runs: {"api", "worker"}, at: {"down", "starting", "up", "saving", "stopping", "closing"}]
      /\ errorPlace'.at \in {"up", "closing"} /\ errorPlace'.runs = errorPlace.runs
  BY <1>t, ErrorPlaceMoves DEF RenameErrors, AfterWrite
<1>2. UNCHANGED <<groups, overflow, happened, turnedAway>>
  BY DEF RenameErrors
<1>3. errorFile' = Persistable
  BY <1>s DEF RenameErrors, ErrorInv, WriteIsWhole, ErrorPlaceIs
<1>4. errorFile'.groups = groups /\ errorFile'.dropped = overflow /\ errorFile'.readable
  BY <1>3 DEF Persistable
<1>5. /\ slip' \in [fresh: BOOLEAN, late: BOOLEAN, damaged: BOOLEAN, lost: BOOLEAN, cut: BOOLEAN]
      /\ ~slip'.damaged /\ slip'.lost = slip.lost /\ slip'.cut = slip.cut
  BY <1>t DEF RenameErrors, ErrorTypeOK
<1>6. ErrorTypeOK'
  BY <1>t, <1>1, <1>2, <1>3, <1>5 DEF ErrorTypeOK, Persistable
<1>7. ErrorsHold' /\ StartsEmpty'
  BY <1>s, <1>1, <1>2, <1>5, CountsStand DEF Working
<1>8. WriteIsWhole'
  BY <1>1, <1>4, <1>5 DEF WriteIsWhole, ErrorPlaceIs
<1>9. overflow <= turnedAway /\ \A k \in Kind : groups[k] <= happened[k]
  BY <1>s DEF ErrorInv, ErrorsHold, NeverCountedTwice, Working
<1>10. FileIsNotAhead'
  BY <1>2, <1>4, <1>9 DEF FileIsNotAhead, InTheFile, DroppedInTheFile
<1>11. FileIsCapped'
  BY <1>1, <1>4, TrackedIsFinite, ErrorGroupsAssumption DEF ErrorInv, ErrorsHold, CapIsKept, FileIsCapped
<1>12. ~slip.lost /\ ~slip.cut => groups = happened /\ overflow = turnedAway
  BY <1>s DEF ErrorInv, ErrorsHold, CountsSurvive, Working
<1>13. FileIsCurrent'
  BY <1>1, <1>2, <1>4, <1>5, <1>12 DEF FileIsCurrent, ErrorPlaceIs
<1>14. QED
  BY <1>6, <1>7, <1>8, <1>10, <1>11, <1>13 DEF ErrorInv

LEMMA FlushFailsInv == ErrorInv /\ FlushFails => ErrorInv'
<1> SUFFICES ASSUME ErrorInv, FlushFails PROVE ErrorInv'
  OBVIOUS
<1>t. ErrorTypeOK
  BY DEF ErrorInv
<1>s. errorPlace.at \in {"saving", "stopping"}
  BY DEF FlushFails, ErrorPlaceIs
<1>1. /\ errorPlace' \in [runs: {"api", "worker"}, at: {"down", "starting", "up", "saving", "stopping", "closing"}]
      /\ errorPlace'.at = (IF errorPlace.at = "saving" THEN "up" ELSE "closing") /\ errorPlace'.runs = errorPlace.runs
  BY <1>t, ErrorPlaceMoves DEF FlushFails, AfterWrite, ErrorPlaceIs
<1>2. UNCHANGED <<groups, overflow, errorFile, happened, turnedAway>>
  BY DEF FlushFails
<1>3. /\ slip' \in [fresh: BOOLEAN, late: BOOLEAN, damaged: BOOLEAN, lost: BOOLEAN, cut: BOOLEAN]
      /\ slip'.damaged = slip.damaged /\ slip'.lost = slip.lost /\ slip'.cut = slip.cut /\ slip'.fresh = slip.fresh
      /\ slip'.late <=> errorPlace.at = "stopping" /\ slip.fresh
  BY <1>t DEF FlushFails, ErrorTypeOK, ErrorPlaceIs
<1>4. ErrorTypeOK'
  BY <1>t, <1>1, <1>2, <1>3 DEF ErrorTypeOK
<1>5. ErrorsHold' /\ StartsEmpty'
  BY <1>s, <1>1, <1>2, <1>3, CountsStand DEF Working
<1>6. WriteIsWhole'
  BY <1>1, <1>2, <1>3 DEF ErrorInv, WriteIsWhole, ErrorPlaceIs
<1>7. FileIsNotAhead' /\ FileIsCapped'
  BY <1>1, <1>2 DEF ErrorInv, FileIsNotAhead, FileIsCapped, InTheFile, DroppedInTheFile
<1>8. FileIsCurrent'
  BY <1>s, <1>1, <1>2, <1>3 DEF ErrorInv, FileIsCurrent, ErrorPlaceIs, Working
<1>9. QED
  BY <1>4, <1>5, <1>6, <1>7, <1>8 DEF ErrorInv

(* The process is gone: what it lost it had not written.                        *)
LEMMA StopsInv == ErrorInv /\ (ExitProcess \/ ProcessDies) => ErrorInv'
<1> SUFFICES ASSUME ErrorInv, ExitProcess \/ ProcessDies PROVE ErrorInv'
  OBVIOUS
<1>t. ErrorTypeOK
  BY DEF ErrorInv
<1>1. /\ errorPlace' \in [runs: {"api", "worker"}, at: {"down", "starting", "up", "saving", "stopping", "closing"}]
      /\ errorPlace'.at = "down" /\ errorPlace'.runs = errorPlace.runs
  BY <1>t, ErrorPlaceMoves DEF ExitProcess, ProcessDies
<1>2. UNCHANGED <<groups, overflow, errorFile, happened, turnedAway>>
  BY DEF ExitProcess, ProcessDies
<1>3. /\ slip' \in [fresh: BOOLEAN, late: BOOLEAN, damaged: BOOLEAN, lost: BOOLEAN, cut: BOOLEAN]
      /\ slip'.damaged = slip.damaged /\ slip'.cut = slip.cut /\ (slip.lost => slip'.lost)
      /\ ~slip'.lost => \/ errorPlace.at = "closing" /\ ~slip.late
                        \/ errorPlace.at # "down" /\ ~slip.fresh
  BY <1>t DEF ExitProcess, ProcessDies, ErrorTypeOK, ErrorPlaceIs
<1>4. ErrorTypeOK'
  BY <1>t, <1>1, <1>2, <1>3 DEF ErrorTypeOK
<1>5. ErrorsHold' /\ StartsEmpty'
  <2>1. NeverCountedTwice' /\ CountsSurvive' /\ StartsEmpty'
    BY <1>1 DEF NeverCountedTwice, CountsSurvive, StartsEmpty, Working, ErrorPlaceIs
  <2>2. CapIsKept'
    BY <1>1, <1>2, <1>3 DEF ErrorInv, ErrorsHold, CapIsKept
  <2>3. QED
    BY <2>1, <2>2 DEF ErrorsHold
<1>6. WriteIsWhole'
  BY <1>1, <1>2, <1>3 DEF ErrorInv, WriteIsWhole, ErrorPlaceIs
<1>7. FileIsNotAhead' /\ FileIsCapped'
  BY <1>1, <1>2 DEF ErrorInv, FileIsNotAhead, FileIsCapped, InTheFile, DroppedInTheFile
<1>8. FileIsCurrent'
  <2> SUFFICES ASSUME ~slip'.lost, ~slip.cut, ~slip.damaged PROVE errorFile.groups = happened /\ errorFile.dropped = turnedAway
    BY <1>1, <1>2, <1>3 DEF FileIsCurrent, ErrorPlaceIs
  <2>1. CASE errorPlace.at = "starting"
    <3>1. groups = NoErrors /\ overflow = 0
      BY <1>3, <2>1 DEF ErrorInv, StartsEmpty, ErrorPlaceIs
    <3>2. /\ overflow + errorFile.dropped = turnedAway
          /\ \A k \in Kind : groups[k] + errorFile.groups[k] = happened[k]
      BY <1>3, <2>1 DEF ErrorInv, FileIsCurrent, ErrorPlaceIs
    <3>3. overflow = 0 /\ \A k \in Kind : groups[k] = 0
      BY <3>1 DEF NoErrors
    <3>4. errorFile.dropped = turnedAway /\ \A k \in Kind : errorFile.groups[k] = happened[k]
      BY <1>t, <3>2, <3>3 DEF ErrorTypeOK
    <3>5. QED
      BY <1>t, <3>4 DEF ErrorTypeOK
  <2>2. CASE errorPlace.at # "starting"
    BY <1>3, <2>2 DEF ErrorInv, FileIsCurrent, ErrorPlaceIs, Working
  <2>3. QED
    BY <2>1, <2>2
<1>9. QED
  BY <1>4, <1>5, <1>6, <1>7, <1>8 DEF ErrorInv

LEMMA FileIsDamagedInv == ErrorInv /\ FileIsDamaged => ErrorInv'
<1> SUFFICES ASSUME ErrorInv, FileIsDamaged PROVE ErrorInv'
  OBVIOUS
<1>t. ErrorTypeOK
  BY DEF ErrorInv
<1>1. UNCHANGED <<errorPlace, groups, overflow, temporary, happened, turnedAway>> /\ errorFile.readable
  BY DEF FileIsDamaged
<1>2. /\ errorFile' \in [groups: [Kind -> Nat], dropped: Nat, readable: BOOLEAN]
      /\ errorFile'.groups = errorFile.groups /\ ~errorFile'.readable
  BY <1>t DEF FileIsDamaged, ErrorTypeOK
<1>3. /\ slip' \in [fresh: BOOLEAN, late: BOOLEAN, damaged: BOOLEAN, lost: BOOLEAN, cut: BOOLEAN]
      /\ slip'.damaged /\ slip'.cut = slip.cut /\ slip'.lost = slip.lost /\ slip'.fresh = slip.fresh
  BY <1>t DEF FileIsDamaged, ErrorTypeOK
<1>4. ErrorTypeOK'
  BY <1>t, <1>1, <1>2, <1>3 DEF ErrorTypeOK
<1>5. NeverCountedTwice'
  <2>1. CASE errorPlace.at = "starting"
    <3>1. overflow + errorFile.dropped <= turnedAway /\ \A k \in Kind : groups[k] + errorFile.groups[k] <= happened[k]
      BY <1>1, <2>1 DEF ErrorInv, ErrorsHold, NeverCountedTwice, ErrorPlaceIs, InTheFile, DroppedInTheFile
    <3>2. overflow + 0 <= turnedAway /\ \A k \in Kind : groups[k] + 0 <= happened[k]
      BY <1>t, <3>1 DEF ErrorTypeOK
    <3>3. QED
      BY <1>1, <1>2, <2>1, <3>2 DEF NeverCountedTwice, ErrorPlaceIs, Working, InTheFile, DroppedInTheFile
  <2>2. CASE errorPlace.at # "starting"
    BY <1>1, <2>2 DEF ErrorInv, ErrorsHold, NeverCountedTwice, Working, ErrorPlaceIs
  <2>3. QED
    BY <2>1, <2>2
<1>6. CountsSurvive' /\ CapIsKept'
  BY <1>1, <1>3 DEF ErrorInv, ErrorsHold, CountsSurvive, CapIsKept, Working
<1>7. WriteIsWhole' /\ FileIsCurrent'
  BY <1>1, <1>2, <1>3 DEF ErrorInv, WriteIsWhole, FileIsCurrent, ErrorPlaceIs, Persistable
<1>8. FileIsNotAhead'
  BY <1>1, <1>2, <1>4 DEF FileIsNotAhead, InTheFile, DroppedInTheFile, ErrorTypeOK
<1>9. StartsEmpty' /\ FileIsCapped'
  BY <1>1, <1>2, <1>3 DEF ErrorInv, StartsEmpty, FileIsCapped, ErrorPlaceIs
<1>10. QED
  BY <1>4, <1>5, <1>6, <1>7, <1>8, <1>9 DEF ErrorInv, ErrorsHold

(* The list of failures across restarts (errors.controller.ts): no failure is   *)
(* counted twice, none is forgotten but by a death, a failed or late write, a    *)
(* damaged file or the cap, and what is tracked is bounded.                      *)
THEOREM ErrorsAreCounted == ErrorSpec => []ErrorsHold
<1>1. ErrorInit => ErrorInv
  BY ErrorInitInv
<1>2. ErrorInv /\ [ErrorNext]_errorVars => ErrorInv'
  <2> SUFFICES ASSUME ErrorInv, [ErrorNext]_errorVars PROVE ErrorInv'
    OBVIOUS
  <2>1. CASE StartProcess \/ RestoreErrors
    BY <2>1, StartProcessInv, RestoreErrorsInv
  <2>2. CASE FlushErrors \/ RenameErrors \/ FlushFails
    BY <2>2, FlushErrorsInv, RenameErrorsInv, FlushFailsInv
  <2>3. CASE ExitProcess \/ ProcessDies
    BY <2>3, StopsInv
  <2>4. CASE FileIsDamaged
    BY <2>4, FileIsDamagedInv
  <2>5. CASE \E k \in Kind : RecordError(k)
    BY <2>5, RecordErrorInv
  <2>6. CASE UNCHANGED errorVars
    <3>1. UNCHANGED <<errorPlace, groups, overflow, errorFile, temporary, happened, turnedAway, slip>>
      BY <2>6 DEF errorVars
    <3>2. ErrorTypeOK' /\ WriteIsWhole' /\ FileIsNotAhead' /\ FileIsCapped' /\ StartsEmpty'
      BY <3>1 DEF ErrorInv, ErrorTypeOK, WriteIsWhole, FileIsNotAhead, FileIsCapped, StartsEmpty, ErrorPlaceIs, Persistable,
           InTheFile, DroppedInTheFile
    <3>3. ErrorsHold'
      BY <3>1 DEF ErrorInv, ErrorsHold, NeverCountedTwice, CountsSurvive, CapIsKept, Working, ErrorPlaceIs, InTheFile, DroppedInTheFile
    <3>4. FileIsCurrent'
      BY <3>1 DEF ErrorInv, FileIsCurrent, Working, ErrorPlaceIs
    <3>5. QED
      BY <3>2, <3>3, <3>4 DEF ErrorInv
  <2>7. QED
    BY <2>1, <2>2, <2>3, <2>4, <2>5, <2>6 DEF ErrorNext
<1>3. ErrorInv => ErrorsHold
  BY DEF ErrorInv
<1>4. QED
  BY <1>1, <1>2, <1>3, PTL DEF ErrorSpec

-----------------------------------------------------------------------------
(* What a parse saves: sessions stay whole, their turns keep their ids, and    *)
(* what describes them describes what is stored.                               *)

LEMMA StoreInitInv == StoreInit => StoreInv
<1> SUFFICES ASSUME StoreInit PROVE StoreInv
  OBVIOUS
<1>0. \A j \in Parse : job[j] = Idle
  BY DEF StoreInit
<1>1. NoTurns \in Kept /\ NoTurns.saved = FALSE /\ NoTurns.ids = {}
  BY DEF NoTurns, Kept
<1>2. stored \in [Session -> Kept] /\ devStore = stored /\ \A s \in Session : stored[s] = NoTurns
  BY <1>1 DEF StoreInit
<1>3. StoreTypeOK
  BY <1>0, <1>2 DEF StoreInit, StoreTypeOK
<1>4. /\ Idle.pc = "queued" /\ Idle.sid = NoSession /\ Idle.ids = {}
  BY DEF Idle
<1>5. \A j \in Parse : NamedBy(j) /\ SaveOf(j) /\ \A k \in Parse \ {j}: Apart(j, k)
  BY <1>0, <1>4 DEF NamedBy, SaveOf, Apart, Running, Saving
<1>6. ASSUME NEW s \in Session PROVE WholeIs(s) /\ DescribedIs(s)
  <2>1. stored[s].saved = FALSE /\ stored[s].ids = {}
    BY <1>1, <1>2
  <2>2. \A j \in Parse : job[j].pc \notin Running /\ job[j].pc \notin Marking
    BY <1>0, <1>4 DEF Running, Saving, Marking
  <2>3. QED
    BY <2>1, <2>2 DEF WholeIs, DescribedIs
<1>7. QED
  BY <1>1, <1>2, <1>3, <1>5, <1>6 DEF StoreInv, TestStoreAgrees

(* A parse moves to another record.                                           *)
LEMMA ParseMoves ==
  ASSUME StoreTypeOK, NEW j \in Parse, NEW rec, DOMAIN rec = DOMAIN Idle, job' = [job EXCEPT ![j] = rec]
  PROVE  /\ DOMAIN job' = Parse /\ \A k \in Parse: DOMAIN job'[k] = DOMAIN Idle
         /\ job'[j] = rec /\ \A k \in Parse \ {j} : job'[k] = job[k]
<1>1. DOMAIN job' = Parse
  BY DEF StoreTypeOK
<1>2. job'[j] = rec /\ \A k \in Parse \ {j} : job'[k] = job[k]
  BY DEF StoreTypeOK
<1>3. \A k \in Parse: DOMAIN job'[k] = DOMAIN Idle
  BY <1>2 DEF StoreTypeOK
<1>4. QED
  BY <1>1, <1>2, <1>3

LEMMA NoneIsNoSession == \A s \in Session : s # NoSession
  BY DEF Session, NoSession

LEMMA IdleFields == DOMAIN Idle = {"pc", "sid", "taken", "ids", "held", "runs"}
  BY DEF Idle

(* What a throw leaves behind.                                                *)
LEMMA ThrowMeans ==
  ASSUME StoreTypeOK, NEW j \in Parse, Throw(j)
  PROVE  /\ DOMAIN job' = Parse /\ \A k \in Parse: DOMAIN job'[k] = DOMAIN Idle
         /\ job'[j].pc \in {"queued", "failed"} /\ job'[j].sid = NoSession /\ job'[j].ids = {}
         /\ \A k \in Parse \ {j} : job'[k] = job[k]
<1>1. PICK rec : rec = [Idle EXCEPT !.runs = job[j].runs, !.pc = IF job[j].runs < ParseAttempts THEN "queued" ELSE "failed"]
  OBVIOUS
<1>2. DOMAIN rec = DOMAIN Idle /\ rec.pc \in {"queued", "failed"} /\ rec.sid = NoSession /\ rec.ids = {}
  BY <1>1 DEF Idle
<1>3. job' = [job EXCEPT ![j] = rec]
  BY <1>1 DEF Throw
<1>4. QED
  BY <1>2, <1>3, ParseMoves

(* A parse that throws holds nothing; the others go on as they were.          *)
LEMMA ThrowInv ==
  ASSUME StoreInv, NEW j \in Parse, Throw(j), UNCHANGED <<rows, past>>,
         job[j].pc \notin Marking \/ ~stored[job[j].sid].saved
  PROVE  StoreInv'
<1> USE DEF rows, past, marks
<1>t. StoreTypeOK
  BY DEF StoreInv
<1>1. /\ DOMAIN job' = Parse /\ \A k \in Parse: DOMAIN job'[k] = DOMAIN Idle
      /\ job'[j].pc \in {"queued", "failed"} /\ job'[j].sid = NoSession /\ job'[j].ids = {}
      /\ \A k \in Parse \ {j} : job'[k] = job[k]
  BY <1>t, ThrowMeans
<1>2. StoreTypeOK' /\ TestStoreAgrees'
  BY <1>1 DEF StoreInv, StoreTypeOK, TestStoreAgrees
<1>3. job'[j].pc \notin Running
  BY <1>1 DEF Running, Saving
<1>4. ASSUME NEW k \in Parse PROVE NamedBy(k)' /\ SaveOf(k)'
  <2>1. CASE k = j
    BY <2>1, <1>1, <1>3 DEF NamedBy, SaveOf
  <2>2. CASE k # j
    <3>1. job'[k] = job[k] /\ NamedBy(k) /\ SaveOf(k)
      BY <2>2, <1>1 DEF StoreInv
    <3>2. QED
      BY <3>1 DEF NamedBy, SaveOf, TakenElsewhere
  <2>3. QED
    BY <2>1, <2>2
<1>5. ASSUME NEW k \in Parse, NEW l \in Parse \ {k} PROVE Apart(k, l)'
  <2>1. job'[j].pc \notin Saving
    BY <1>1 DEF Saving
  <2>2. QED
    BY <1>1, <2>1 DEF StoreInv, Apart
<1>6. ASSUME NEW s \in Session PROVE WholeIs(s)' /\ DescribedIs(s)'
  <2>1. WholeIs(s)'
    BY DEF StoreInv, WholeIs
  <2>2. \A k \in Parse : job'[k].sid = s => k # j /\ job'[k] = job[k]
    BY <1>1, NoneIsNoSession
  <2>3. ASSUME stored[s].saved, \A k \in Parse: job'[k].sid = s => job'[k].pc \notin Marking
        PROVE  \A k \in Parse: job[k].sid = s => job[k].pc \notin Marking
    BY <2>3, <1>1
  <2>4. DescribedIs(s)'
    <3>1. SUFFICES ASSUME s \notin overlapped PROVE DescribedIs(s)'
      BY DEF DescribedIs
    <3>2. \A k, l \in Parse: job'[k].sid = s /\ job'[l].sid = s /\ {job'[k].pc, job'[l].pc} \subseteq Running => k = l
      BY <3>1, <2>2 DEF StoreInv, DescribedIs
    <3>3. \A k \in Parse: stored[s].saved /\ job'[k].sid = s /\ job'[k].pc \in Marking =>
             /\ stored[s].len = Captured[k].len /\ embedded[s] = 0
             /\ job'[k].pc = "insert" => masks[s] \subseteq job'[k].held
             /\ job'[k].pc = "embed" => masks[s] = {stored[s].len}
      BY <3>1, <2>2 DEF StoreInv, DescribedIs
    <3>4. QED
      BY <3>1, <3>2, <3>3, <2>3 DEF StoreInv, DescribedIs
  <2>5. QED
    BY <2>1, <2>4
<1>7. QED
  BY <1>2, <1>4, <1>5, <1>6 DEF StoreInv

(* A parse that goes on with its session, without touching what is stored.    *)
LEMMA ParseGoesOn ==
  ASSUME StoreInv, NEW j \in Parse, NEW rec, DOMAIN rec = DOMAIN Idle, job' = [job EXCEPT ![j] = rec],
         rec.sid = job[j].sid, job[j].pc \in Running,
         UNCHANGED <<rows, deletes, overlapped, released>>, raced => raced', raced' \in BOOLEAN,
         rec.pc \in Marking <=> job[j].pc \in Marking, rec.pc # "embed",
         rec.pc = "insert" => masks[rec.sid] \subseteq rec.held,
         rec.pc # "write" => rec.ids = {},
         SaveOf(j)', \A k \in Parse \ {j} : Apart(j, k)'
  PROVE  StoreInv'
<1> USE DEF rows, marks
<1>t. StoreTypeOK
  BY DEF StoreInv
<1>1. /\ DOMAIN job' = Parse /\ \A k \in Parse: DOMAIN job'[k] = DOMAIN Idle
      /\ job'[j] = rec /\ \A k \in Parse \ {j} : job'[k] = job[k]
  BY <1>t, ParseMoves
<1>2. StoreTypeOK' /\ TestStoreAgrees'
  BY <1>1 DEF StoreInv, StoreTypeOK, TestStoreAgrees
<1>3. ASSUME NEW k \in Parse PROVE NamedBy(k)' /\ SaveOf(k)'
  <2>1. CASE k = j
    <3>1. NamedBy(j)
      BY DEF StoreInv
    <3>2. QED
      BY <2>1, <1>1, <3>1 DEF NamedBy
  <2>2. CASE k # j
    <3>1. job'[k] = job[k] /\ NamedBy(k) /\ SaveOf(k)
      BY <2>2, <1>1 DEF StoreInv
    <3>2. QED
      BY <3>1 DEF NamedBy, SaveOf, TakenElsewhere
  <2>3. QED
    BY <2>1, <2>2
<1>4. ASSUME NEW k \in Parse, NEW l \in Parse \ {k} PROVE Apart(k, l)'
  <2>1. CASE k = j
    BY <2>1
  <2>2. CASE l = j
    <3>1. Apart(l, k)'
      BY <2>2
    <3>2. QED
      BY <3>1 DEF Apart
  <2>3. CASE k # j /\ l # j
    BY <2>3, <1>1 DEF StoreInv, Apart
  <2>4. QED
    BY <2>1, <2>2, <2>3
<1>5. ASSUME NEW s \in Session PROVE WholeIs(s)' /\ DescribedIs(s)'
  <2>1. WholeIs(s)'
    BY DEF StoreInv, WholeIs
  <2>2. \A k \in Parse : /\ job'[k].sid = job[k].sid
                         /\ job'[k].pc \in Marking <=> job[k].pc \in Marking
                         /\ job'[k].pc \in Running => job[k].pc \in Running
    BY <1>1
  <2>3. DescribedIs(s)'
    <3>1. SUFFICES ASSUME s \notin overlapped PROVE DescribedIs(s)'
      BY DEF DescribedIs
    <3>2. \A k, l \in Parse: job'[k].sid = s /\ job'[l].sid = s /\ {job'[k].pc, job'[l].pc} \subseteq Running => k = l
      BY <3>1, <2>2 DEF StoreInv, DescribedIs
    <3>3. ASSUME NEW k \in Parse, stored[s].saved, job'[k].sid = s, job'[k].pc \in Marking
          PROVE  /\ stored[s].len = Captured[k].len /\ embedded[s] = 0
                 /\ job'[k].pc = "insert" => masks[s] \subseteq job'[k].held
                 /\ job'[k].pc = "embed" => masks[s] = {stored[s].len}
      <4>1. CASE k = j
        BY <4>1, <3>1, <3>3, <2>2, <1>1 DEF StoreInv, DescribedIs
      <4>2. CASE k # j
        BY <4>2, <3>1, <3>3, <2>2, <1>1 DEF StoreInv, DescribedIs
      <4>3. QED
        BY <4>1, <4>2
    <3>4. stored[s].saved /\ (\A k \in Parse: job'[k].sid = s => job'[k].pc \notin Marking) =>
             masks[s] = {stored[s].len} /\ embedded[s] \in {0, stored[s].len}
      BY <3>1, <2>2 DEF StoreInv, DescribedIs
    <3>5. QED
      BY <3>1, <3>2, <3>3, <3>4 DEF DescribedIs
  <2>4. QED
    BY <2>1, <2>3
<1>6. QED
  BY <1>2, <1>3, <1>4, <1>5 DEF StoreInv

(* The lock lets one save of a session in.                                    *)
LEMMA LockSessionInv ==
  ASSUME StoreInv, NEW j \in Parse, Lock(j)
  PROVE  StoreInv'
<1>t. StoreTypeOK /\ NamedBy(j)
  BY DEF StoreInv
<1>1. PICK rec : rec = [job[j] EXCEPT !.pc = "lookup"]
  OBVIOUS
<1>2. DOMAIN job[j] = DOMAIN Idle /\ job[j].pc = "lock" /\ job[j].ids = {}
  BY <1>t DEF StoreTypeOK, Lock, NamedBy
<1>3. /\ DOMAIN rec = DOMAIN Idle /\ rec.pc = "lookup" /\ rec.sid = job[j].sid
      /\ rec.ids = {} /\ rec.held = job[j].held
  BY <1>1, <1>2, IdleFields
<1>4. job' = [job EXCEPT ![j] = rec]
  BY <1>1 DEF Lock, Become
<1>5. job'[j] = rec /\ \A k \in Parse \ {j} : job'[k] = job[k]
  BY <1>3, <1>4, <1>t, ParseMoves
<1>6. rec.pc \notin Marking /\ job[j].pc \notin Marking /\ job[j].pc \in Running
  BY <1>2, <1>3 DEF Marking, Running
<1>7. raced' = (raced \/ \E s \in Session: Open(s)) /\ UNCHANGED <<rows, deletes, overlapped, released>>
  BY DEF Lock
<1>8. ASSUME NEW k \in Parse \ {j} PROVE Apart(j, k)'
  <2>1. job[k].pc \in Saving => job[k].sid # job[j].sid
    BY DEF Lock, Open
  <2>2. job[k].pc \in Saving => \E s \in Session : Open(s)
    BY DEF StoreInv, NamedBy, Open, Running
  <2>3. QED
    BY <2>1, <2>2, <1>3, <1>5, <1>7 DEF Apart
<1>9. SaveOf(j)'
  BY <1>3, <1>5 DEF SaveOf
<1>10. raced \in BOOLEAN
  BY <1>t DEF StoreTypeOK
<1>11. QED
  BY <1>3, <1>4, <1>6, <1>7, <1>8, <1>9, <1>10, ParseGoesOn

(* The lookup: who holds an id of its own, and what the session holds.        *)
LEMMA LookupInv ==
  ASSUME StoreInv, NEW j \in Parse, Lookup(j)
  PROVE  StoreInv'
<1>t. StoreTypeOK /\ NamedBy(j)
  BY DEF StoreInv
<1>0. DOMAIN job[j] = DOMAIN Idle /\ job[j].pc = "lookup" /\ job[j].ids = {}
  BY <1>t DEF StoreTypeOK, Lookup, NamedBy
<1>1. PICK s \in Session : s = job[j].sid
  BY <1>0, <1>t DEF NamedBy, Running, Saving
<1>2. PICK taken : taken = TakenElsewhere(stored, s, Turns(j))
  OBVIOUS
<1>3. PICK rec : rec = [job[j] EXCEPT !.pc = "write", !.taken = taken, !.held = stored[s].ids]
  OBVIOUS
<1>4. /\ DOMAIN rec = DOMAIN Idle /\ rec.pc = "write" /\ rec.sid = s
      /\ rec.ids = {} /\ rec.held = stored[s].ids /\ rec.taken = taken
  BY <1>0, <1>1, <1>3, IdleFields
<1>5. job' = [job EXCEPT ![j] = rec]
  BY <1>0, <1>1, <1>2, <1>3, <1>t DEF Lookup, StoreTypeOK
<1>6. job'[j] = rec /\ \A k \in Parse \ {j} : job'[k] = job[k]
  BY <1>4, <1>5, <1>t, ParseMoves
<1>7. rec.pc \notin Marking /\ job[j].pc \notin Marking /\ job[j].pc \in Running
  BY <1>0, <1>4 DEF Marking, Running, Saving
<1>8. UNCHANGED <<rows, past>>
  BY DEF Lookup
<1>9. ASSUME NEW k \in Parse \ {j} PROVE Apart(j, k)'
  BY <1>0, <1>1, <1>4, <1>6, <1>8 DEF StoreInv, Apart, Saving, past
<1>10. SaveOf(j)'
  <2>1. \A t \in taken : \E o \in Session \ {s}: Own(t) \in stored[o].ids
    BY <1>2 DEF TakenElsewhere
  <2>2. ASSUME NEW id \in stored[s].ids, id.tid \in Turns(j), id.tid \notin Blockless \cup released
        PROVE  id = IF id.tid \in taken THEN Scoped(id.tid, s) ELSE Own(id.tid)
    <3>1. CASE id = Own(id.tid)
      <4>1. id.tid \notin taken
        BY <3>1, <2>1 DEF StoreInv
      <4>2. QED
        BY <3>1, <4>1
    <3>2. CASE id = Scoped(id.tid, s) /\ \E o \in Session \ {s}: Own(id.tid) \in stored[o].ids
      BY <3>2, <2>2, <1>2 DEF TakenElsewhere
    <3>3. QED
      BY <3>1, <3>2, <2>2 DEF StoreInv, WholeIs
  <2>3. UNCHANGED <<stored, released, raced>>
    BY <1>8 DEF rows, past
  <2>4. \A o \in Session : stored'[o] = stored[o]
    BY <2>3
  <2>5. Turns(j)' = Turns(j) /\ job'[j].ids = {} /\ job'[j].taken = taken /\ job'[j].held = stored[s].ids
        /\ job'[j].sid = s
    BY <1>4, <1>6 DEF Turns
  <2>6. taken = TakenElsewhere(stored', s, Turns(j))
    BY <1>2, <2>3
  <2>7. QED
    BY <2>1, <2>2, <2>3, <2>4, <2>5, <2>6 DEF SaveOf
<1>11. raced \in BOOLEAN
  BY <1>t DEF StoreTypeOK
<1>12. QED
  BY <1>1, <1>4, <1>5, <1>7, <1>8, <1>9, <1>10, <1>11, ParseGoesOn DEF past

(* Among the turns that wait, one comes first.                                *)
LEMMA NextIsUnsaved ==
  ASSUME NEW j \in Parse, Unsaved(j) # {} PROVE NextTurn(j) \in Unsaved(j)
<1>1. Captured[j].len \in Nat
  BY StoreAssumption
<1>2. \A id \in Unsaved(j) : id.tid \in Turns(j)
  BY DEF Unsaved, ScopeCollidingTurns, Scoped, Own
<1>3. \A id \in Unsaved(j) : \E i \in 1..Captured[j].len : Transcript[Captured[j].native][i] = id.tid
  BY <1>2 DEF Turns
<1>4. \A id \in Unsaved(j) : Place(j, id) \in Nat
  BY <1>1, <1>3 DEF Place
<1>5. PICK T : T = {Place(j, id) : id \in Unsaved(j)}
  OBVIOUS
<1>6. T \in SUBSET Nat /\ T # {}
  BY <1>4, <1>5
<1>7. PICK x \in T : \A y \in T : x <= y
  BY <1>6, LeastOfNaturals
<1>8. \E id \in Unsaved(j) : \A other \in Unsaved(j) : Place(j, id) <= Place(j, other)
  BY <1>5, <1>7
<1>9. QED
  BY <1>8 DEF NextTurn

(* A turn is saved: nobody else holds its id, and no other session has it,    *)
(* or it brings no block.                                                     *)
LEMMA SaveTurnInv ==
  ASSUME StoreInv, NEW j \in Parse, SaveTurn(j)
  PROVE  StoreInv'
<1>t. StoreTypeOK /\ NamedBy(j) /\ SaveOf(j)
  BY DEF StoreInv
<1>0. DOMAIN job[j] = DOMAIN Idle /\ job[j].pc = "write"
  BY <1>t DEF StoreTypeOK, SaveTurn, Unsaved
<1>1. PICK s \in Session : s = job[j].sid
  BY <1>0, <1>t DEF NamedBy, Running, Saving
<1>2. PICK id : id = NextTurn(j)
  OBVIOUS
<1>3. id \in ScopeCollidingTurns(Turns(j), s, job[j].taken)
  BY <1>0, <1>1, <1>2, NextIsUnsaved DEF SaveTurn, Unsaved
<1>4. \A k \in Parse \ {j} : job[k].pc = "write" => id \notin job[k].ids
  BY <1>2 DEF SaveTurn, WaitsFor
<1>5. UNCHANGED <<rows, past>>
  BY DEF SaveTurn
<1>6. CASE Throw(j)
  BY <1>0, <1>5, <1>6, ThrowInv DEF Marking
<1>7. CASE /\ id.tid \in Blockless \/ \A o \in Session \ {s}: id \notin stored[o].ids
           /\ job' = [job EXCEPT ![j].ids = @ \cup {id}]
  <2>1. PICK rec : rec = [job[j] EXCEPT !.ids = @ \cup {id}]
    OBVIOUS
  <2>2. /\ DOMAIN rec = DOMAIN Idle /\ rec.pc = "write" /\ rec.sid = s
        /\ rec.ids = job[j].ids \cup {id} /\ rec.held = job[j].held /\ rec.taken = job[j].taken
    BY <1>0, <1>1, <2>1, IdleFields
  <2>3. job' = [job EXCEPT ![j] = rec]
    BY <1>7, <2>1, <1>t DEF StoreTypeOK
  <2>4. job'[j] = rec /\ \A k \in Parse \ {j} : job'[k] = job[k]
    BY <2>2, <2>3, <1>t, ParseMoves
  <2>5. rec.pc \notin Marking /\ job[j].pc \notin Marking /\ job[j].pc \in Running
    BY <1>0, <2>2 DEF Marking, Running, Saving
  <2>6. ASSUME NEW k \in Parse \ {j} PROVE Apart(j, k)'
    <3>1. id \notin job[k].ids
      BY <1>4 DEF StoreInv, NamedBy
    <3>2. job[j].ids \cap job[k].ids = {}
      BY DEF StoreInv, Apart
    <3>3. rec.ids \cap job[k].ids = {}
      BY <2>2, <3>1, <3>2
    <3>4. QED
      BY <1>0, <1>1, <2>2, <2>4, <3>3, <1>5 DEF StoreInv, Apart, Saving, past
  <2>7. SaveOf(j)'
    <3>1. UNCHANGED <<stored, released, raced>> /\ Turns(j)' = Turns(j)
      BY <1>5 DEF rows, past, Turns
    <3>2. rec.ids \subseteq ScopeCollidingTurns(Turns(j), s, rec.taken)
      BY <1>0, <1>1, <1>3, <1>t, <2>2 DEF SaveOf
    <3>3. \A i \in rec.ids: i.tid \in Blockless \/ \A o \in Session \ {s}: i \notin stored[o].ids
      BY <1>0, <1>1, <1>7, <1>t, <2>2 DEF SaveOf
    <3>4. QED
      BY <1>0, <1>1, <1>t, <2>2, <2>4, <3>1, <3>2, <3>3 DEF SaveOf, TakenElsewhere
  <2>8. raced \in BOOLEAN
    BY <1>t DEF StoreTypeOK
  <2>9. QED
    BY <1>1, <2>2, <2>3, <2>5, <1>5, <2>6, <2>7, <2>8, ParseGoesOn DEF past
<1>8. QED
  BY <1>1, <1>2, <1>6, <1>7 DEF SaveTurn

LEMMA DeadlockInv ==
  ASSUME StoreInv, NEW j \in Parse, Deadlock(j)
  PROVE  StoreInv'
<1>1. job[j].pc = "write"
  BY DEF Deadlock, WaitsFor, Unsaved
<1>2. QED
  BY <1>1, ThrowInv DEF Deadlock, Marking

LEMMA DeleteMasksInv ==
  ASSUME StoreInv, NEW j \in Parse, DeleteMasks(j)
  PROVE  StoreInv'
<1>t. StoreTypeOK /\ NamedBy(j)
  BY DEF StoreInv
<1>0. DOMAIN job[j] = DOMAIN Idle /\ job[j].pc = "masks" /\ job[j].ids = {}
  BY <1>t DEF StoreTypeOK, DeleteMasks, NamedBy
<1>1. PICK found : found = masks[job[j].sid]
  OBVIOUS
<1>2. PICK rec : rec = [job[j] EXCEPT !.pc = "insert", !.held = found]
  OBVIOUS
<1>3. /\ DOMAIN rec = DOMAIN Idle /\ rec.pc = "insert" /\ rec.sid = job[j].sid
      /\ rec.ids = {} /\ rec.held = found
  BY <1>0, <1>2, IdleFields
<1>4. job' = [job EXCEPT ![j] = rec]
  BY <1>1, <1>2, <1>t DEF DeleteMasks, StoreTypeOK
<1>5. job'[j] = rec /\ \A k \in Parse \ {j} : job'[k] = job[k]
  BY <1>3, <1>4, <1>t, ParseMoves
<1>6. rec.pc \in Marking /\ job[j].pc \in Marking /\ job[j].pc \in Running /\ rec.pc \notin Saving
  BY <1>0, <1>3 DEF Marking, Running, Saving
<1>7. UNCHANGED <<rows, past>>
  BY DEF DeleteMasks
<1>8. ASSUME NEW k \in Parse \ {j} PROVE Apart(j, k)'
  BY <1>3, <1>5, <1>6 DEF Apart
<1>9. SaveOf(j)'
  BY <1>3, <1>5 DEF SaveOf
<1>10. raced \in BOOLEAN
  BY <1>t DEF StoreTypeOK
<1>11. QED
  BY <1>1, <1>3, <1>4, <1>6, <1>7, <1>8, <1>9, <1>10, ParseGoesOn DEF past

(* A parse finds, or makes, the session of its conversation.                  *)
LEMMA IdentifyInv ==
  ASSUME StoreInv, NEW j \in Parse, Identify(j)
  PROVE  StoreInv'
<1> USE DEF rows, marks
<1>t. StoreTypeOK /\ NamedBy(j)
  BY DEF StoreInv
<1>0. DOMAIN job[j] = DOMAIN Idle /\ job[j].pc = "queued" /\ job[j].ids = {}
  BY <1>t DEF StoreTypeOK, Identify, NamedBy
<1>1. PICK n \in Native : n = Captured[j].native
  BY StoreAssumption
<1>2. PICK s : s = Resolved(n, Captured[j].version)
  OBVIOUS
<1>3. s \in Session /\ s[1] = n /\ s # NoSession
  <2>1. Captured[j].version \in Version
    BY StoreAssumption
  <2>2. CASE identity[n] = NoSession
    <3>1. s = <<n, Captured[j].version>>
      BY <1>2, <2>2 DEF Resolved
    <3>2. s \in Session /\ s[1] = n
      BY <3>1, <2>1 DEF Session
    <3>3. QED
      BY <3>2, NoneIsNoSession
  <2>3. CASE identity[n] # NoSession
    <3>1. s = identity[n] /\ s \in {n} \X Version
      BY <1>2, <2>3, <1>t DEF Resolved, StoreTypeOK
    <3>2. s \in Session /\ s[1] = n
      BY <3>1 DEF Session
    <3>3. QED
      BY <3>2, NoneIsNoSession
  <2>4. QED
    BY <2>2, <2>3
<1>4. /\ identity' = [identity EXCEPT ![n] = s]
      /\ job' = [job EXCEPT ![j].pc = "lock", ![j].sid = s, ![j].runs = @ + 1]
      /\ overlapped' = overlapped \cup {q \in {s}: \E k \in Parse \ {j}: job[k].sid = q /\ job[k].pc \in Running}
      /\ UNCHANGED <<stored, devStore, marks, deletes, released, raced>>
  BY <1>1, <1>2 DEF Identify
<1>5. PICK rec : rec = [job[j] EXCEPT !.pc = "lock", !.sid = s, !.runs = @ + 1]
  OBVIOUS
<1>6. DOMAIN rec = DOMAIN Idle /\ rec.pc = "lock" /\ rec.sid = s /\ rec.ids = {}
  BY <1>0, <1>5, IdleFields
<1>7. job' = [job EXCEPT ![j] = rec]
  BY <1>4, <1>5, <1>t DEF StoreTypeOK
<1>8. /\ DOMAIN job' = Parse /\ \A k \in Parse: DOMAIN job'[k] = DOMAIN Idle
      /\ job'[j] = rec /\ \A k \in Parse \ {j} : job'[k] = job[k]
  BY <1>6, <1>7, <1>t, ParseMoves
<1>9. /\ DOMAIN identity' = Native /\ identity'[n] = s
      /\ \A m \in Native : identity[m] # NoSession => identity'[m] = identity[m]
      /\ \A m \in Native : identity'[m] \in {NoSession} \cup {m} \X Version
  <2>1. identity[n] # NoSession => s = identity[n]
    BY <1>2 DEF Resolved
  <2>2. \A m \in Native \ {n} : identity'[m] = identity[m]
    BY <1>4, <1>t DEF StoreTypeOK
  <2>3. DOMAIN identity' = Native /\ identity'[n] = s
    BY <1>4, <1>t DEF StoreTypeOK
  <2>4. s \in {n} \X Version
    BY <1>3 DEF Session
  <2>5. QED
    BY <2>1, <2>2, <2>3, <2>4, <1>t DEF StoreTypeOK
<1>10. StoreTypeOK' /\ TestStoreAgrees'
  BY <1>4, <1>8, <1>9, <1>t DEF StoreInv, StoreTypeOK, TestStoreAgrees
<1>11. \A q \in Session : q[1] \in Native
  BY DEF Session
<1>12. ASSUME NEW k \in Parse PROVE NamedBy(k)' /\ SaveOf(k)'
  <2>1. CASE k = j
    BY <2>1, <1>1, <1>3, <1>6, <1>8, <1>9 DEF NamedBy, SaveOf
  <2>2. CASE k # j
    <3>1. job'[k] = job[k] /\ NamedBy(k) /\ SaveOf(k)
      BY <2>2, <1>8 DEF StoreInv
    <3>2. NamedBy(k)'
      BY <3>1, <1>9, <1>11 DEF NamedBy
    <3>3. SaveOf(k)'
      BY <3>1, <1>4 DEF SaveOf, TakenElsewhere
    <3>4. QED
      BY <3>2, <3>3
  <2>3. QED
    BY <2>1, <2>2
<1>13. ASSUME NEW k \in Parse, NEW l \in Parse \ {k} PROVE Apart(k, l)'
  <2>1. job'[j].pc \notin Saving
    BY <1>6, <1>8 DEF Saving
  <2>2. QED
    BY <2>1, <1>0, <1>4, <1>6, <1>8 DEF StoreInv, Apart
<1>14. ASSUME NEW q \in Session PROVE WholeIs(q)' /\ DescribedIs(q)'
  <2>1. WholeIs(q)'
    <3>1. WholeIs(q) /\ (identity[q[1]] = q => identity'[q[1]] = q)
      BY <1>9, <1>11, NoneIsNoSession DEF StoreInv
    <3>2. QED
      BY <3>1, <1>4 DEF WholeIs
  <2>2. DescribedIs(q)'
    <3>1. SUFFICES ASSUME q \notin overlapped' PROVE DescribedIs(q)'
      BY DEF DescribedIs
    <3>2. DescribedIs(q) /\ q \notin overlapped
      BY <3>1, <1>4 DEF StoreInv
    <3>3. q = s => \A k \in Parse \ {j} : ~(job[k].sid = s /\ job[k].pc \in Running)
      BY <3>1, <1>4
    <3>4. \A k \in Parse : job'[k].pc \in Marking => k # j
      BY <1>6, <1>8 DEF Marking
    <3>5. \A k \in Parse : job[k].pc \in Marking => k # j
      BY <1>0 DEF Marking
    <3>6. \A k, l \in Parse: job'[k].sid = q /\ job'[l].sid = q /\ {job'[k].pc, job'[l].pc} \subseteq Running => k = l
      BY <3>2, <3>3, <1>6, <1>8 DEF DescribedIs
    <3>7. QED
      BY <3>2, <3>4, <3>5, <3>6, <1>4, <1>8 DEF DescribedIs
  <2>3. QED
    BY <2>1, <2>2
<1>15. QED
  BY <1>4, <1>10, <1>12, <1>13, <1>14 DEF StoreInv

(* Beside a save: masks and the embedding.                                    *)
LEMMA BesideTheSave ==
  ASSUME StoreInv, UNCHANGED <<identity, stored, devStore, past>>,
         DOMAIN job' = Parse, \A k \in Parse: DOMAIN job'[k] = DOMAIN Idle,
         DOMAIN masks' = Session, DOMAIN embedded' = Session,
         \A k \in Parse : \/ job'[k] = job[k]
                          \/ /\ job'[k].sid = job[k].sid /\ job'[k].ids = {}
                             /\ job[k].pc \in Marking /\ job'[k].pc \notin Saving,
         \A s \in Session : DescribedIs(s)'
  PROVE  StoreInv'
<1> USE DEF past
<1>1. StoreTypeOK' /\ TestStoreAgrees'
  BY DEF StoreInv, StoreTypeOK, TestStoreAgrees
<1>2. ASSUME NEW k \in Parse PROVE NamedBy(k)' /\ SaveOf(k)'
  <2>1. NamedBy(k) /\ SaveOf(k)
    BY DEF StoreInv
  <2>2. CASE job'[k] = job[k]
    BY <2>1, <2>2 DEF NamedBy, SaveOf, TakenElsewhere
  <2>3. CASE job'[k] # job[k]
    <3>1. job'[k].sid = job[k].sid /\ job'[k].ids = {} /\ job[k].pc \in Running /\ job'[k].pc # "write"
      BY <2>3 DEF Marking, Running, Saving
    <3>2. QED
      BY <2>1, <3>1 DEF NamedBy, SaveOf
  <2>4. QED
    BY <2>2, <2>3
<1>3. ASSUME NEW k \in Parse, NEW l \in Parse \ {k} PROVE Apart(k, l)'
  <2>1. \A m \in Parse : (job'[m].pc \in Saving => job'[m] = job[m]) /\ (job'[m] = job[m] \/ job'[m].ids = {})
    OBVIOUS
  <2>2. QED
    BY <2>1 DEF StoreInv, Apart
<1>4. \A s \in Session : WholeIs(s)'
  BY DEF StoreInv, WholeIs
<1>5. QED
  BY <1>1, <1>2, <1>3, <1>4 DEF StoreInv

(* The rows a save has been given are what the capture calls for: every turn, *)
(* its own id where no other session holds it.                                *)
LEMMA SavedMeans ==
  ASSUME StoreInv, NEW j \in Parse, NEW s \in Session, s = job[j].sid, job[j].pc = "write", Unsaved(j) = {}
  PROVE  /\ job[j].ids = ScopeCollidingTurns(Turns(j), s, job[j].taken)
         /\ \A t \in Turns(j) : \E id \in job[j].ids : id.tid = t
         /\ \A id \in job[j].ids : id = IF id.tid \in job[j].taken THEN Scoped(id.tid, s) ELSE Own(id.tid)
         /\ \A t \in Turns(j) : (IF t \in job[j].taken THEN Scoped(t, s) ELSE Own(t)) \in job[j].ids
         /\ \A t : Own(t) \in job[j].ids => t \notin job[j].taken
<1>1. job[j].ids \subseteq ScopeCollidingTurns(Turns(j), s, job[j].taken)
  BY DEF StoreInv, SaveOf
<1>2. ScopeCollidingTurns(Turns(j), s, job[j].taken) \subseteq job[j].ids
  BY DEF Unsaved
<1>3. job[j].ids = {IF t \in job[j].taken THEN Scoped(t, s) ELSE Own(t): t \in Turns(j)}
  BY <1>1, <1>2 DEF ScopeCollidingTurns
<1>4. \A t : Scoped(t, s).tid = t /\ Own(t).tid = t /\ Scoped(t, s).scope = s /\ Own(t).scope = NoSession
  BY DEF Scoped, Own
<1>5. s # NoSession
  BY NoneIsNoSession
<1>6. ASSUME NEW t, Own(t) \in job[j].ids PROVE t \notin job[j].taken
  <2>1. PICK u \in Turns(j) : Own(t) = IF u \in job[j].taken THEN Scoped(u, s) ELSE Own(u)
    BY <1>3, <1>6
  <2>2. u \notin job[j].taken
    BY <2>1, <1>4, <1>5
  <2>3. u = t
    BY <2>1, <2>2, <1>4
  <2>4. QED
    BY <2>2, <2>3
<1>7. QED
  BY <1>1, <1>2, <1>3, <1>4, <1>6

(* What a commit does to the rows.                                            *)
LEMMA CommitMeans ==
  ASSUME StoreInv, NEW j \in Parse, NEW s \in Session, s = job[j].sid, Commit(j)
  PROVE  /\ DOMAIN stored' = Session /\ stored'[s] = [saved |-> TRUE, len |-> Captured[j].len, ids |-> job[j].ids]
         /\ \A o \in Session \ {s}: /\ stored'[o] \in Kept /\ stored'[o].saved = stored[o].saved
                                    /\ stored'[o].len = stored[o].len /\ stored'[o].ids = stored[o].ids \ job[j].ids
         /\ devStore' = [devStore EXCEPT ![s] = DevSaved(j)]
         /\ embedded' = [embedded EXCEPT ![s] = 0]
         /\ released' = released \cup {id.tid: id \in stored[s].ids \ job[j].ids}
         /\ UNCHANGED <<identity, masks, hand, deletes, overlapped, raced>>
<1>1. stored' = [o \in Session |->
                IF o = s THEN [saved |-> TRUE, len |-> Captured[j].len, ids |-> job[j].ids]
                ELSE [stored[o] EXCEPT !.ids = @ \ job[j].ids]]
  BY DEF Commit
<1>2. ASSUME NEW o \in Session \ {s}
      PROVE  /\ stored'[o] \in Kept /\ stored'[o].saved = stored[o].saved
             /\ stored'[o].len = stored[o].len /\ stored'[o].ids = stored[o].ids \ job[j].ids
  <2>1. stored[o] \in Kept
    BY DEF StoreInv, StoreTypeOK
  <2>2. stored'[o] = [stored[o] EXCEPT !.ids = stored[o].ids \ job[j].ids]
    BY <1>1
  <2>3. QED
    BY <2>1, <2>2 DEF Kept
<1>3. DOMAIN stored' = Session /\ stored'[s] = [saved |-> TRUE, len |-> Captured[j].len, ids |-> job[j].ids]
  BY <1>1
<1>4. QED
  BY <1>2, <1>3 DEF Commit

(* A save is committed: rows of other sessions lose what it holds, which no   *)
(* turn with content can be.                                                  *)
LEMMA CommitSaveInv ==
  ASSUME StoreInv, NEW j \in Parse, Commit(j)
  PROVE  StoreInv'
<1>t. StoreTypeOK /\ NamedBy(j) /\ SaveOf(j)
  BY DEF StoreInv
<1>0. DOMAIN job[j] = DOMAIN Idle /\ job[j].pc = "write" /\ Unsaved(j) = {}
  BY <1>t DEF StoreTypeOK, Commit
<1>1. PICK s \in Session : s = job[j].sid
  BY <1>0, <1>t DEF NamedBy, Running, Saving
<1>2. s[1] = Captured[j].native /\ identity[s[1]] = s /\ Captured[j].len \in Nat
  BY <1>1, <1>t, NoneIsNoSession, StoreAssumption DEF NamedBy
<1>3. PICK rec : rec = [Idle EXCEPT !.pc = "masks", !.sid = s, !.runs = job[j].runs]
  OBVIOUS
<1>4. DOMAIN rec = DOMAIN Idle /\ rec.pc = "masks" /\ rec.sid = s /\ rec.ids = {}
  BY <1>3 DEF Idle
<1>5. job' = [job EXCEPT ![j] = rec]
  BY <1>1, <1>3 DEF Commit
<1>6. /\ DOMAIN job' = Parse /\ \A k \in Parse: DOMAIN job'[k] = DOMAIN Idle
      /\ job'[j] = rec /\ \A k \in Parse \ {j} : job'[k] = job[k]
  BY <1>4, <1>5, <1>t, ParseMoves
<1>c. /\ DOMAIN stored' = Session /\ stored'[s] = [saved |-> TRUE, len |-> Captured[j].len, ids |-> job[j].ids]
      /\ \A o \in Session \ {s}: /\ stored'[o] \in Kept /\ stored'[o].saved = stored[o].saved
                                 /\ stored'[o].len = stored[o].len /\ stored'[o].ids = stored[o].ids \ job[j].ids
      /\ devStore' = [devStore EXCEPT ![s] = DevSaved(j)]
      /\ embedded' = [embedded EXCEPT ![s] = 0]
      /\ released' = released \cup {id.tid: id \in stored[s].ids \ job[j].ids}
      /\ UNCHANGED <<identity, masks, hand, deletes, overlapped, raced>>
  BY <1>1, CommitMeans
<1>7. /\ stored'[s].saved = TRUE /\ stored'[s].len = Captured[j].len /\ stored'[s].ids = job[j].ids
      /\ \A o \in Session \ {s}: /\ stored'[o] \in Kept /\ stored'[o].saved = stored[o].saved
                                 /\ stored'[o].len = stored[o].len /\ stored'[o].ids = stored[o].ids \ job[j].ids
      /\ released' = released \cup {id.tid: id \in stored[s].ids \ job[j].ids}
      /\ UNCHANGED <<identity, masks, hand, deletes, overlapped, raced>>
  BY <1>c
<1>8. /\ job[j].ids = ScopeCollidingTurns(Turns(j), s, job[j].taken)
      /\ \A t \in Turns(j) : \E id \in job[j].ids : id.tid = t
      /\ \A id \in job[j].ids : id = IF id.tid \in job[j].taken THEN Scoped(id.tid, s) ELSE Own(id.tid)
      /\ \A t : Own(t) \in job[j].ids => t \notin job[j].taken
  BY <1>0, <1>1, SavedMeans
<1>9. \A o \in Session \ {s} : \A id \in stored[o].ids : id \in job[j].ids => id.tid \in Blockless
  BY <1>0, <1>1, <1>t DEF SaveOf
<1>10. \A o \in Session : \A id \in stored[o].ids : id \in stored'[o].ids \/ id.tid \in Blockless \cup released'
  <2>1. \A id \in stored[s].ids : id \in stored'[s].ids \/ id.tid \in released'
    BY <1>7
  <2>2. QED
    BY <1>7, <1>9, <2>1
<1>11. \A t : Own(t).tid = t
  BY DEF Own
<1>12. \A t : \A o \in Session : Own(t) \in stored[o].ids => Own(t) \in stored'[o].ids \/ t \in Blockless \cup released'
  BY <1>10, <1>11
<1>13. job[j].ids \subseteq TurnId
  <2>1. \A t \in Turns(j) : t \in Tid
    <3>1. Captured[j].native \in Native /\ Captured[j].len \in Nat /\ Captured[j].len <= Len(Transcript[Captured[j].native])
      BY StoreAssumption
    <3>2. Transcript[Captured[j].native] \in Seq(Tid)
      BY <3>1, StoreAssumption
    <3>3. QED
      BY <3>1, <3>2 DEF Turns
  <2>2. QED
    BY <2>1, <1>8 DEF ScopeCollidingTurns, Scoped, Own, TurnId
<1>14. StoreTypeOK'
  <2>1. stored' \in [Session -> Kept]
    <3>1. DOMAIN stored' = Session /\ stored'[s] \in Kept
      BY <1>2, <1>13, <1>c DEF Kept
    <3>2. stored' = [o \in Session |-> stored'[o]]
      BY DEF Commit
    <3>3. \A o \in Session : stored'[o] \in Kept
      BY <3>1, <1>7
    <3>4. QED
      BY <3>2, <3>3
  <2>2. DevSaved(j) \in Kept
    <3>1. \A taken : ScopeCollidingTurns(Turns(j), s, taken) \subseteq TurnId
      <4>1. \A t \in Turns(j) : t \in Tid
        <5>1. Captured[j].native \in Native /\ Captured[j].len \in Nat /\ Captured[j].len <= Len(Transcript[Captured[j].native])
          BY StoreAssumption
        <5>2. Transcript[Captured[j].native] \in Seq(Tid)
          BY <5>1, StoreAssumption
        <5>3. QED
          BY <5>1, <5>2 DEF Turns
      <4>2. QED
        BY <4>1 DEF ScopeCollidingTurns, Scoped, Own, TurnId
    <3>2. QED
      BY <3>1, <1>1, <1>2 DEF DevSaved, Kept
  <2>3. devStore' \in [Session -> Kept] /\ DOMAIN embedded' = Session
    BY <2>2, <1>t, <1>c DEF StoreTypeOK
  <2>4. QED
    BY <2>1, <2>3, <1>6, <1>7, <1>t DEF StoreTypeOK
<1>15. TestStoreAgrees'
  <2>1. SUFFICES ASSUME ~raced PROVE devStore' = stored'
    BY <1>7 DEF TestStoreAgrees
  <2>2. devStore = stored /\ job[j].taken = TakenElsewhere(stored, s, Turns(j))
    BY <2>1, <1>0, <1>1, <1>t DEF StoreInv, TestStoreAgrees, SaveOf
  <2>3. DevSaved(j) = stored'[s]
    BY <2>2, <1>1, <1>8, <1>c DEF DevSaved
  <2>4. ASSUME NEW o \in Session \ {s}, NEW id \in job[j].ids PROVE id \notin stored[o].ids
    <3>1. SUFFICES ASSUME id \in stored[o].ids PROVE FALSE
      OBVIOUS
    <3>2. id = Own(id.tid) \/ id = Scoped(id.tid, o)
      BY <3>1 DEF StoreInv, WholeIs
    <3>3. o # NoSession /\ s # NoSession /\ o # s
      BY NoneIsNoSession
    <3>4. id.tid \notin job[j].taken /\ id = Own(id.tid)
      BY <1>8, <3>2, <3>3 DEF Own, Scoped
    <3>5. PICK t \in Turns(j) : id = IF t \in job[j].taken THEN Scoped(t, s) ELSE Own(t)
      BY <1>8 DEF ScopeCollidingTurns
    <3>6. t = id.tid
      BY <3>5 DEF Own, Scoped
    <3>7. id.tid \in job[j].taken
      BY <2>2, <3>1, <3>4, <3>5, <3>6 DEF TakenElsewhere
    <3>8. QED
      BY <3>4, <3>7
  <2>5. \A o \in Session \ {s} : stored'[o] = stored[o]
    <3>1. ASSUME NEW o \in Session \ {s} PROVE stored'[o] = stored[o]
      <4>1. stored[o].ids \ job[j].ids = stored[o].ids
        BY <2>4
      <4>2. stored'[o] \in Kept /\ stored[o] \in Kept
        BY <1>7, <1>t DEF StoreTypeOK
      <4>3. stored'[o].saved = stored[o].saved /\ stored'[o].len = stored[o].len /\ stored'[o].ids = stored[o].ids
        BY <1>7, <4>1
      <4>4. QED
        BY <4>2, <4>3 DEF Kept
    <3>2. QED
      BY <3>1
  <2>6. devStore' = [stored EXCEPT ![s] = stored'[s]] /\ stored \in [Session -> Kept] /\ stored' \in [Session -> Kept]
    BY <2>2, <2>3, <1>t, <1>14, <1>c DEF StoreTypeOK
  <2>7. QED
    BY <2>5, <2>6
<1>16. ASSUME NEW k \in Parse PROVE NamedBy(k)' /\ SaveOf(k)'
  <2>1. CASE k = j
    <3>1. job'[k] = rec /\ identity' = identity
      BY <2>1, <1>6, <1>7
    <3>2. QED
      BY <2>1, <3>1, <1>2, <1>4, NoneIsNoSession DEF NamedBy, SaveOf
  <2>2. CASE k # j
    <3>1. job'[k] = job[k] /\ NamedBy(k) /\ SaveOf(k)
      BY <2>2, <1>6 DEF StoreInv
    <3>2. NamedBy(k)'
      BY <3>1, <1>7 DEF NamedBy
    <3>3. SaveOf(k)'
      <4>1. SUFFICES ASSUME job[k].pc = "write" PROVE SaveOf(k)'
        BY <3>1 DEF SaveOf
      <4>2. PICK o \in Session : o = job[k].sid
        BY <4>1, <3>1 DEF NamedBy, Running, Saving
      <4>3. o # s /\ raced /\ job[k].ids \cap job[j].ids = {}
        BY <4>1, <4>2, <2>2, <1>0, <1>1 DEF StoreInv, Apart, Saving
      <4>4. \A q \in Session, id \in job[k].ids : id \in stored'[q].ids => id \in stored[q].ids
        BY <4>3, <1>7
      <4>5. stored'[o].ids \subseteq stored[o].ids /\ released \subseteq released' /\ Turns(k)' = Turns(k)
        BY <4>3, <1>7 DEF Turns
      <4>6. \A t \in job[k].taken: t \in Blockless \cup released' \/ \E q \in Session \ {o}: Own(t) \in stored'[q].ids
        BY <4>1, <4>2, <4>5, <3>1, <1>12 DEF SaveOf
      <4>7. /\ job[k].ids \subseteq ScopeCollidingTurns(Turns(k), o, job[k].taken)
            /\ \A id \in job[k].ids: id.tid \in Blockless \/ \A q \in Session \ {o}: id \notin stored'[q].ids
            /\ stored'[o].ids \subseteq job[k].held
            /\ \A id \in job[k].held: id.tid \in Turns(k) \ (Blockless \cup released') =>
                  id = IF id.tid \in job[k].taken THEN Scoped(id.tid, o) ELSE Own(id.tid)
        BY <4>1, <4>2, <4>4, <4>5, <3>1 DEF SaveOf
      <4>8. QED
        BY <4>2, <4>3, <4>5, <4>6, <4>7, <3>1, <1>7 DEF SaveOf
    <3>4. QED
      BY <3>2, <3>3
  <2>3. QED
    BY <2>1, <2>2
<1>17. ASSUME NEW k \in Parse, NEW l \in Parse \ {k} PROVE Apart(k, l)'
  <2>1. job'[j].pc \notin Saving
    BY <1>4, <1>6 DEF Saving
  <2>2. QED
    BY <2>1, <1>4, <1>6, <1>7 DEF StoreInv, Apart
<1>18. WholeIs(s)'
  <2>1. \A len : len = Captured[j].len => TurnsOf(s, len) = Turns(j)
    BY <1>2 DEF TurnsOf, Turns
  <2>2. ASSUME NEW id \in job[j].ids, id # Own(id.tid)
        PROVE  /\ id = Scoped(id.tid, s)
               /\ id.tid \in Blockless \cup released' \/ \E o \in Session \ {s}: Own(id.tid) \in stored'[o].ids
    <3>1. id.tid \in job[j].taken /\ id = Scoped(id.tid, s)
      BY <2>2, <1>8
    <3>2. id.tid \in Blockless \cup released \/ \E o \in Session \ {s}: Own(id.tid) \in stored[o].ids
      BY <3>1, <1>0, <1>1, <1>t DEF SaveOf
    <3>3. QED
      BY <3>1, <3>2, <1>7, <1>12
  <2>3. identity'[s[1]] = s
    BY <1>2, <1>7
  <2>4. \A t \in TurnsOf(s, stored'[s].len) : \E id \in stored'[s].ids: id.tid = t
    BY <2>1, <1>7, <1>8
  <2>5. QED
    BY <2>2, <2>3, <2>4, <1>7 DEF WholeIs, TurnsOf
<1>19. ASSUME NEW o \in Session \ {s} PROVE WholeIs(o)'
  <2>1. WholeIs(o) /\ stored'[o].ids \subseteq stored[o].ids
    BY <1>7 DEF StoreInv
  <2>2. ASSUME stored[o].saved, NEW t \in TurnsOf(o, stored[o].len), t \notin Blockless
        PROVE  \E id \in stored'[o].ids: id.tid = t
    <3>1. PICK id \in stored[o].ids : id.tid = t
      BY <2>1, <2>2 DEF WholeIs
    <3>2. id \notin job[j].ids
      BY <3>1, <2>2, <1>9
    <3>3. QED
      BY <3>1, <3>2, <1>7
  <2>3. ASSUME NEW id \in stored'[o].ids, id # Own(id.tid)
        PROVE  /\ id = Scoped(id.tid, o)
               /\ id.tid \in Blockless \cup released' \/ \E q \in Session \ {o}: Own(id.tid) \in stored'[q].ids
    BY <2>1, <2>3, <1>7, <1>12 DEF WholeIs
  <2>4. QED
    BY <2>1, <2>2, <2>3, <1>7 DEF WholeIs, TurnsOf
<1>20. ASSUME NEW o \in Session, NEW q \in Session \ {o} PROVE stored'[o].ids \cap stored'[q].ids = {}
  BY <1>7 DEF StoreInv
<1>21. DescribedIs(s)'
  <2>1. SUFFICES ASSUME s \notin overlapped PROVE DescribedIs(s)'
    BY <1>7 DEF DescribedIs
  <2>2. job[j].pc \in Running /\ rec.pc \in Running /\ rec.pc \in Marking
    BY <1>0, <1>4 DEF Running, Saving, Marking
  <2>3. \A k, l \in Parse: job'[k].sid = s /\ job'[l].sid = s /\ {job'[k].pc, job'[l].pc} \subseteq Running => k = l
    <3>1. \A k \in Parse : job'[k].sid = s /\ job'[k].pc \in Running => job[k].sid = s /\ job[k].pc \in Running
      BY <2>2, <1>1, <1>6
    <3>2. QED
      BY <3>1, <2>1 DEF StoreInv, DescribedIs
  <2>4. \A k \in Parse : job'[k].sid = s /\ job'[k].pc \in Marking => k = j
    <3>1. \A k \in Parse : job'[k].pc \in Marking => job'[k].pc \in Running
      BY DEF Marking, Running
    <3>2. QED
      BY <3>1, <2>2, <2>3, <1>4, <1>6
  <2>5. embedded'[s] = 0
    BY <1>t, <1>c DEF StoreTypeOK
  <2>6. QED
    BY <2>2, <2>3, <2>4, <2>5, <1>4, <1>6, <1>7 DEF DescribedIs
<1>22. ASSUME NEW o \in Session \ {s} PROVE DescribedIs(o)'
  <2>1. \A k \in Parse : (job'[k].sid = o => job'[k] = job[k]) /\ (job[k].sid = o => job'[k] = job[k])
    BY <1>1, <1>4, <1>6
  <2>2. embedded'[o] = embedded[o]
    BY <1>t, <1>c DEF StoreTypeOK
  <2>3. QED
    BY <2>1, <2>2, <1>7 DEF StoreInv, DescribedIs
<1>23. QED
  BY <1>14, <1>15, <1>16, <1>17, <1>18, <1>19, <1>20, <1>21, <1>22 DEF StoreInv

(* Masks are inserted where the session still is; they describe what is       *)
(* stored if nothing else ran on the session.                                 *)
LEMMA InsertMasksInv ==
  ASSUME StoreInv, NEW j \in Parse, InsertMasks(j)
  PROVE  StoreInv'
<1>t. StoreTypeOK /\ NamedBy(j)
  BY DEF StoreInv
<1>0. DOMAIN job[j] = DOMAIN Idle /\ job[j].pc = "insert" /\ job[j].ids = {}
  BY <1>t DEF StoreTypeOK, InsertMasks, NamedBy
<1>1. PICK s \in Session : s = job[j].sid
  BY <1>0, <1>t DEF NamedBy, Running, Saving
<1>2. CASE ~stored[s].saved
  <2>1. Throw(j) /\ UNCHANGED <<rows, past>>
    BY <1>1, <1>2 DEF InsertMasks, rows, marks
  <2>2. QED
    BY <1>1, <1>2, <2>1, ThrowInv
<1>3. CASE stored[s].saved
  <2>1. /\ masks' = [masks EXCEPT ![s] = (@ \ job[j].held) \cup {Captured[j].len}]
        /\ job' = [job EXCEPT ![j].pc = "embed", ![j].held = {}]
        /\ UNCHANGED <<identity, stored, devStore, hand, embedded, past>>
    BY <1>1, <1>3 DEF InsertMasks
  <2>2. PICK rec : rec = [job[j] EXCEPT !.pc = "embed", !.held = {}]
    OBVIOUS
  <2>3. DOMAIN rec = DOMAIN Idle /\ rec.pc = "embed" /\ rec.sid = s /\ rec.ids = {}
    BY <1>0, <1>1, <2>2, IdleFields
  <2>4. job' = [job EXCEPT ![j] = rec]
    BY <2>1, <2>2, <1>t DEF StoreTypeOK
  <2>5. /\ DOMAIN job' = Parse /\ \A k \in Parse: DOMAIN job'[k] = DOMAIN Idle
        /\ job'[j] = rec /\ \A k \in Parse \ {j} : job'[k] = job[k]
    BY <2>3, <2>4, <1>t, ParseMoves
  <2>6. /\ DOMAIN masks' = Session /\ masks'[s] = (masks[s] \ job[j].held) \cup {Captured[j].len}
        /\ \A o \in Session \ {s} : masks'[o] = masks[o]
    BY <2>1, <1>t DEF StoreTypeOK
  <2>7. job[j].pc \in Marking /\ job[j].pc \in Running /\ rec.pc \in Marking /\ rec.pc \in Running /\ rec.pc \notin Saving
    BY <1>0, <2>3 DEF Marking, Running, Saving
  <2>8. DescribedIs(s)'
    <3>1. SUFFICES ASSUME s \notin overlapped PROVE DescribedIs(s)'
      BY <2>1 DEF DescribedIs, past
    <3>2. \A k, l \in Parse: job'[k].sid = s /\ job'[l].sid = s /\ {job'[k].pc, job'[l].pc} \subseteq Running => k = l
      BY <3>1, <2>3, <2>5, <2>7, <1>1 DEF StoreInv, DescribedIs
    <3>3. \A k \in Parse : job'[k].sid = s /\ job'[k].pc \in Marking => k = j
      <4>1. \A k \in Parse : job'[k].pc \in Marking => job'[k].pc \in Running
        BY DEF Marking, Running
      <4>2. QED
        BY <4>1, <3>2, <2>3, <2>5, <2>7
    <3>4. stored[s].len = Captured[j].len /\ embedded[s] = 0 /\ masks[s] \subseteq job[j].held
      BY <3>1, <2>7, <1>0, <1>1, <1>3 DEF StoreInv, DescribedIs
    <3>5. masks'[s] = {stored[s].len}
      BY <3>4, <2>6
    <3>6. UNCHANGED <<stored, embedded>>
      BY <2>1
    <3>7. QED
      BY <3>2, <3>3, <3>4, <3>5, <3>6, <2>3, <2>5, <2>7 DEF DescribedIs
  <2>9. ASSUME NEW o \in Session \ {s} PROVE DescribedIs(o)'
    <3>1. \A k \in Parse : (job'[k].sid = o => job'[k] = job[k]) /\ (job[k].sid = o => job'[k] = job[k])
      BY <1>1, <2>3, <2>5
    <3>2. UNCHANGED <<stored, embedded, overlapped>> /\ masks'[o] = masks[o] /\ DescribedIs(o)
      BY <2>1, <2>6 DEF StoreInv, past
    <3>3. QED
      BY <3>1, <3>2 DEF DescribedIs
  <2>10. \A k \in Parse : \/ job'[k] = job[k]
                          \/ /\ job'[k].sid = job[k].sid /\ job'[k].ids = {}
                             /\ job[k].pc \in Marking /\ job'[k].pc \notin Saving
    BY <1>1, <2>3, <2>5, <2>7
  <2>11. DOMAIN embedded' = Session
    BY <2>1, <1>t DEF StoreTypeOK
  <2>12. QED
    BY <2>1, <2>5, <2>6, <2>8, <2>9, <2>10, <2>11, BesideTheSave
<1>4. QED
  BY <1>2, <1>3

(* The embedding is computed, or not.                                         *)
LEMMA EmbedInv ==
  ASSUME StoreInv, NEW j \in Parse, Embed(j)
  PROVE  StoreInv'
<1>t. StoreTypeOK /\ NamedBy(j)
  BY DEF StoreInv
<1>0. DOMAIN job[j] = DOMAIN Idle /\ job[j].pc = "embed" /\ job[j].ids = {}
  BY <1>t DEF StoreTypeOK, Embed, NamedBy
<1>1. PICK s \in Session : s = job[j].sid
  BY <1>0, <1>t DEF NamedBy, Running, Saving
<1>2. PICK e \in {embedded[s], Captured[j].len} :
        embedded' = [embedded EXCEPT ![s] = IF stored[s].saved THEN e ELSE embedded[s]]
  BY <1>1, <1>t DEF Embed, StoreTypeOK
<1>3. PICK rec : rec = [job[j] EXCEPT !.pc = "parsed"]
  OBVIOUS
<1>4. DOMAIN rec = DOMAIN Idle /\ rec.pc = "parsed" /\ rec.sid = s /\ rec.ids = {}
  BY <1>0, <1>1, <1>3, IdleFields
<1>5. job' = [job EXCEPT ![j] = rec]
  BY <1>3 DEF Embed, Become
<1>6. /\ DOMAIN job' = Parse /\ \A k \in Parse: DOMAIN job'[k] = DOMAIN Idle
      /\ job'[j] = rec /\ \A k \in Parse \ {j} : job'[k] = job[k]
  BY <1>4, <1>5, <1>t, ParseMoves
<1>7. /\ DOMAIN embedded' = Session /\ \A o \in Session \ {s} : embedded'[o] = embedded[o]
      /\ stored[s].saved => embedded'[s] \in {embedded[s], Captured[j].len}
  BY <1>2, <1>t DEF StoreTypeOK
<1>8. UNCHANGED <<identity, stored, devStore, masks, hand, past>>
  BY DEF Embed
<1>9. job[j].pc \in Marking /\ job[j].pc \in Running /\ rec.pc \notin Marking /\ rec.pc \notin Running /\ rec.pc \notin Saving
  BY <1>0, <1>4 DEF Marking, Running, Saving
<1>10. DescribedIs(s)'
  <2>1. SUFFICES ASSUME s \notin overlapped PROVE DescribedIs(s)'
    BY <1>8 DEF DescribedIs, past
  <2>2. \A k \in Parse : job[k].sid = s /\ job[k].pc \in Running => k = j
    BY <2>1, <1>1, <1>9 DEF StoreInv, DescribedIs
  <2>3. \A k \in Parse : ~(job'[k].sid = s /\ job'[k].pc \in Running)
    BY <2>2, <1>6, <1>9
  <2>4. \A k \in Parse : ~(job'[k].sid = s /\ job'[k].pc \in Marking)
    BY <2>3 DEF Marking, Running
  <2>5. stored[s].saved => stored[s].len = Captured[j].len /\ embedded[s] = 0 /\ masks[s] = {stored[s].len}
    BY <2>1, <1>0, <1>1, <1>9 DEF StoreInv, DescribedIs
  <2>6. QED
    BY <2>3, <2>4, <2>5, <1>7, <1>8 DEF DescribedIs
<1>11. ASSUME NEW o \in Session \ {s} PROVE DescribedIs(o)'
  <2>1. \A k \in Parse : (job'[k].sid = o => job'[k] = job[k]) /\ (job[k].sid = o => job'[k] = job[k])
    BY <1>1, <1>4, <1>6
  <2>2. QED
    BY <2>1, <1>7, <1>8 DEF StoreInv, DescribedIs, past
<1>12. \A k \in Parse : \/ job'[k] = job[k]
                        \/ /\ job'[k].sid = job[k].sid /\ job'[k].ids = {}
                           /\ job[k].pc \in Marking /\ job'[k].pc \notin Saving
  BY <1>1, <1>4, <1>6, <1>9
<1>13. DOMAIN masks' = Session
  BY <1>8, <1>t DEF StoreTypeOK
<1>14. QED
  BY <1>6, <1>7, <1>8, <1>10, <1>11, <1>12, <1>13, BesideTheSave

(* A person's masks are beside everything else.                               *)
LEMMA HandsInv ==
  ASSUME StoreInv, UNCHANGED <<identity, stored, devStore, masks, embedded, job, past>>
  PROVE  StoreInv'
<1>1. StoreTypeOK
  BY DEF StoreInv
<1>2. \A s \in Session : DescribedIs(s)'
  BY DEF StoreInv, DescribedIs, past
<1>3. QED
  BY <1>1, <1>2, BesideTheSave DEF StoreTypeOK

(* A session is deleted, with no save of it open.                             *)
LEMMA SessionDeletedInv ==
  ASSUME StoreInv, NEW s \in Session, SessionDeleted(s)
  PROVE  StoreInv'
<1>t. StoreTypeOK
  BY DEF StoreInv
<1>1. NoTurns \in Kept /\ NoTurns.saved = FALSE /\ NoTurns.ids = {}
  BY DEF NoTurns, Kept
<1>2. /\ stored' = [stored EXCEPT ![s] = NoTurns] /\ devStore' = [devStore EXCEPT ![s] = NoTurns]
      /\ masks' = [masks EXCEPT ![s] = {}] /\ embedded' = [embedded EXCEPT ![s] = 0]
      /\ released' = released \cup {id.tid: id \in stored[s].ids}
      /\ raced' = (raced \/ \E o \in Session: Open(o)) /\ ~Open(s)
      /\ UNCHANGED <<identity, job, overlapped>>
  BY DEF SessionDeleted
<1>3. /\ stored' \in [Session -> Kept] /\ devStore' \in [Session -> Kept] /\ stored'[s] = NoTurns
      /\ DOMAIN masks' = Session /\ DOMAIN embedded' = Session
      /\ \A o \in Session \ {s} : /\ stored'[o] = stored[o]
                                  /\ masks'[o] = masks[o] /\ embedded'[o] = embedded[o]
  BY <1>1, <1>2, <1>t DEF StoreTypeOK
<1>4. StoreTypeOK' /\ TestStoreAgrees'
  BY <1>2, <1>3, <1>t DEF StoreInv, StoreTypeOK, TestStoreAgrees
<1>5. \A t : Own(t).tid = t
  BY DEF Own
<1>6. \A t : \A o \in Session : Own(t) \in stored[o].ids => Own(t) \in stored'[o].ids \/ t \in released'
  BY <1>2, <1>3, <1>5
<1>7. ASSUME NEW k \in Parse PROVE NamedBy(k)' /\ SaveOf(k)'
  <2>1. NamedBy(k) /\ SaveOf(k) /\ job'[k] = job[k]
    BY <1>2 DEF StoreInv
  <2>2. SaveOf(k)'
    <3>1. SUFFICES ASSUME job[k].pc = "write" PROVE SaveOf(k)'
      BY <2>1 DEF SaveOf
    <3>2. PICK o \in Session : o = job[k].sid
      BY <3>1, <2>1 DEF NamedBy, Running, Saving
    <3>3. o # s /\ raced'
      BY <3>1, <3>2, <1>2 DEF Open, Saving
    <3>4. \A q \in Session : stored'[q].ids \subseteq stored[q].ids
      BY <1>1, <1>3
    <3>5. stored'[o] = stored[o] /\ released \subseteq released' /\ Turns(k)' = Turns(k)
      BY <3>3, <1>2, <1>3 DEF Turns
    <3>6. \A t \in job[k].taken: t \in Blockless \cup released' \/ \E q \in Session \ {o}: Own(t) \in stored'[q].ids
      BY <3>1, <3>2, <3>5, <2>1, <1>6 DEF SaveOf
    <3>7. /\ job[k].ids \subseteq ScopeCollidingTurns(Turns(k), o, job[k].taken)
          /\ \A id \in job[k].ids: id.tid \in Blockless \/ \A q \in Session \ {o}: id \notin stored'[q].ids
          /\ stored'[o].ids \subseteq job[k].held
          /\ \A id \in job[k].held: id.tid \in Turns(k) \ (Blockless \cup released') =>
                id = IF id.tid \in job[k].taken THEN Scoped(id.tid, o) ELSE Own(id.tid)
      BY <3>1, <3>2, <3>4, <3>5, <2>1 DEF SaveOf
    <3>8. QED
      BY <3>2, <3>3, <3>5, <3>6, <3>7, <2>1 DEF SaveOf
  <2>3. QED
    BY <2>1, <2>2, <1>2 DEF NamedBy
<1>8. ASSUME NEW k \in Parse, NEW l \in Parse \ {k} PROVE Apart(k, l)'
  BY <1>2 DEF StoreInv, Apart
<1>9. WholeIs(s)'
  BY <1>1, <1>3 DEF WholeIs
<1>10. ASSUME NEW o \in Session \ {s} PROVE WholeIs(o)'
  <2>1. WholeIs(o) /\ stored'[o] = stored[o]
    BY <1>3 DEF StoreInv
  <2>2. ASSUME NEW id \in stored[o].ids, id # Own(id.tid)
        PROVE  /\ id = Scoped(id.tid, o)
               /\ id.tid \in Blockless \cup released' \/ \E q \in Session \ {o}: Own(id.tid) \in stored'[q].ids
    BY <2>1, <2>2, <1>2, <1>6 DEF WholeIs
  <2>3. QED
    BY <2>1, <2>2, <1>2 DEF WholeIs, TurnsOf
<1>11. ASSUME NEW o \in Session, NEW q \in Session \ {o} PROVE stored'[o].ids \cap stored'[q].ids = {}
  BY <1>1, <1>3 DEF StoreInv
<1>12. ASSUME NEW o \in Session PROVE DescribedIs(o)'
  BY <1>1, <1>2, <1>3 DEF StoreInv, DescribedIs
<1>13. QED
  BY <1>4, <1>7, <1>8, <1>9, <1>10, <1>11, <1>12 DEF StoreInv

LEMMA StoreNextInv == StoreInv /\ [StoreNext]_storeVars => StoreInv'
<1> SUFFICES ASSUME StoreInv, [StoreNext]_storeVars PROVE StoreInv'
  OBVIOUS
<1>1. ASSUME NEW j \in Parse, ParseJob(j) PROVE StoreInv'
  BY <1>1, IdentifyInv, LockSessionInv, LookupInv, SaveTurnInv, DeadlockInv, CommitSaveInv, DeleteMasksInv,
     InsertMasksInv, EmbedInv DEF ParseJob
<1>2. ASSUME NEW s \in Session, AnnotateByHand(s) \/ UnmaskByHand(s) PROVE StoreInv'
  BY <1>2, HandsInv DEF AnnotateByHand, UnmaskByHand
<1>3. CASE UNCHANGED storeVars
  BY <1>3, HandsInv DEF storeVars, rows, marks
<1>4. QED
  BY <1>1, <1>2, <1>3, SessionDeletedInv DEF StoreNext

LEMMA InvMeansWhole == StoreInv => SessionsAreWhole
<1> SUFFICES ASSUME StoreInv PROVE SessionsAreWhole
  OBVIOUS
<1>1. \A s \in Session: stored[s].saved => identity[s[1]] = s
  BY DEF StoreInv, WholeIs
<1>2. ASSUME NEW s \in Session, stored[s].saved, NEW i \in 1..stored[s].len
      PROVE  Transcript[s[1]][i] \in Blockless \/ \E id \in stored[s].ids: id.tid = Transcript[s[1]][i]
  <2>1. Transcript[s[1]][i] \in TurnsOf(s, stored[s].len)
    BY DEF TurnsOf
  <2>2. QED
    BY <1>2, <2>1 DEF StoreInv, WholeIs
<1>3. \A s, o \in Session: s # o => stored[s].ids \cap stored[o].ids = {}
  BY DEF StoreInv
<1>4. QED
  BY <1>1, <1>2, <1>3 DEF SessionsAreWhole

LEMMA InvMeansQuiet == StoreInv => QuietMarksMatch
<1> SUFFICES ASSUME StoreInv, NEW s \in Session \ overlapped, stored[s].saved,
                    \A j \in Parse: job[j].sid = s => job[j].pc \in {"parsed", "failed"}
             PROVE  masks[s] = {stored[s].len} /\ embedded[s] \in {0, stored[s].len}
  BY DEF QuietMarksMatch
<1>1. \A j \in Parse: job[j].sid = s => job[j].pc \notin Marking
  BY DEF Marking
<1>2. QED
  BY <1>1 DEF StoreInv, DescribedIs

(* An id stays with its turn: a save rescopes what its session holds rescoped *)
(* and nothing else of what it holds.                                         *)
LEMMA StepKeepsIds ==
  ASSUME StoreInv, [StoreNext]_storeVars, NEW s \in Session, stored[s].saved, stored'[s].saved,
         NEW id \in stored[s].ids, id.tid \in TurnsOf(s, stored'[s].len), id.tid \notin Blockless \cup released
  PROVE  id \in stored'[s].ids
<1>t. StoreTypeOK
  BY DEF StoreInv
<1>1. CASE stored' = stored
  BY <1>1
<1>2. ASSUME NEW j \in Parse, Commit(j) PROVE id \in stored'[s].ids
  <2>0. NamedBy(j) /\ SaveOf(j) /\ job[j].pc = "write" /\ Unsaved(j) = {}
    BY <1>2 DEF StoreInv, Commit
  <2>1. PICK o \in Session : o = job[j].sid
    BY <2>0 DEF NamedBy, Running, Saving
  <2>2. /\ stored'[o] = [saved |-> TRUE, len |-> Captured[j].len, ids |-> job[j].ids]
        /\ \A q \in Session \ {o} : stored'[q].ids = stored[q].ids \ job[j].ids
    BY <1>2, <2>1, CommitMeans
  <2>3. CASE s = o
    <3>1. s[1] = Captured[j].native
      BY <2>0, <2>1, <2>3, NoneIsNoSession DEF NamedBy
    <3>2. stored'[s].len = Captured[j].len /\ stored'[s].ids = job[j].ids
      BY <2>2, <2>3
    <3>3. id.tid \in Turns(j)
      BY <3>1, <3>2 DEF TurnsOf, Turns
    <3>4. id \in job[j].held
      BY <2>0, <2>1, <2>3 DEF SaveOf
    <3>5. id = IF id.tid \in job[j].taken THEN Scoped(id.tid, s) ELSE Own(id.tid)
      BY <2>0, <2>1, <2>3, <3>3, <3>4 DEF SaveOf
    <3>6. (IF id.tid \in job[j].taken THEN Scoped(id.tid, s) ELSE Own(id.tid)) \in job[j].ids
      BY <2>0, <2>1, <2>3, <3>3, SavedMeans
    <3>7. QED
      BY <3>2, <3>5, <3>6
  <2>4. CASE s # o
    <3>1. id \notin job[j].ids
      BY <2>0, <2>1, <2>4 DEF SaveOf
    <3>2. QED
      BY <2>2, <2>4, <3>1
  <2>5. QED
    BY <2>3, <2>4
<1>3. ASSUME NEW q \in Session, SessionDeleted(q) PROVE id \in stored'[s].ids
  <2>1. s # q
    BY <1>3, <1>t DEF SessionDeleted, StoreTypeOK, NoTurns
  <2>2. stored'[s] = stored[s]
    BY <1>3, <1>t, <2>1 DEF SessionDeleted, StoreTypeOK
  <2>3. QED
    BY <2>2
<1>4. \/ stored' = stored \/ (\E j \in Parse : Commit(j)) \/ (\E q \in Session : SessionDeleted(q))
  BY DEF StoreNext, ParseJob, Identify, Lock, Lookup, SaveTurn, Deadlock, DeleteMasks, InsertMasks, Embed,
         AnnotateByHand, UnmaskByHand, storeVars, rows
<1>5. QED
  BY <1>1, <1>2, <1>3, <1>4

LEMMA StepKeepsHands ==
  ASSUME [StoreNext]_storeVars, job' # job PROVE hand \subseteq hand'
BY DEF StoreNext, ParseJob, Identify, Lock, Lookup, SaveTurn, Deadlock, Commit, DeleteMasks, InsertMasks, Embed,
       SessionDeleted, AnnotateByHand, UnmaskByHand, storeVars, rows, marks

(* Of any number of parses of any captures, in any order and with any         *)
(* deletions between them: one conversation is one session, and no turn with  *)
(* content is lost to another session's save (saveSession,                    *)
(* scopeCollidingTurns).                                                      *)
THEOREM SavesKeepSessionsWhole == StoreSpec => []SessionsAreWhole
<1>1. StoreInit => StoreInv
  BY StoreInitInv
<1>2. StoreInv /\ [StoreNext]_storeVars => StoreInv'
  BY StoreNextInv
<1>3. StoreInv => SessionsAreWhole
  BY InvMeansWhole
<1>4. QED
  BY <1>1, <1>2, <1>3, PTL DEF StoreSpec

(* What hangs on a session goes with it: the ids of its turns (turn-          *)
(* identity.ts), the scanner's marks and the embedding where no two parses    *)
(* overlapped (annotations.ts, pipeline.ts), and what a person marked; and    *)
(* the store the tests run on agrees where no two saves were open at once.    *)
THEOREM MarksAreKept == StoreSpec => MarksHold
<1>1. StoreInit => StoreInv
  BY StoreInitInv
<1>2. StoreInv /\ [StoreNext]_storeVars => StoreInv'
  BY StoreNextInv
<1>3. StoreInv => QuietMarksMatch /\ TestStoreAgrees
  BY InvMeansQuiet DEF StoreInv
<1>4. StoreInv /\ [StoreNext]_storeVars =>
        [\A s \in Session: stored[s].saved /\ stored'[s].saved =>
            \A id \in stored[s].ids: id.tid \in TurnsOf(s, stored'[s].len) =>
                id.tid \in Blockless \cup released \/ id \in stored'[s].ids]_storeVars
  BY StepKeepsIds
<1>5. StoreInv /\ [StoreNext]_storeVars => [job' # job => hand \subseteq hand']_storeVars
  BY StepKeepsHands
<1>6. QED
  BY <1>1, <1>2, <1>3, <1>4, <1>5, PTL DEF StoreSpec, MarksHold, HandMasksSurviveParses, CapturedAgainKeepsIds
==============================================================================
