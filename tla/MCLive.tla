------------------------------- MODULE MCLive --------------------------------
(* One instance for TLC of the parts of the system that owe an answer: a       *)
(* behaviour is one of the areas below from its initial state on, and the      *)
(* others stand still.  They share no variable, so that this is each of them   *)
(* checked by itself.                                                          *)
EXTENDS CommandChannel, ConversionJobs, RateLimits, Distillation,
        MemoryDocuments, CaptureLoop

CONSTANT Areas

VARIABLE area

liveVars == <<area, channelVars, conversionVars, rateVars, distilVars, memoryVars,
              loopVars>>

Init ==
    /\ area \in Areas
    /\ ChannelInit /\ ConversionInit /\ RateInit /\ DistilInit /\ LoopInit
    /\ MemoryInit /\ (area = "memory" \/ ruleFile = "plain")

OthersStand ==
    /\ IF area = "channel" THEN TRUE ELSE UNCHANGED channelVars
    /\ IF area = "conversion" THEN TRUE ELSE UNCHANGED conversionVars
    /\ IF area = "rates" THEN TRUE ELSE UNCHANGED rateVars
    /\ IF area = "distillation" THEN TRUE ELSE UNCHANGED distilVars
    /\ IF area = "memory" THEN TRUE ELSE UNCHANGED memoryVars
    /\ IF area = "loop" THEN TRUE ELSE UNCHANGED loopVars

Next ==
    /\ UNCHANGED area
    /\ \/ area = "channel" /\ ChannelNext
       \/ area = "conversion" /\ ConversionNext
       \/ area = "rates" /\ RateNext
       \/ area = "distillation" /\ DistilNext
       \/ area = "memory" /\ MemoryNext
       \/ area = "loop" /\ LoopNext
    /\ OthersStand

Fair ==
    \/ area = "channel" /\ ChannelFairness
    \/ area = "conversion" /\ ConversionFairness
    \/ area = "rates" /\ RateFairness
    \/ area = "distillation" /\ DistilFairness
    \/ area = "memory" /\ MemoryFairness
    \/ area = "loop" /\ LoopFairness

Spec == Init /\ [][Next]_liveVars /\ Fair

-----------------------------------------------------------------------------
(* What the server owes: a command that was accepted ends, a conversion job    *)
(* ends, a caller who was refused is let in again, a distillation job ends.    *)
ServerSettles ==
    CommandSettles /\ ConversionSettles /\ LimitsLift /\ DistillationSettles

(* What the agent owes: the archive comes to hold an instruction file as the   *)
(* disk has it, and the last version of a watched file reaches it.             *)
AgentSettles == MemoryCatchesUp /\ LastVersionIsSent
=============================================================================
