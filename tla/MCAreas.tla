------------------------------- MODULE MCAreas -------------------------------
(* One instance for TLC of the parts of the system whose properties are about  *)
(* states and steps: a behaviour is one of the areas below from its initial    *)
(* state on, and the others stand still.  They share no variable, so that this *)
(* is each of them checked by itself.                                          *)
EXTENDS SessionStore, Machines, Materializer, Accounts, CommandChannel, MemoryDocuments,
        MachineToken, Launcher, ErrorGroups

CONSTANTS Areas, a, b

VARIABLE area

(* Two conversations of one tool that share their two turn ids, in the other   *)
(* order; of the second, two versions are captured.                            *)
TwoTranscripts == [n \in Native |-> IF n = "x" THEN <<a, b>> ELSE <<b, a>>]
ThreeParses == [j \in Parse |->
    CASE j = 1 -> [native |-> "x", len |-> 2, version |-> 1]
      [] j = 2 -> [native |-> "y", len |-> 2, version |-> 1]
      [] OTHER -> [native |-> "y", len |-> 1, version |-> 2]]

(* Run 3 is of another session that has the same native id. *)
Bundles == [r \in Run |-> IF r = 3 THEN "other" ELSE "bundle"]

areaVars == <<area, storeVars, machinesVars, materializerVars, accountVars, channelVars,
              memoryVars, tokenVars, launcherVars, errorVars>>

(* Where an area has several initial states, the others begin in one of them. *)
Init ==
    /\ area \in Areas
    /\ StoreInit /\ MachinesInit /\ MaterializerInit /\ AccountsInit /\ ChannelInit
    /\ TokenInit /\ (area = "token" \/ ahead = 0)
    /\ LauncherInit /\ (area = "launcher" \/ cached = [binary |-> "none", sidecar |-> "none"])
    /\ MemoryInit /\ (area = "memory" \/ ruleFile = "plain")
    /\ ErrorInit /\ (area = "errors" \/ errorPlace.runs = "api")

OthersStand ==
    /\ IF area = "store" THEN TRUE ELSE UNCHANGED storeVars
    /\ IF area = "machines" THEN TRUE ELSE UNCHANGED machinesVars
    /\ IF area = "materializer" THEN TRUE ELSE UNCHANGED materializerVars
    /\ IF area = "accounts" THEN TRUE ELSE UNCHANGED accountVars
    /\ IF area = "channel" THEN TRUE ELSE UNCHANGED channelVars
    /\ IF area = "memory" THEN TRUE ELSE UNCHANGED memoryVars
    /\ IF area = "token" THEN TRUE ELSE UNCHANGED tokenVars
    /\ IF area = "launcher" THEN TRUE ELSE UNCHANGED launcherVars
    /\ IF area = "errors" THEN TRUE ELSE UNCHANGED errorVars

Next ==
    /\ UNCHANGED area
    /\ \/ area = "store" /\ StoreNext
       \/ area = "machines" /\ MachinesNext
       \/ area = "materializer" /\ MaterializerNext
       \/ area = "accounts" /\ AccountsNext
       \/ area = "channel" /\ ChannelNext
       \/ area = "memory" /\ MemoryNext
       \/ area = "token" /\ TokenNext
       \/ area = "launcher" /\ LauncherNext
       \/ area = "errors" /\ ErrorNext
    /\ OthersStand

Spec == Init /\ [][Next]_areaVars
=============================================================================
