---------------------------- MODULE CommandPromise ----------------------------
(***************************************************************************)
(* What the command channel promises of the bundles pushed to one machine, *)
(* without saying how it is kept: a bundle comes to the disk only after    *)
(* its command was given, never over what its tool went on writing, and    *)
(* the archive records of a command that was given what became of it,      *)
(* "completed" only with the bundle on the disk.                           *)
(***************************************************************************)
CONSTANT Command

VARIABLES
    verdict,  \* "unasked", "waiting" for an answer, "completed" or "failed"
    bundle    \* the machine's files: "absent", "written", "edited"

promiseVars == <<verdict, bundle>>

Init ==
    /\ verdict = [x \in Command |-> "unasked"]
    /\ bundle = [x \in Command |-> "absent"]

Give(x) ==
    /\ verdict[x] = "unasked"
    /\ verdict' = [verdict EXCEPT ![x] = "waiting"]
    /\ UNCHANGED bundle

Place(x) ==
    /\ verdict[x] # "unasked"
    /\ bundle[x] # "edited"
    /\ bundle' = [bundle EXCEPT ![x] = "written"]
    /\ UNCHANGED verdict

GoOn(x) ==
    /\ bundle[x] = "written"
    /\ bundle' = [bundle EXCEPT ![x] = "edited"]
    /\ UNCHANGED verdict

Record(x) ==
    /\ verdict[x] # "unasked"
    /\ \E v \in {"completed", "failed"} :
          /\ v = "completed" => bundle[x] # "absent"
          /\ verdict' = [verdict EXCEPT ![x] = v]
    /\ UNCHANGED bundle

Next == \E x \in Command : Give(x) \/ Place(x) \/ GoOn(x) \/ Record(x)

Spec == Init /\ [][Next]_promiseVars
=============================================================================
