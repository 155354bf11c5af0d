------------------------------ MODULE Machines ------------------------------
(* Machine records and machine tokens (server/src/machines.ts, machine-        *)
(* revocation.ts, auth/credentials.service.ts, store/postgres/machines.ts):    *)
(* enrolment by installation, heartbeats, edits, revocation, deregistration.   *)
(* Every call reads a record in one transaction and saves it in another.       *)
EXTENDS Naturals, FiniteSets

CONSTANTS
    MachineId,      \* ids, taken in order
    Installation, NoInstallation,
    MachineName,
    MachineCall,    \* calls; each is made at most once
    NoMachine

ASSUME MachinesAssumption ==
    /\ MachineId \subseteq Nat /\ NoMachine \notin MachineId
    /\ NoInstallation \notin Installation
    /\ NoMachine \notin [name : MachineName, installation : Installation \cup {NoInstallation},
                        seen : BOOLEAN, retired : BOOLEAN]

VARIABLES
    machine,        \* id -> [name, installation, seen, retired] or NoMachine
    token,          \* machine tokens: [machine, call, revoked]
    machineCall,    \* call -> [op, pc, id, record]
    edited,         \* history: call -> names committed to its machine since its read
    answered,       \* history: answers of register: [call, id]
    requested       \* history: names some register or update wrote, per machine

machinesVars == <<machine, token, machineCall, edited, answered, requested>>

NoCall == [op |-> "none", pc |-> "idle", id |-> NoMachine, record |-> NoMachine]
Exists(id) == machine[id] # NoMachine
LiveMachine(id) == Exists(id) /\ ~machine[id].retired

(* toMachineRecord: what a save writes back, without the retirement. *)
ToMachineRecord(id) == [name |-> machine[id].name, installation |-> machine[id].installation,
                        seen |-> machine[id].seen]

MachinesInit ==
    /\ machine = [id \in MachineId |-> NoMachine] /\ token = {}
    /\ machineCall = [c \in MachineCall |-> NoCall]
    /\ edited = [c \in MachineCall |-> {}] /\ answered = {} /\ requested = [id \in MachineId |-> {}]

Unused(id) ==
    /\ ~Exists(id) /\ \A c \in MachineCall: machineCall[c].id # id
    /\ \A n \in MachineId: n < id => Exists(n) \/ \E c \in MachineCall: machineCall[c].id = n

Read(c, op, pc, id, record) ==
    /\ machineCall[c].pc = "idle"
    /\ machineCall' = [machineCall EXCEPT ![c] = [op |-> op, pc |-> pc, id |-> id, record |-> record]]
    /\ edited' = [edited EXCEPT ![c] = {}]
    /\ UNCHANGED <<machine, token, answered, requested>>

(* register: the machine this installation has, or a new one. *)
Register(c, name, installation) ==
    LET enrolled == {id \in MachineId: LiveMachine(id) /\ installation # NoInstallation
                                       /\ machine[id].installation = installation}
    IN IF enrolled # {}
       THEN \E id \in enrolled: Read(c, "register", "save", id, [ToMachineRecord(id) EXCEPT !.name = name])
       ELSE \E id \in MachineId: Unused(id)
                /\ Read(c, "register", "save", id,
                        [name |-> name, installation |-> installation, seen |-> FALSE])

Update(c, id, name) == LiveMachine(id) /\ Read(c, "update", "save", id, [ToMachineRecord(id) EXCEPT !.name = name])

(* The touch of a stream and the first half of issueMachineToken. *)
Touch(c, id) == LiveMachine(id) /\ Read(c, "touch", "save", id, [ToMachineRecord(id) EXCEPT !.seen = TRUE])
IssueToken(c, id) == LiveMachine(id) /\ Read(c, "token", "save", id, [ToMachineRecord(id) EXCEPT !.seen = TRUE])
RevokeTokensOf(c, id) == LiveMachine(id) /\ Read(c, "revoke", "revoke", id, NoMachine)
Deregister(c, id) == LiveMachine(id) /\ Read(c, "deregister", "revoke", id, NoMachine)

Goes(c, pc) == machineCall' = [machineCall EXCEPT ![c].pc = pc]
Is(c, pc) == machineCall[c].pc = pc

(* machines_installation_key: one live machine for an installation. *)
InstallationTaken(id, installation) ==
    /\ installation # NoInstallation /\ (Exists(id) => LiveMachine(id))
    /\ \E o \in MachineId \ {id}: LiveMachine(o) /\ machine[o].installation = installation

(* Mutant: the record that was read brings its row back to life. *)
SaveRevived(c) ==
    LET id == machineCall[c].id  r == machineCall[c].record
    IN [name |-> r.name, installation |-> r.installation, seen |-> r.seen, retired |-> FALSE]
(* saveMachine writes the columns of the record and leaves the others. *)
Saved(c) ==
    LET id == machineCall[c].id  r == machineCall[c].record
    IN [name |-> r.name, installation |-> r.installation, seen |-> r.seen,
        retired |-> Exists(id) /\ machine[id].retired]

SaveAsRead(c) ==
    /\ Is(c, "save")
    /\ LET id == machineCall[c].id  op == machineCall[c].op  r == machineCall[c].record
       IN IF InstallationTaken(id, r.installation)
          THEN Goes(c, "failed") /\ UNCHANGED <<machine, edited, answered, requested>>
          ELSE /\ machine' = [machine EXCEPT ![id] = Saved(c)]
               /\ Goes(c, IF op = "token" THEN "mint" ELSE "done")
               /\ edited' = [d \in MachineCall |-> IF machineCall[d].id = id /\ d # c
                                                   THEN edited[d] \cup {r.name} ELSE edited[d]]
               /\ answered' = IF op = "register" THEN answered \cup {[call |-> c, id |-> id]} ELSE answered
               /\ requested' = IF op \in {"register", "update"}
                               THEN [requested EXCEPT ![id] = @ \cup {r.name}] ELSE requested
    /\ UNCHANGED token

(* The token's two rows, in one transaction. *)
MintToken(c) ==
    /\ Is(c, "mint") /\ Goes(c, "done")
    /\ token' = token \cup {[machine |-> machineCall[c].id, call |-> c, revoked |-> FALSE]}
    /\ UNCHANGED <<machine, edited, answered, requested>>

(* revokeMachineTokens: the tokens of the machine there are now. *)
RevokeMachineTokens(c) ==
    /\ Is(c, "revoke") /\ Goes(c, IF machineCall[c].op = "deregister" THEN "retire" ELSE "done")
    /\ token' = {IF t.machine = machineCall[c].id THEN [t EXCEPT !.revoked = TRUE] ELSE t: t \in token}
    /\ UNCHANGED <<machine, edited, answered, requested>>

(* retireMachine; one that is retired already answers 404. *)
Retire(c) ==
    /\ Is(c, "retire") /\ Goes(c, IF LiveMachine(machineCall[c].id) THEN "done" ELSE "failed")
    /\ machine' = [machine EXCEPT ![machineCall[c].id].retired = TRUE]
    /\ UNCHANGED <<token, edited, answered, requested>>

(* authenticateBearer accepts a live token of a live machine. *)
Accepted(t) == ~t.revoked /\ LiveMachine(t.machine)

MachineCallStep(c) == SaveAsRead(c) \/ MintToken(c) \/ RevokeMachineTokens(c) \/ Retire(c)

MachinesNext ==
    \E c \in MachineCall:
        \/ MachineCallStep(c)
        \/ \E name \in MachineName, i \in Installation \cup {NoInstallation}: Register(c, name, i)
        \/ \E id \in MachineId:
              \/ \E name \in MachineName: Update(c, id, name)
              \/ Touch(c, id) \/ IssueToken(c, id) \/ RevokeTokensOf(c, id) \/ Deregister(c, id)

MachinesSpec == MachinesInit /\ [][MachinesNext]_machinesVars

-----------------------------------------------------------------------------
(* After a deregistration answered no token of the machine is accepted again,  *)
(* one minted or a record saved by a call in flight included (machine-         *)
(* revocation.ts, toMachineRecord).                                            *)
DeregisteredIsCutOff ==
    \A c \in MachineCall: machineCall[c].op = "deregister" /\ machineCall[c].pc = "done" =>
       \A t \in token: t.machine = machineCall[c].id => ~Accepted(t)

(* An installation is one live machine, and two registrations of it that both  *)
(* answered named the same one unless it was retired in between (register, the *)
(* partial unique index).                                                      *)
OneMachinePerInstallation ==
    /\ \A m, o \in MachineId: LiveMachine(m) /\ LiveMachine(o) /\ m # o
          => machine[m].installation = NoInstallation \/ machine[m].installation # machine[o].installation
    /\ \A a, b \in answered: a.id # b.id /\ machine[a.id].installation # NoInstallation
          /\ machine[a.id].installation = machine[b.id].installation
          => machine[a.id].retired \/ machine[b.id].retired

(* A heartbeat or a token changes a machine's name only back to the one it     *)
(* read, over an edit that was saved while it was in flight.                   *)
NamesAreWhatWasAsked ==
    \A id \in MachineId: Exists(id) => machine[id].name \in requested[id]

MachinesHold == DeregisteredIsCutOff /\ OneMachinePerInstallation /\ NamesAreWhatWasAsked

(* A call that is not an edit changes a name only if another was saved since   *)
(* its read, and no call brings a retired machine back.                        *)
EditsAreLostOnlyInFlight ==
    [][\A id \in MachineId: Exists(id) =>
          /\ machine'[id] # NoMachine /\ (machine[id].retired => machine'[id].retired)
          /\ machine'[id].name # machine[id].name =>
                \E c \in MachineCall: machineCall[c].id = id /\ machineCall'[c] # machineCall[c]
                    /\ (machineCall[c].op \in {"register", "update"} \/ machine[id].name \in edited[c])]_machinesVars

(* The machine records through calls that read, wait and save (machines.ts).   *)
MachineRecordsHold == []MachinesHold /\ EditsAreLostOnlyInFlight

-----------------------------------------------------------------------------
(* The inductive invariant.                                                    *)
Record == [name : MachineName, installation : Installation \cup {NoInstallation}, seen : BOOLEAN]

Row == [name : MachineName, installation : Installation \cup {NoInstallation},
        seen : BOOLEAN, retired : BOOLEAN]

MachinesTypeOK ==
    /\ machine \in [MachineId -> Row \cup {NoMachine}]
    /\ machineCall \in [MachineCall -> [op : {"none", "register", "update", "touch", "token", "revoke", "deregister"},
                                        pc : {"idle", "save", "mint", "revoke", "retire", "done", "failed"},
                                        id : MachineId \cup {NoMachine}, record : Record \cup {NoMachine}]]
    /\ edited \in [MachineCall -> SUBSET MachineName]
    /\ requested \in [MachineId -> SUBSET MachineName]
    /\ answered \subseteq [call : MachineCall, id : MachineId]

(* What a call read was there, and the name a heartbeat or a token would write *)
(* back is the machine's, or one that was saved over since.                    *)
CallOf(c) ==
    LET call == machineCall[c]
    IN /\ call.op \in {"update", "touch", "token", "revoke", "deregister"} =>
             call.id \in MachineId /\ Exists(call.id)
       /\ call.pc = "save" =>
             call.op \in {"register", "update", "touch", "token"} /\ call.id \in MachineId /\ call.record \in Record
       /\ call.pc = "save" /\ call.op \in {"touch", "token"} =>
             /\ call.record.name \in requested[call.id]
             /\ call.record.name = machine[call.id].name \/ machine[call.id].name \in edited[c]
       /\ call.pc = "mint" => call.op = "token"
       /\ call.pc = "revoke" => call.op \in {"revoke", "deregister"}
       /\ call.pc = "retire" => call.op = "deregister"
       /\ call.pc = "done" /\ call.op = "deregister" => machine[call.id].retired

MachinesInv ==
    /\ MachinesTypeOK /\ MachinesHold
    /\ \A c \in MachineCall: CallOf(c)
    /\ \A a \in answered: Exists(a.id)
=============================================================================
