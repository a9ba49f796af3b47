----------------------------- MODULE CommandGate -----------------------------
(***************************************************************************)
(* What the server promises about every command call, whatever fails       *)
(* (fail-closed policy, docstring of src/netmiko_mcp/audit.py): a command  *)
(* reaches the device at most once, only while its call is being served,   *)
(* and, when auditing is enabled, only once the decision that allows it is *)
(* in the audit log.                                                       *)
(***************************************************************************)
EXTENDS Naturals

CONSTANTS
    Calls,      \* the command calls
    Audited     \* whether auditing is enabled

VARIABLES
    recorded,   \* the calls whose permission is in the audit log
    executed,   \* executed[c]: how often the command of c was sent
    finished    \* the calls that are over

gateVars == <<recorded, executed, finished>>

Init ==
    /\ recorded = IF Audited THEN {} ELSE Calls
    /\ executed = [c \in Calls |-> 0]
    /\ finished = {}

\* The permission of c is written to the audit log.  The write may be the
\* last thing the call does: the line reached the file, its handler raised.
Record(c) ==
    /\ c \notin recorded \cup finished
    /\ recorded' = recorded \cup {c}
    /\ finished' \in {finished, finished \cup {c}}
    /\ UNCHANGED executed

\* The command of c is sent to the device.
Execute(c) ==
    /\ c \in recorded \ finished
    /\ executed[c] = 0
    /\ executed' = [executed EXCEPT ![c] = 1]
    /\ UNCHANGED <<recorded, finished>>

\* The calls of over end: answered, failed, or lost with the process.
Finish(over) ==
    /\ finished' = finished \cup over
    /\ UNCHANGED <<recorded, executed>>

Next ==
    \/ \E c \in Calls : Record(c) \/ Execute(c)
    \/ \E over \in SUBSET Calls : Finish(over)

Spec == Init /\ [][Next]_gateVars

=============================================================================
