---------------------------- MODULE MCGroupCommand ----------------------------
(* Values of the constants of GroupCommand for TLC. *)
EXTENDS GroupCommand

CONSTANTS
    Singles,    \* the tool calls of send_show_command beside the group calls
    MCDevices,  \* the devices of the inventory
    MCGroups    \* the group calls

MCCalls == (MCGroups \X MCDevices) \cup Singles
MCIds == MCCalls \cup MCGroups
MCSafeName == [m \in Commands |-> m]

=============================================================================
