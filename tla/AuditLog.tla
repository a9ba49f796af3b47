------------------------------ MODULE AuditLog ------------------------------
(***************************************************************************)
(* The audit logger of src/netmiko_mcp/audit.py.                           *)
(*                                                                         *)
(* One emit of a record runs through the configured handlers one after     *)
(* the other, in the order configure_audit_logger attached them.  Each     *)
(* handler takes its own lock, so a handler's write is one step, and other *)
(* threads and processes may write between two handlers of one emit.  A    *)
(* handler that cannot write raises (fail-closed), and the handlers after  *)
(* it are never reached.                                                   *)
(*                                                                         *)
(* A record is represented by the only field the properties tell apart:    *)
(* its verdict (command_attempt) or its outcome (connection_outcome); a    *)
(* tool_invocation is INVOKED.  The records of one correlation id, or of   *)
(* one such invocation, are kept together, in writing order.               *)
(***************************************************************************)
EXTENDS Naturals, Sequences

CONSTANTS
    Ids,            \* correlation ids
    AuditEnabled,   \* settings.audit_log_enabled
    Destination     \* settings.audit_log_destination

ASSUME AuditEnabledAssumption == AuditEnabled \in BOOLEAN
ASSUME DestinationAssumption == Destination \in {"file", "syslog", "both"}

VARIABLES
    auditLog,   \* auditLog[sink][id]: the records of id that sink holds
    emitted     \* emitted[id]: how many handlers have taken the record that
                \* id is emitting; 0 when it is emitting none

auditVars == <<auditLog, emitted>>

-----------------------------------------------------------------------------
(* Records. *)

ALLOWED == "ALLOWED"
DENIED == "DENIED"
Verdicts == {ALLOWED, DENIED}

Outcomes == {"SUCCESS", "AUTH_FAILURE", "TIMEOUT", "SSH_ERROR",
             "NETMIKO_ERROR", "READ_TIMEOUT", "READ_ERROR", "WRITE_ERROR",
             "ERROR", "INVENTORY_ERROR"}

INVOKED == "INVOKED"

Records == Verdicts \cup Outcomes \cup {INVOKED}

-----------------------------------------------------------------------------
(* Sinks, and the handlers attached to the logger. *)

Sinks == {"file", "syslog"}

\* The handlers that take records, in the order in which they were attached.
\* With auditing disabled none is, and _emit returns before it logs anything.
Handlers ==
    IF ~AuditEnabled THEN <<>>
    ELSE IF Destination = "both" THEN <<"file", "syslog">>
    ELSE <<Destination>>

\* The sinks in which an operator of this configuration looks for records.
ConfiguredSinks == {Handlers[i] : i \in 1..Len(Handlers)}

\* The sink whose handler takes the record of id next.
NextSink(id) == Handlers[emitted[id] + 1]

AuditInit ==
    /\ auditLog = [s \in Sinks |-> [id \in Ids |-> <<>>]]
    /\ emitted = [id \in Ids |-> 0]

AuditTypeOK ==
    /\ auditLog \in [Sinks -> [Ids -> Seq(Records)]]
    /\ emitted \in [Ids -> 0..Len(Handlers)]

\* auditLog once sink s has taken record rec of id.
Appended(s, id, rec) ==
    [auditLog EXCEPT ![s][id] = Append(@, rec)]

-----------------------------------------------------------------------------
(* The steps of one call of _emit. *)

\* Mutant: handleError is the one of the logging package, which prints the
\* error and lets the emit go on without the record.
MutSwallowedWrite(id, rec) ==
    /\ emitted[id] < Len(Handlers)
    /\ auditLog' \in {auditLog, Appended(NextSink(id), id, rec)}
    /\ emitted' = [emitted EXCEPT ![id] = @ + 1]

\* The next handler writes the record.
HandlerWrites(id, rec) ==
    /\ emitted[id] < Len(Handlers)
    /\ auditLog' = Appended(NextSink(id), id, rec)
    /\ emitted' = [emitted EXCEPT ![id] = @ + 1]

\* The next handler raises, which abandons the emit.  A FileHandler whose
\* flush failed may have left the line in its stream, which a later flush
\* puts into the file; syslog sends a datagram or nothing.
HandlerRaises(id, rec) ==
    /\ emitted[id] < Len(Handlers)
    /\ \/ UNCHANGED auditLog
       \/ /\ NextSink(id) = "file"
          /\ auditLog' = Appended("file", id, rec)
    /\ emitted' = [emitted EXCEPT ![id] = 0]

\* Every handler has taken the record: _emit returns to its caller.
EmitReturns(id) ==
    /\ emitted[id] = Len(Handlers)
    /\ emitted' = [emitted EXCEPT ![id] = 0]
    /\ UNCHANGED auditLog

\* The process dies in the middle of its emits.
EmitsCrash ==
    /\ emitted' = [id \in Ids |-> 0]
    /\ UNCHANGED auditLog

-----------------------------------------------------------------------------
(* What a reader of a sink sees. *)

InLog(s, id, rec) == \E i \in 1..Len(auditLog[s][id]) : auditLog[s][id][i] = rec

\* rec of id is in every sink of the configuration.
Recorded(id, rec) == \A s \in ConfiguredSinks : InLog(s, id, rec)

\* rec of id is in some sink.
Seen(id, rec) == \E s \in Sinks : InLog(s, id, rec)

=============================================================================
