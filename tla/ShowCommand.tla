----------------------------- MODULE ShowCommand -----------------------------
(***************************************************************************)
(* run_show_command of src/netmiko_mcp/connection.py: validate, audit the  *)
(* decision, look the device up, connect, send, save a large output, keep  *)
(* the transcript, audit the outcome, disconnect and answer.               *)
(*                                                                         *)
(* Calls run concurrently: the threads of a group, the clients of the HTTP *)
(* transport, several stdio servers of one user.  They share the audit log *)
(* and the directory of saved outputs, and nothing else.                   *)
(*                                                                         *)
(* An exception is a point of the control flow.  One that leaves the with  *)
(* block passes through _managed_connection, which disconnects (pc =       *)
(* "unwind"), and reaches the outer except clauses; one that an except     *)
(* clause raises itself leaves the function (pc = "raised").               *)
(***************************************************************************)
EXTENDS AuditLog, OutputStore

CONSTANTS
    Permitted,          \* the commands validate_command allows
    ReadTranscript,     \* settings.audit_log_read_transcript
    Raisable,           \* the exceptions the environment raises
    DisconnectMayRaise, \* whether disconnect() may raise
    NoRequest,          \* the request of a call that was not made
    MaxCrashes          \* bound: how often the process dies

ASSUME CallsAssumption == Calls \subseteq Ids
ASSUME PermittedAssumption == Permitted \subseteq Commands
ASSUME ReadTranscriptAssumption == ReadTranscript \in BOOLEAN
ASSUME MaxCrashesAssumption == MaxCrashes \in Nat

VARIABLES
    pc,             \* where each call is
    request,        \* the arguments of each call
    outcome,        \* the outcome its next except clause will log
    reply,          \* what it answers, by kind
    session,        \* its SSH session: "none", "open", "disconnected"
    sends,          \* how often it has called send_command
    savedAs,        \* the file its output was saved as, <<>> if none
    transcripts,    \* the calls whose transcript is on disk
    crashes         \* how often the process died

deviceVars == <<session, sends>>
resultVars == <<reply, savedAs, transcripts>>
vars == <<auditVars, storeVars, pc, request, outcome, deviceVars, resultVars, crashes>>

-----------------------------------------------------------------------------
(* Requests, replies, exceptions. *)

\* _preloaded_params is given by the group runner, which turns _auto_save off
\* when it will save itself; a tool call leaves both at their defaults.
Requests == [device : Devices, command : Commands,
             save_output : BOOLEAN, auto_save : BOOLEAN, preloaded : BOOLEAN]

Replies == {"none", "security_error", "inventory_error", "connection_error",
            "execution_error", "output", "saved"}

\* The exceptions that some except clause tells from the others.
Exceptions == {"ReadTimeout", "ReadException", "WriteException",
               "NetmikoBaseException", "NetmikoAuthenticationException",
               "NetmikoTimeoutException", "SSHException", "Exception"}

ASSUME RaisableAssumption == Raisable \subseteq Exceptions

\* Mutant: the name of the exception is logged in place of an OUTCOME constant.
MutExceptionName(e) == IF e = "ReadTimeout" THEN "READ_TIMEOUT" ELSE e

\* Mutant: an inner clause for SSHException logs the outcome of a connection.
MutInnerSshClause(e) == IF e = "SSHException" THEN "SSH_ERROR" ELSE "ERROR"

\* The inner except clauses: something went wrong with the command.
CommandOutcome(e) ==
    CASE e = "ReadTimeout" -> "READ_TIMEOUT"
      [] e = "ReadException" -> "READ_ERROR"
      [] e = "WriteException" -> "WRITE_ERROR"
      [] e = "NetmikoBaseException" -> "NETMIKO_ERROR"
      [] OTHER -> "ERROR"

\* The outer except clauses.  The read and write exceptions are subclasses
\* of NetmikoBaseException, and only that class is listed here.
ConnectionOutcome(e) ==
    CASE e = "NetmikoAuthenticationException" -> "AUTH_FAILURE"
      [] e = "NetmikoTimeoutException" -> "TIMEOUT"
      [] e = "SSHException" -> "SSH_ERROR"
      [] e = "Exception" -> "ERROR"
      [] OTHER -> "NETMIKO_ERROR"

ErrorReply(o) == IF o = "ERROR" THEN "execution_error" ELSE "connection_error"

-----------------------------------------------------------------------------
(* Control points. *)

\* A record is being emitted.
Logging == {"log_attempt", "log_inventory", "log_success",
            "log_command_error", "log_connection_error"}
\* The with block is being executed or left.
WithBlock == {"send", "save", "write", "transcript", "log_success",
              "log_command_error", "close", "unwind"}
Finished == {"done", "raised", "crashed"}
Points == {"idle", "lookup", "connect"} \cup Logging \cup WithBlock \cup Finished

Running(c) == pc[c] \notin {"idle"} \cup Finished
Allowed(c) == request[c].command \in Permitted
Verdict(c) == IF Allowed(c) THEN ALLOWED ELSE DENIED

\* The record that c is emitting.
Pending(c) ==
    CASE pc[c] = "log_attempt" -> Verdict(c)
      [] pc[c] = "log_inventory" -> "INVENTORY_ERROR"
      [] pc[c] = "log_success" -> "SUCCESS"
      [] OTHER -> outcome[c]

Goto(c, point) == pc' = [pc EXCEPT ![c] = point]

Init ==
    /\ AuditInit
    /\ StoreInit
    /\ pc = [c \in Calls |-> "idle"]
    /\ request = [c \in Calls |-> NoRequest]
    /\ outcome = [c \in Calls |-> "ERROR"]
    /\ reply = [c \in Calls |-> "none"]
    /\ session = [c \in Calls |-> "none"]
    /\ sends = [c \in Calls |-> 0]
    /\ savedAs = [c \in Calls |-> <<>>]
    /\ transcripts = {}
    /\ crashes = 0

-----------------------------------------------------------------------------
(* The decision. *)

\* Mutant: a call of the group runner skips the decision, which was taken for
\* the whole group.
MutSkipDecision(c, r) ==
    /\ pc[c] = "idle"
    /\ request' = [request EXCEPT ![c] = r]
    /\ Goto(c, IF r.preloaded THEN "lookup" ELSE "log_attempt")
    /\ UNCHANGED <<auditVars, storeVars, outcome, deviceVars, resultVars, crashes>>

\* The tool is called: run_show_command computes the verdict and turns to
\* log_attempt.
Start(c, r) ==
    /\ pc[c] = "idle"
    /\ request' = [request EXCEPT ![c] = r]
    /\ Goto(c, "log_attempt")
    /\ UNCHANGED <<auditVars, storeVars, outcome, deviceVars, resultVars, crashes>>

SendShowCommand(c, device, command, save_output) ==
    Start(c, [device |-> device, command |-> command, save_output |-> save_output,
              auto_save |-> TRUE, preloaded |-> FALSE])

-----------------------------------------------------------------------------
(* Audit records. *)

\* One more handler has the record.
WriteRecord(c) ==
    /\ pc[c] \in Logging
    /\ HandlerWrites(c, Pending(c))
    /\ UNCHANGED <<storeVars, pc, request, outcome, deviceVars, resultVars, crashes>>

\* Mutants: a failed attempt record is ignored; the failure of the outer except
\* clauses is swallowed; they log again until it works; the session is opened
\* without _managed_connection.
MutFailOpen(point) ==
    IF point = "log_attempt" THEN "lookup" ELSE IF point \in WithBlock THEN "unwind" ELSE "raised"
MutSwallowFailure(point) == IF point \in WithBlock THEN "unwind" ELSE "done"
MutLogAgain(point) ==
    IF point \in WithBlock \cup {"log_connection_error"} THEN "unwind" ELSE "raised"
MutBareConnection(point) == "raised"

\* Where the exception of a failed emit takes the call: from inside the with
\* block to its exit, from any other place out of the function.
OnAuditFailure(point) == IF point \in WithBlock THEN "unwind" ELSE "raised"

\* A handler fails, and log_attempt or log_outcome raises RuntimeError.
AuditFails(c) ==
    /\ pc[c] \in Logging
    /\ HandlerRaises(c, Pending(c))
    /\ Goto(c, OnAuditFailure(pc[c]))
    /\ outcome' = [outcome EXCEPT ![c] = ConnectionOutcome("Exception")]
    /\ UNCHANGED <<storeVars, request, deviceVars, resultVars, crashes>>

\* log_attempt returns; a denied command is answered at once.
AttemptLogged(c) ==
    /\ pc[c] = "log_attempt"
    /\ EmitReturns(c)
    /\ Goto(c, IF Allowed(c) THEN "lookup" ELSE "done")
    /\ reply' = [reply EXCEPT ![c] = IF Allowed(c) THEN @ ELSE "security_error"]
    /\ UNCHANGED <<storeVars, request, outcome, deviceVars, savedAs, transcripts, crashes>>

\* log_outcome returns outside the with block, and the call answers.
FailureLogged(c) ==
    /\ pc[c] \in {"log_inventory", "log_connection_error"}
    /\ EmitReturns(c)
    /\ Goto(c, "done")
    /\ reply' = [reply EXCEPT ![c] = IF pc[c] = "log_inventory" THEN "inventory_error"
                                     ELSE ErrorReply(outcome[c])]
    /\ UNCHANGED <<storeVars, request, outcome, deviceVars, savedAs, transcripts, crashes>>

\* log_outcome returns inside the with block: the return statement after it
\* leaves the block first.
OutcomeLogged(c) ==
    /\ pc[c] \in {"log_success", "log_command_error"}
    /\ EmitReturns(c)
    /\ Goto(c, "close")
    /\ reply' = [reply EXCEPT ![c] = IF pc[c] = "log_command_error" THEN ErrorReply(outcome[c])
                                     ELSE IF savedAs[c] = <<>> THEN "output" ELSE "saved"]
    /\ UNCHANGED <<storeVars, request, outcome, deviceVars, savedAs, transcripts, crashes>>

-----------------------------------------------------------------------------
(* Inventory and connection. *)

\* get_device_params finds the device, or the group runner already has.
LookupSucceeds(c) ==
    /\ pc[c] = "lookup"
    /\ Goto(c, "connect")
    /\ UNCHANGED <<auditVars, storeVars, request, outcome, deviceVars, resultVars, crashes>>

\* get_device_params raises: ValueError when the inventory does not have the
\* device, and any other exception leaves the function.
LookupFails(c) ==
    /\ pc[c] = "lookup"
    /\ ~request[c].preloaded
    /\ \E point \in {"log_inventory", "raised"} : Goto(c, point)
    /\ UNCHANGED <<auditVars, storeVars, request, outcome, deviceVars, resultVars, crashes>>

\* ConnectHandler returns a session.
ConnectSucceeds(c) ==
    /\ pc[c] = "connect"
    /\ session' = [session EXCEPT ![c] = "open"]
    /\ Goto(c, "send")
    /\ UNCHANGED <<auditVars, storeVars, request, outcome, sends, resultVars, crashes>>

\* ConnectHandler raises before the with block is entered.
ConnectFails(c, e) ==
    /\ pc[c] = "connect"
    /\ outcome' = [outcome EXCEPT ![c] = ConnectionOutcome(e)]
    /\ Goto(c, "log_connection_error")
    /\ UNCHANGED <<auditVars, storeVars, request, deviceVars, resultVars, crashes>>

-----------------------------------------------------------------------------
(* The command. *)

\* The output is kept, or not, before the outcome is audited.
AfterSave == IF ReadTranscript THEN "transcript" ELSE "log_success"

\* Mutant: save_output is taken for a permission to save, not for an order.
MutSaveLargeOnly(r, long) == (r.save_output \/ r.auto_save) /\ long

\* long: the output has more lines than settings.save_threshold.
MustSave(r, long) == r.save_output \/ (r.auto_save /\ long)

SendSucceeds(c, long) ==
    /\ pc[c] = "send"
    /\ sends' = [sends EXCEPT ![c] = @ + 1]
    /\ Goto(c, IF MustSave(request[c], long) THEN "save" ELSE AfterSave)
    /\ UNCHANGED <<auditVars, storeVars, request, outcome, session, resultVars, crashes>>

\* send_command raises: an inner except clause logs and answers.
SendFails(c, e) ==
    /\ pc[c] = "send"
    /\ sends' = [sends EXCEPT ![c] = @ + 1]
    /\ outcome' = [outcome EXCEPT ![c] = CommandOutcome(e)]
    /\ Goto(c, "log_command_error")
    /\ UNCHANGED <<auditVars, storeVars, request, session, resultVars, crashes>>

\* _save_device_output names the file and opens it.
OpenOutput(c) ==
    LET name == FileNameOf(request[c].device, request[c].command)
    IN  /\ pc[c] = "save"
        /\ TruncateFile(name)
        /\ savedAs' = [savedAs EXCEPT ![c] = name]
        /\ Goto(c, "write")
        /\ UNCHANGED <<auditVars, request, outcome, deviceVars, reply, transcripts, crashes>>

\* _save_device_output writes the output and returns.
WriteOutput(c) ==
    /\ pc[c] = "write"
    /\ WriteFile(savedAs[c], c)
    /\ Goto(c, AfterSave)
    /\ UNCHANGED <<auditVars, request, outcome, deviceVars, resultVars, crashes>>

\* save_channel_transcript; its file name holds the correlation id.
SaveTranscript(c) ==
    /\ pc[c] = "transcript"
    /\ transcripts' = transcripts \cup {c}
    /\ Goto(c, "log_success")
    /\ UNCHANGED <<auditVars, storeVars, request, outcome, deviceVars, reply, savedAs, crashes>>

\* The device name is no file name, or the file system refuses: the save or
\* the transcript raises.
BodyRaises(c) ==
    /\ pc[c] \in {"save", "write", "transcript"}
    /\ outcome' = [outcome EXCEPT ![c] = ConnectionOutcome("Exception")]
    /\ Goto(c, "unwind")
    /\ UNCHANGED <<auditVars, storeVars, request, deviceVars, resultVars, crashes>>

-----------------------------------------------------------------------------
(* The end of the with block. *)

\* Mutant: after an exception the command is tried again on a new session.
MutReconnect(point) == IF point = "close" THEN "done" ELSE "connect"

\* _managed_connection disconnects: after a return the call is over, after
\* an exception the outer except clauses take it.
AfterDisconnect(point) == IF point = "close" THEN "done" ELSE "log_connection_error"

Disconnect(c) ==
    /\ pc[c] \in {"close", "unwind"}
    /\ session' = [session EXCEPT ![c] = "disconnected"]
    /\ Goto(c, AfterDisconnect(pc[c]))
    /\ UNCHANGED <<auditVars, storeVars, request, outcome, sends, resultVars, crashes>>

\* disconnect() raises e, which the outer except clauses take; the return
\* value, or the exception under way, is lost.
DisconnectRaises(c, e) ==
    /\ DisconnectMayRaise
    /\ pc[c] \in {"close", "unwind"}
    /\ session' = [session EXCEPT ![c] = "disconnected"]
    /\ outcome' = [outcome EXCEPT ![c] = ConnectionOutcome(e)]
    /\ Goto(c, "log_connection_error")
    /\ UNCHANGED <<auditVars, storeVars, request, sends, resultVars, crashes>>

-----------------------------------------------------------------------------
(* The environment. *)

\* The process dies with every call it serves.  Log, outputs and transcripts
\* stay; the sockets of its sessions are closed with it.
CrashCalls ==
    /\ crashes < MaxCrashes
    /\ crashes' = crashes + 1
    /\ EmitsCrash
    /\ pc' = [c \in Calls |-> IF Running(c) THEN "crashed" ELSE pc[c]]
    /\ session' = [c \in Calls |-> IF session[c] = "open" THEN "disconnected"
                                   ELSE session[c]]
    /\ UNCHANGED <<storeVars, request, outcome, sends, resultVars>>

Crash ==
    /\ \E c \in Calls : Running(c)
    /\ CrashCalls

\* A second passes.
Tick ==
    /\ ClockTicks
    /\ UNCHANGED <<auditVars, pc, request, outcome, deviceVars, resultVars, crashes>>

\* Nothing is left to do; the server waits for calls that never come.
Quiet ==
    /\ \A c \in Calls : pc[c] \in Finished
    /\ UNCHANGED vars

-----------------------------------------------------------------------------

\* What the thread of c does next.
CallStep(c) ==
    \/ WriteRecord(c)
    \/ AuditFails(c)
    \/ AttemptLogged(c)
    \/ FailureLogged(c)
    \/ OutcomeLogged(c)
    \/ LookupSucceeds(c)
    \/ LookupFails(c)
    \/ ConnectSucceeds(c)
    \/ \E e \in Raisable : ConnectFails(c, e)
    \/ \E long \in BOOLEAN : SendSucceeds(c, long)
    \/ \E e \in Raisable : SendFails(c, e)
    \/ OpenOutput(c)
    \/ WriteOutput(c)
    \/ SaveTranscript(c)
    \/ BodyRaises(c)
    \/ Disconnect(c)
    \/ \E e \in Raisable : DisconnectRaises(c, e)

Next ==
    \/ \E c \in Calls, d \in Devices, m \in Commands, save \in BOOLEAN :
          SendShowCommand(c, d, m, save)
    \/ \E c \in Calls : CallStep(c)
    \/ Crash
    \/ Tick
    \/ Quiet

Spec == Init /\ [][Next]_vars

\* A started call is run by a thread of its own until it is over.  Connecting
\* and sending are bounded by the timeouts of netmiko, so each of their steps
\* ends, one way or the other.  Nothing makes a client call, a handler fail
\* or the process die.
FairSpec == Spec /\ \A c \in Calls : WF_vars(CallStep(c))

-----------------------------------------------------------------------------
(* Properties. *)

TypeOK ==
    /\ AuditTypeOK
    /\ StoreTypeOK
    /\ pc \in [Calls -> Points]
    /\ request \in [Calls -> Requests \cup {NoRequest}]
    /\ outcome \in [Calls -> Outcomes]
    /\ reply \in [Calls -> Replies]
    /\ session \in [Calls -> {"none", "open", "disconnected"}]
    /\ sends \in [Calls -> Nat]
    /\ savedAs \in [Calls -> FileNames \cup {<<>>}]
    /\ transcripts \subseteq Calls
    /\ crashes \in 0..MaxCrashes

\* "No command should be executed without a corresponding audit record"
\* (audit.py:15): whatever fails, a command reaches a device only once every
\* configured sink holds its permission.
NoUnauditedExecution ==
    \A c \in Calls : sends[c] > 0 => Allowed(c) /\ Recorded(c, ALLOWED)

Trail(s, c) == auditLog[s][c]

CommandOutcomes == {CommandOutcome(e) : e \in Exceptions}
ConnectionOutcomes == {ConnectionOutcome(e) : e \in Exceptions}

\* What a reader of one sink can find under one correlation id, with every
\* combination of failing handlers, errors and crashes: the verdict first,
\* nothing after a denial, and after an outcome of the with block at most
\* one more, of an outer except clause.
OutcomeTrail ==
    \A s \in Sinks, c \in Calls :
        LET trail == Trail(s, c)
        IN  /\ Len(trail) <= 3
            /\ Len(trail) >= 1 => trail[1] = Verdict(c)
            /\ Len(trail) >= 2 => Allowed(c) /\ trail[2] \in Outcomes
            /\ Len(trail) = 3 => /\ trail[2] \in {"SUCCESS"} \cup CommandOutcomes
                                 /\ trail[3] \in ConnectionOutcomes

\* The last record of a sink agrees with the answer of a call that returned:
\* no answer reaches the client without its record in every sink.
ReplyKinds(rec) ==
    CASE rec = "SUCCESS" -> {"output", "saved"}
      [] rec = DENIED -> {"security_error"}
      [] rec = "INVENTORY_ERROR" -> {"inventory_error"}
      [] rec = ALLOWED -> {}
      [] OTHER -> {ErrorReply(rec)}

ReplyAgreesWithAudit ==
    \A c \in Calls, s \in ConfiguredSinks :
        pc[c] = "done" => /\ Trail(s, c) # <<>>
                          /\ reply[c] \in ReplyKinds(Trail(s, c)[Len(Trail(s, c))])

\* While disconnect() does not raise, the outcome in the log tells an
\* investigator whether the device was asked at all.
OutcomeTellsWhetherSent ==
    \A c \in Calls, o \in Outcomes \cup {DENIED} : Seen(c, o) =>
        /\ o \in {DENIED, "INVENTORY_ERROR", "AUTH_FAILURE", "TIMEOUT", "SSH_ERROR"} =>
               sends[c] = 0
        /\ o \in {"SUCCESS", "READ_TIMEOUT", "READ_ERROR", "WRITE_ERROR"} =>
               sends[c] = 1

\* The with block of _managed_connection: whatever happens in it, disconnect()
\* is called before the call is over.
SessionReleased ==
    \A c \in Calls : pc[c] \in Finished => session[c] # "open"

\* Two calls that chose the same file.
Twins(c, d) == c # d /\ savedAs[c] = savedAs[d]

\* A success in the audit log vouches for the files of the call, even if the
\* process died right after it was written: the transcript is on disk, and
\* the saved output is, unless a call of the same device, file name and
\* second overwrote it.
SuccessIsDurable ==
    \A c \in Calls : Seen(c, "SUCCESS") =>
        /\ ReadTranscript => c \in transcripts
        /\ request[c].save_output => savedAs[c] # <<>>
        /\ savedAs[c] # <<>> =>
               \/ Intact(savedAs[c], c)
               \/ \E d \in Calls : Twins(c, d)

\* A file of the output directory can be attributed: what it holds was read
\* from the device it is filed under, by a command its name stands for.
BelongsTo(name, c) ==
    /\ request[c].device = name[1]
    /\ SafeName[request[c].command] = name[2]

FilesHoldTheirOutput ==
    \A name \in DOMAIN outputs : \A c \in outputs[name] :
        BelongsTo(name, c) /\ sends[c] = 1

\* The promise of the abstract specification.
Gate == INSTANCE CommandGate WITH
    Audited <- AuditEnabled,
    recorded <- {c \in Calls : Recorded(c, ALLOWED)},
    executed <- sends,
    finished <- {c \in Calls : pc[c] \in Finished}

GateSpec == Gate!Spec

\* A call that was made comes to an end, whatever raises on its way.
CallTerminates ==
    \A c \in Calls : pc[c] = "log_attempt" ~> pc[c] \in Finished

-----------------------------------------------------------------------------
(* The inductive invariant from which ShowCommandProofs derives the safety   *)
(* properties.                                                               *)

\* The points a call reaches only once log_attempt returned and allowed it.
PastDecision == {"lookup", "connect"} \cup (Logging \ {"log_attempt"}) \cup WithBlock

\* The points before send_command is called.
BeforeSend == {"idle", "log_attempt", "lookup", "connect", "log_inventory", "send"}

\* A call that started has its arguments; one that writes has its file open.
Linked ==
    \A c \in Calls :
        /\ pc[c] # "idle" => request[c] \in Requests
        /\ pc[c] = "write" => savedAs[c] \in DOMAIN outputs

\* Where the permission of c is, at each point: with the handlers that took it
\* so far, then in every sink; and c sends at most once, after that.
PermissionHeld(c) ==
    /\ pc[c] = "log_attempt" =>
          \A i \in 1..emitted[c] : InLog(Handlers[i], c, Verdict(c))
    /\ pc[c] \notin Logging => emitted[c] = 0
    /\ pc[c] \in PastDecision => Allowed(c) /\ Recorded(c, ALLOWED)
    /\ pc[c] \in BeforeSend => sends[c] = 0
    /\ sends[c] > 0 => Allowed(c) /\ Recorded(c, ALLOWED)
    /\ sends[c] <= 1

PermissionInv == TypeOK /\ Linked /\ \A c \in Calls : PermissionHeld(c)

\* A session is open only inside the with block.
SessionInv == \A c \in Calls : session[c] = "open" => pc[c] \in WithBlock

\* What a file holds, and what a call is about to write, belongs there.
FilesInv ==
    /\ FilesHoldTheirOutput
    /\ \A c \in Calls :
          /\ pc[c] \in {"save", "write"} => sends[c] = 1
          /\ pc[c] = "write" => BelongsTo(savedAs[c], c)

-----------------------------------------------------------------------------
(* Claims of the documentation, which the code does not keep. *)

OutcomesSeen(s, c) == {i \in 1..Len(Trail(s, c)) : Trail(s, c)[i] \in Outcomes}

\* "For device commands this means two records: one at validation time ...
\* and one after the connection attempt" (audit.py:4-6): one outcome.
AtMostOneOutcome ==
    \A s \in Sinks, c \in Calls : \A i, j \in OutcomesSeen(s, c) : i = j

\* "the raw bytes read from the SSH channel during each send_show_command call
\* are saved to a file" (docs/configuration.md:379): a call that sent its
\* command and answered has its transcript.
EverySessionTranscribed ==
    \A c \in Calls :
        ReadTranscript /\ pc[c] = "done" /\ sends[c] > 0 => c \in transcripts

\* A call answered "Output saved as" can be read back from that file.
SavedOutputIntact ==
    \A c \in Calls : pc[c] = "done" /\ reply[c] = "saved" => Intact(savedAs[c], c)

=============================================================================
