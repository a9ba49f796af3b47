-------------------------- MODULE ShowCommandProofs --------------------------
(***************************************************************************)
(* Proofs about ShowCommand, for every set of calls, devices and commands, *)
(* every destination of the audit log and every combination of failures.   *)
(***************************************************************************)
EXTENDS ShowCommand, AuditLogProofs

-----------------------------------------------------------------------------
(* The types of what the steps compute. *)

\* The except clauses log outcomes, and what is emitted is a record.
LEMMA OutcomeTypes ==
    /\ \A e : CommandOutcome(e) \in Outcomes /\ ConnectionOutcome(e) \in Outcomes
    /\ \A o : ErrorReply(o) \in Replies
BY DEF CommandOutcome, ConnectionOutcome, Outcomes, ErrorReply, Replies

LEMMA PendingType ==
    ASSUME TypeOK, NEW c \in Calls
    PROVE  Pending(c) \in Records /\ c \in Ids
<1>1. outcome[c] \in Outcomes
  BY DEF TypeOK
<1> QED BY <1>1, CallsAssumption
        DEF Pending, Verdict, Records, Verdicts, Outcomes, ALLOWED, DENIED

\* A file that is saved now is named within FileNames.
LEMMA FileNameType ==
    ASSUME StoreTypeOK, NEW d \in Devices, NEW m \in Commands
    PROVE  FileNameOf(d, m) \in FileNames
BY DEF StoreTypeOK, FileNameOf, FileNames

-----------------------------------------------------------------------------
(* Type correctness. *)

LEMMA TypeInit == Init => TypeOK /\ Linked
<1> SUFFICES ASSUME Init PROVE TypeOK /\ Linked
  OBVIOUS
<1>1. AuditTypeOK
  <2>1. 0 \in 0..Len(Handlers)
    BY HandlersType
  <2> QED BY <2>1 DEF Init, AuditInit, AuditTypeOK
<1>2. StoreTypeOK
  BY MaxClockAssumption DEF Init, StoreInit, StoreTypeOK
<1>3. Linked
  BY DEF Init, Linked
<1> QED BY <1>1, <1>2, <1>3, MaxCrashesAssumption
        DEF Init, TypeOK, Points, Outcomes, Replies

\* The steps of a call keep the types.  pc never leaves Points, and only
\* OpenOutput leads to "write", with the file it created.
LEMMA TypeCallStep ==
    ASSUME TypeOK, Linked, NEW c \in Calls, CallStep(c)
    PROVE  TypeOK' /\ Linked'
<1>1. c \in Ids /\ Pending(c) \in Records
  BY PendingType
<1>2. AuditTypeOK /\ StoreTypeOK
  BY DEF TypeOK
<1>3. CASE WriteRecord(c)
  <2>1. AuditTypeOK'
    BY <1>1, <1>2, <1>3, EmitStep DEF WriteRecord
  <2> QED BY <1>3, <2>1
          DEF WriteRecord, TypeOK, Linked, StoreTypeOK, storeVars, deviceVars, resultVars
<1>4. CASE AuditFails(c)
  <2>1. AuditTypeOK'
    BY <1>1, <1>2, <1>4, EmitStep DEF AuditFails
  <2>2. pc' \in [Calls -> Points] /\ pc'[c] # "write"
    BY <1>4 DEF AuditFails, Goto, OnAuditFailure, TypeOK, Points, WithBlock, Finished
  <2>3. outcome' \in [Calls -> Outcomes]
    BY <1>4, OutcomeTypes DEF AuditFails, TypeOK
  <2> QED BY <1>4, <2>1, <2>2, <2>3
          DEF AuditFails, Goto, TypeOK, Linked, StoreTypeOK, Logging,
              storeVars, deviceVars, resultVars
<1>5. ASSUME AttemptLogged(c) \/ FailureLogged(c) \/ OutcomeLogged(c)
      PROVE  TypeOK' /\ Linked'
  <2>1. EmitReturns(c)
    BY <1>5 DEF AttemptLogged, FailureLogged, OutcomeLogged
  <2>2. AuditTypeOK'
    BY <1>1, <1>2, <2>1, EmitStep
  <2>3. /\ pc' \in [Calls -> Points] /\ pc'[c] # "write" /\ pc[c] # "idle"
        /\ \A d \in Calls : d # c => pc'[d] = pc[d]
    BY <1>5 DEF AttemptLogged, FailureLogged, OutcomeLogged, Goto,
                TypeOK, Points, WithBlock, Finished
  <2>4. reply' \in [Calls -> Replies]
    BY <1>5, OutcomeTypes DEF AttemptLogged, FailureLogged, OutcomeLogged, TypeOK, Replies
  <2> QED BY <1>5, <2>2, <2>3, <2>4
          DEF AttemptLogged, FailureLogged, OutcomeLogged, TypeOK, Linked, StoreTypeOK,
              storeVars, deviceVars
<1>6. CASE LookupSucceeds(c) \/ LookupFails(c)
  BY <1>6 DEF LookupSucceeds, LookupFails, Goto, TypeOK, Linked, AuditTypeOK, StoreTypeOK,
              Points, Logging, Finished, auditVars, storeVars, deviceVars, resultVars
<1>7. CASE ConnectSucceeds(c)
  BY <1>7 DEF ConnectSucceeds, Goto, TypeOK, Linked, AuditTypeOK, StoreTypeOK,
              Points, WithBlock, auditVars, storeVars, resultVars
<1>8. ASSUME NEW e \in Raisable, ConnectFails(c, e)
      PROVE  TypeOK' /\ Linked'
  BY <1>8, OutcomeTypes
     DEF ConnectFails, Goto, TypeOK, Linked, AuditTypeOK, StoreTypeOK,
         Points, Logging, auditVars, storeVars, deviceVars, resultVars
<1>9. ASSUME NEW long \in BOOLEAN, SendSucceeds(c, long)
      PROVE  TypeOK' /\ Linked'
  BY <1>9 DEF SendSucceeds, AfterSave, Goto, TypeOK, Linked, AuditTypeOK, StoreTypeOK,
              Points, WithBlock, auditVars, storeVars, resultVars
<1>10. ASSUME NEW e \in Raisable, SendFails(c, e)
       PROVE  TypeOK' /\ Linked'
  BY <1>10, OutcomeTypes
     DEF SendFails, Goto, TypeOK, Linked, AuditTypeOK, StoreTypeOK,
         Points, Logging, auditVars, storeVars, resultVars
<1>11. CASE OpenOutput(c)
  <2> DEFINE name == FileNameOf(request[c].device, request[c].command)
  <2>1. request[c] \in Requests
    BY <1>11 DEF OpenOutput, Linked
  <2>2. name \in FileNames
    BY <1>2, <2>1, FileNameType DEF Requests
  <2>3. /\ DOMAIN outputs' = DOMAIN outputs \cup {name}
        /\ \A n \in DOMAIN outputs' : outputs'[n] = IF n = name THEN {} ELSE outputs[n]
        /\ clock' = clock
    BY <1>11 DEF OpenOutput, TruncateFile, WithContent
  <2>4. StoreTypeOK'
    BY <1>2, <2>2, <2>3 DEF StoreTypeOK
  <2>5. savedAs' \in [Calls -> FileNames \cup {<<>>}] /\ savedAs'[c] = name
    BY <1>11, <2>2 DEF OpenOutput, TypeOK
  <2>6. Linked'
    BY <1>11, <2>1, <2>3, <2>5 DEF OpenOutput, Linked, Goto, TypeOK
  <2> QED BY <1>11, <2>4, <2>5, <2>6
          DEF OpenOutput, Goto, TypeOK, AuditTypeOK, Points, WithBlock, auditVars, deviceVars
<1>12. CASE WriteOutput(c)
  <2>1. savedAs[c] \in DOMAIN outputs
    BY <1>12 DEF WriteOutput, Linked
  <2>2. PICK kept \in SUBSET outputs[savedAs[c]] :
             outputs' = WithContent(savedAs[c], kept \cup {c})
    BY <1>12 DEF WriteOutput, WriteFile
  <2>3. kept \subseteq Calls
    BY <1>2, <2>1 DEF StoreTypeOK
  <2>4. /\ DOMAIN outputs' = DOMAIN outputs
        /\ \A n \in DOMAIN outputs :
              outputs'[n] = IF n = savedAs[c] THEN kept \cup {c} ELSE outputs[n]
        /\ clock' = clock
    BY <1>12, <2>1, <2>2 DEF WriteOutput, WriteFile, WithContent
  <2>5. StoreTypeOK'
    BY <1>2, <2>3, <2>4 DEF StoreTypeOK
  <2> QED BY <1>12, <2>4, <2>5
          DEF WriteOutput, AfterSave, Goto, TypeOK, Linked, AuditTypeOK, Points, WithBlock,
              auditVars, deviceVars, resultVars
<1>13. CASE SaveTranscript(c)
  BY <1>13 DEF SaveTranscript, Goto, TypeOK, Linked, AuditTypeOK, StoreTypeOK,
               Points, WithBlock, auditVars, storeVars, deviceVars
<1>14. CASE BodyRaises(c)
  BY <1>14, OutcomeTypes
     DEF BodyRaises, Goto, TypeOK, Linked, AuditTypeOK, StoreTypeOK,
         Points, WithBlock, auditVars, storeVars, deviceVars, resultVars
<1>15. CASE Disconnect(c)
  BY <1>15 DEF Disconnect, AfterDisconnect, Goto, TypeOK, Linked, AuditTypeOK, StoreTypeOK,
               Points, Logging, Finished, auditVars, storeVars, resultVars
<1>16. ASSUME NEW e \in Raisable, DisconnectRaises(c, e)
       PROVE  TypeOK' /\ Linked'
  BY <1>16, OutcomeTypes
     DEF DisconnectRaises, Goto, TypeOK, Linked, AuditTypeOK, StoreTypeOK,
         Points, Logging, auditVars, storeVars, resultVars
<1> QED BY <1>3, <1>4, <1>5, <1>6, <1>7, <1>8, <1>9, <1>10, <1>11, <1>12,
           <1>13, <1>14, <1>15, <1>16 DEF CallStep

\* So does the start of a call, and the death of the process.
LEMMA TypeStart ==
    ASSUME TypeOK, Linked, NEW c \in Calls, NEW r \in Requests, Start(c, r)
    PROVE  TypeOK' /\ Linked'
BY DEF Start, Goto, TypeOK, Linked, AuditTypeOK, StoreTypeOK, Points, Logging,
       auditVars, storeVars, deviceVars, resultVars

LEMMA TypeCrash ==
    ASSUME TypeOK, Linked, CrashCalls
    PROVE  TypeOK' /\ Linked'
<1>1. emitted' \in [Ids -> 0..Len(Handlers)] /\ UNCHANGED auditLog
  BY HandlersType DEF CrashCalls, EmitsCrash, TypeOK, AuditTypeOK
<1>2. /\ pc' \in [Calls -> Points]
      /\ \A c \in Calls : pc'[c] = pc[c] \/ (pc'[c] = "crashed" /\ pc[c] # "idle")
  BY DEF CrashCalls, Running, TypeOK, Points, Finished
<1>3. session' \in [Calls -> {"none", "open", "disconnected"}]
  BY DEF CrashCalls, TypeOK
<1>4. crashes' \in 0..MaxCrashes
  BY MaxCrashesAssumption DEF CrashCalls, TypeOK
<1> QED BY <1>1, <1>2, <1>3, <1>4
        DEF CrashCalls, TypeOK, Linked, AuditTypeOK, StoreTypeOK, storeVars, resultVars

LEMMA TypeStep == TypeOK /\ Linked /\ [Next]_vars => TypeOK' /\ Linked'
<1> SUFFICES ASSUME TypeOK, Linked, [Next]_vars
             PROVE  TypeOK' /\ Linked'
  OBVIOUS
<1>1. ASSUME NEW c \in Calls, NEW d \in Devices, NEW m \in Commands, NEW save \in BOOLEAN,
             SendShowCommand(c, d, m, save)
      PROVE  TypeOK' /\ Linked'
  <2>1. PICK r \in Requests : Start(c, r)
    BY <1>1 DEF SendShowCommand, Requests
  <2> QED BY <2>1, TypeStart
<1>2. ASSUME NEW c \in Calls, CallStep(c)
      PROVE  TypeOK' /\ Linked'
  BY <1>2, TypeCallStep
<1>3. CASE Crash
  BY <1>3, TypeCrash DEF Crash
<1>4. CASE Tick
  <2>1. StoreTypeOK' /\ UNCHANGED outputs
    BY <1>4, MaxClockAssumption DEF Tick, ClockTicks, TypeOK, StoreTypeOK, FileNames
  <2> QED BY <1>4, <2>1
          DEF Tick, TypeOK, Linked, AuditTypeOK, auditVars, deviceVars, resultVars
<1>5. CASE UNCHANGED vars
  BY <1>5 DEF vars, auditVars, storeVars, deviceVars, resultVars,
              TypeOK, Linked, AuditTypeOK, StoreTypeOK
<1> QED BY <1>1, <1>2, <1>3, <1>4, <1>5 DEF Next, Quiet

\* Every variable keeps its type: a call has its arguments once it started,
\* pc stays within the points of run_show_command, and what is logged is a
\* verdict or an outcome of audit.py.
THEOREM TypeCorrect == Spec => []TypeOK
<1>1. Spec => [](TypeOK /\ Linked)
  BY TypeInit, TypeStep, PTL DEF Spec
<1> QED BY <1>1, PTL

-----------------------------------------------------------------------------
(* No command without its permission in the log. *)

\* A step that loses no record and leaves d where it is keeps what is known
\* of the permission of d.
LEMMA OthersKeepPermission ==
    ASSUME NEW d \in Calls, PermissionHeld(d),
           \A t \in Sinks : \A r : InLog(t, d, r) => InLog(t, d, r)',
           emitted[d] \in 0..Len(Handlers), emitted'[d] = emitted[d],
           pc'[d] = pc[d], request'[d] = request[d], sends'[d] = sends[d]
    PROVE  PermissionHeld(d)'
<1>1. Allowed(d)' = Allowed(d) /\ Verdict(d)' = Verdict(d)
  BY DEF Allowed, Verdict
<1>2. Recorded(d, ALLOWED) => Recorded(d, ALLOWED)'
  BY ConfiguredSinksType DEF Recorded
<1>3. ASSUME pc[d] = "log_attempt", NEW i \in 1..emitted[d]
      PROVE  InLog(Handlers[i], d, Verdict(d))'
  <2>1. InLog(Handlers[i], d, Verdict(d)) /\ Handlers[i] \in Sinks
    BY <1>3, HandlersType DEF PermissionHeld
  <2> QED BY <1>1, <2>1
<1> QED BY <1>1, <1>2, <1>3 DEF PermissionHeld

\* A step of c outside the emits: the audit log stays as it is, and c does not
\* enter the points past the decision.
LEMMA QuietStepKeepsPermission ==
    ASSUME NEW c \in Calls, PermissionHeld(c), UNCHANGED auditVars,
           request'[c] = request[c], pc[c] \in PastDecision \ Logging,
           pc'[c] \in PastDecision \cup Finished,
           \/ sends'[c] = sends[c] /\ (pc'[c] \in BeforeSend => pc[c] \in BeforeSend)
           \/ sends'[c] = 1 /\ pc'[c] \notin BeforeSend
    PROVE  PermissionHeld(c)'
<1>1. Allowed(c)' = Allowed(c) /\ Recorded(c, ALLOWED)' = Recorded(c, ALLOWED)
  BY DEF Allowed, Recorded, InLog, auditVars
<1>2. Allowed(c) /\ Recorded(c, ALLOWED) /\ emitted[c] = 0 /\ emitted'[c] = 0
  BY DEF PermissionHeld, auditVars
<1>3. pc'[c] # "log_attempt"
  BY DEF PastDecision, Finished, WithBlock
<1> QED BY <1>1, <1>2, <1>3 DEF PermissionHeld

LEMMA PermissionCallStep ==
    ASSUME PermissionInv, NEW c \in Calls, CallStep(c)
    PROVE  \A d \in Calls : PermissionHeld(d)'
<1>1. c \in Ids /\ Pending(c) \in Records /\ Calls \subseteq Ids
  BY PendingType, CallsAssumption DEF PermissionInv
<1>2. /\ AuditTypeOK /\ Len(Handlers) \in Nat
      /\ pc \in [Calls -> Points] /\ request \in [Calls -> Requests \cup {NoRequest}]
      /\ sends \in [Calls -> Nat]
  BY HandlersType DEF PermissionInv, TypeOK
<1>3. PermissionHeld(c) /\ emitted[c] \in 0..Len(Handlers)
  BY <1>1, <1>2 DEF PermissionInv, AuditTypeOK
<1>4. /\ request' = request
      /\ \A d \in Calls : d # c => pc'[d] = pc[d] /\ sends'[d] = sends[d]
  BY <1>2 DEF CallStep, WriteRecord, AuditFails, AttemptLogged, FailureLogged, OutcomeLogged,
              LookupSucceeds, LookupFails, ConnectSucceeds, ConnectFails, SendSucceeds,
              SendFails, OpenOutput, WriteOutput, SaveTranscript, BodyRaises, Disconnect,
              DisconnectRaises, Goto, deviceVars
<1>5. \/ HandlerWrites(c, Pending(c)) \/ HandlerRaises(c, Pending(c)) \/ EmitReturns(c)
      \/ UNCHANGED auditVars
  BY DEF CallStep, WriteRecord, AuditFails, AttemptLogged, FailureLogged, OutcomeLogged,
         LookupSucceeds, LookupFails, ConnectSucceeds, ConnectFails, SendSucceeds,
         SendFails, OpenOutput, WriteOutput, SaveTranscript, BodyRaises, Disconnect,
         DisconnectRaises
<1>6. /\ \A t \in Sinks, d \in Ids : \A r : InLog(t, d, r) => InLog(t, d, r)'
      /\ \A d \in Ids : d # c => emitted'[d] = emitted[d]
  <2>1. CASE UNCHANGED auditVars
    BY <2>1 DEF auditVars, InLog
  <2>2. CASE ~UNCHANGED auditVars
    BY <1>1, <1>2, <1>5, <2>2, EmitStep
  <2> QED BY <2>1, <2>2
<1>7. ASSUME NEW d \in Calls, d # c
      PROVE  PermissionHeld(d)'
  BY <1>1, <1>2, <1>4, <1>6, <1>7, OthersKeepPermission DEF PermissionInv, AuditTypeOK
<1>8. Recorded(c, ALLOWED) => Recorded(c, ALLOWED)'
  BY <1>1, <1>6, ConfiguredSinksType DEF Recorded
<1>9. Allowed(c)' = Allowed(c) /\ Verdict(c)' = Verdict(c)
  BY <1>4 DEF Allowed, Verdict
<1>10. PermissionHeld(c)'
  <2>1. CASE WriteRecord(c)
    <3>1. pc' = pc /\ sends' = sends /\ pc[c] \in Logging /\ emitted'[c] = emitted[c] + 1
      BY <1>1, <1>2, <2>1 DEF WriteRecord, HandlerWrites, deviceVars, AuditTypeOK
    <3>2. ASSUME pc[c] = "log_attempt", NEW i \in 1..emitted'[c]
          PROVE  InLog(Handlers[i], c, Verdict(c))'
      <4>1. Handlers[i] \in Sinks
        BY <1>1, <1>2, <2>1, <3>1, HandlersType DEF WriteRecord, HandlerWrites, AuditTypeOK
      <4>2. CASE i \in 1..emitted[c]
        BY <1>1, <1>3, <1>6, <1>9, <3>2, <4>1, <4>2 DEF PermissionHeld
      <4>3. CASE i = emitted[c] + 1
        <5>1. Pending(c) = Verdict(c) /\ NextSink(c) = Handlers[i]
          BY <3>2, <4>3 DEF Pending, NextSink
        <5>2. auditLog' = Appended(NextSink(c), c, Pending(c))
          BY <2>1 DEF WriteRecord, HandlerWrites
        <5> QED BY <1>1, <1>2, <1>9, <4>1, <5>1, <5>2, AppendedGrows
      <4> QED BY <1>3, <3>1, <4>2, <4>3
    <3> QED BY <1>3, <1>8, <1>9, <3>1, <3>2 DEF PermissionHeld
  <2>2. CASE AuditFails(c)
    <3>1. /\ sends' = sends /\ emitted'[c] = 0 /\ pc[c] \in Logging
          /\ pc'[c] = OnAuditFailure(pc[c])
      BY <1>1, <1>2, <2>2 DEF AuditFails, HandlerRaises, Goto, deviceVars, AuditTypeOK
    <3>2. pc'[c] \in {"unwind", "raised"} /\ (pc'[c] = "unwind" => pc[c] \in PastDecision)
      BY <3>1 DEF OnAuditFailure, PastDecision
    <3> QED BY <1>3, <1>8, <1>9, <3>1, <3>2
            DEF PermissionHeld, PastDecision, BeforeSend, Logging, WithBlock
  <2>3. CASE AttemptLogged(c)
    <3>1. /\ pc[c] = "log_attempt" /\ pc'[c] = IF Allowed(c) THEN "lookup" ELSE "done"
          /\ sends'[c] = 0 /\ emitted[c] = Len(Handlers) /\ emitted'[c] = 0
      BY <1>1, <1>2, <1>3, <2>3
         DEF AttemptLogged, EmitReturns, Goto, deviceVars, AuditTypeOK, PermissionHeld, BeforeSend
    <3>2. Allowed(c) => Recorded(c, ALLOWED)
      BY <1>3, <3>1 DEF PermissionHeld, Recorded, ConfiguredSinks, Verdict
    <3> QED BY <1>8, <1>9, <3>1, <3>2 DEF PermissionHeld, PastDecision, BeforeSend, Logging, WithBlock
  <2>4. CASE FailureLogged(c) \/ OutcomeLogged(c)
    <3>1. /\ pc[c] \in PastDecision /\ pc'[c] \in {"done", "close"}
          /\ sends' = sends /\ emitted'[c] = 0
      BY <1>1, <1>2, <2>4 DEF FailureLogged, OutcomeLogged, EmitReturns, Goto, deviceVars,
                              AuditTypeOK, PastDecision, Logging
    <3> QED BY <1>3, <1>8, <1>9, <3>1 DEF PermissionHeld, PastDecision, BeforeSend, Logging, WithBlock
  <2>5. CASE LookupSucceeds(c) \/ LookupFails(c)
    BY <1>2, <1>3, <2>5, QuietStepKeepsPermission
       DEF LookupSucceeds, LookupFails, Goto, deviceVars,
           PastDecision, BeforeSend, Logging, Finished
  <2>6. CASE \/ ConnectSucceeds(c)
             \/ \E e \in Raisable : ConnectFails(c, e)
    BY <1>2, <1>3, <2>6, QuietStepKeepsPermission
       DEF ConnectSucceeds, ConnectFails, Goto, deviceVars,
           PastDecision, BeforeSend, Logging, WithBlock
  <2>7. CASE \/ \E long \in BOOLEAN : SendSucceeds(c, long)
             \/ \E e \in Raisable : SendFails(c, e)
    <3>1. /\ pc[c] = "send" /\ sends'[c] = sends[c] + 1 /\ UNCHANGED auditVars
          /\ pc'[c] \in {"save", "transcript", "log_success", "log_command_error"}
      BY <1>2, <2>7 DEF SendSucceeds, SendFails, AfterSave, Goto
    <3>2. sends'[c] = 1
      BY <1>3, <3>1 DEF PermissionHeld, BeforeSend
    <3> QED BY <1>3, <1>4, <3>1, <3>2, QuietStepKeepsPermission
            DEF PastDecision, BeforeSend, Logging, WithBlock
  <2>8. CASE \/ OpenOutput(c) \/ WriteOutput(c) \/ SaveTranscript(c) \/ BodyRaises(c)
             \/ Disconnect(c) \/ \E e \in Raisable : DisconnectRaises(c, e)
    <3>1. /\ pc[c] \in {"save", "write", "transcript", "close", "unwind"}
          /\ pc'[c] \in {"write", "transcript", "log_success", "unwind", "done",
                         "log_connection_error"}
          /\ sends'[c] = sends[c] /\ UNCHANGED auditVars
      BY <1>2, <2>8 DEF OpenOutput, WriteOutput, SaveTranscript, BodyRaises, Disconnect,
                        DisconnectRaises, AfterSave, AfterDisconnect, Goto, deviceVars
    <3> QED BY <1>3, <1>4, <3>1, QuietStepKeepsPermission
            DEF PastDecision, BeforeSend, Logging, WithBlock, Finished
  <2> QED BY <2>1, <2>2, <2>3, <2>4, <2>5, <2>6, <2>7, <2>8 DEF CallStep
<1> QED BY <1>7, <1>10

\* A call that starts has sent nothing, and logged nothing.
LEMMA StartKeepsPermission ==
    ASSUME PermissionInv, NEW c \in Calls, NEW r \in Requests, Start(c, r)
    PROVE  PermissionInv'
<1>1. /\ pc \in [Calls -> Points] /\ AuditTypeOK /\ Calls \subseteq Ids
      /\ \A d \in Calls : PermissionHeld(d)
      /\ request \in [Calls -> Requests \cup {NoRequest}] /\ sends \in [Calls -> Nat]
  BY CallsAssumption DEF PermissionInv, TypeOK
<1>2. PermissionHeld(c)'
  <2>1. pc[c] = "idle" /\ emitted[c] = 0 /\ sends[c] = 0
    BY <1>1 DEF Start, PermissionHeld, Logging, BeforeSend
  <2>2. pc'[c] = "log_attempt" /\ emitted'[c] = 0 /\ sends'[c] = 0
    BY <1>1, <2>1 DEF Start, Goto, auditVars, deviceVars
  <2> QED BY <2>2 DEF PermissionHeld, PastDecision, Logging, WithBlock
<1>3. ASSUME NEW k \in Calls, k # c
      PROVE  PermissionHeld(k)'
  <2>1. /\ pc'[k] = pc[k] /\ request'[k] = request[k] /\ sends'[k] = sends[k]
        /\ emitted'[k] = emitted[k] /\ emitted[k] \in 0..Len(Handlers)
        /\ UNCHANGED auditLog
    BY <1>1, <1>3 DEF Start, Goto, auditVars, deviceVars, AuditTypeOK
  <2> QED BY <1>1, <2>1, OthersKeepPermission DEF InLog
<1> QED BY <1>2, <1>3, TypeStart DEF PermissionInv

\* A process that dies takes its emits with it, and no record.
LEMMA CrashKeepsPermission ==
    ASSUME PermissionInv, CrashCalls
    PROVE  PermissionInv'
<1>1. /\ pc \in [Calls -> Points] /\ AuditTypeOK /\ Calls \subseteq Ids
      /\ \A d \in Calls : PermissionHeld(d)
  BY CallsAssumption DEF PermissionInv, TypeOK
<1>2. UNCHANGED <<auditLog, request, sends>>
  BY DEF CrashCalls, EmitsCrash
<1>3. ASSUME NEW d \in Calls
      PROVE  PermissionHeld(d)'
  <2>1. CASE Running(d)
    <3>1. pc'[d] = "crashed" /\ emitted'[d] = 0
      BY <1>1, <2>1 DEF CrashCalls, EmitsCrash
    <3>2. PermissionHeld(d) /\ Allowed(d)' = Allowed(d)
          /\ Recorded(d, ALLOWED)' = Recorded(d, ALLOWED)
      BY <1>1, <1>2 DEF Allowed, Recorded, InLog
    <3> QED BY <1>2, <3>1, <3>2 DEF PermissionHeld, PastDecision, BeforeSend, Logging, WithBlock
  <2>2. CASE ~Running(d)
    <3>1. emitted[d] = 0
      BY <1>1, <2>2 DEF PermissionHeld, Running, Logging, Finished
    <3>2. pc'[d] = pc[d] /\ emitted'[d] = emitted[d] /\ emitted[d] \in 0..Len(Handlers)
      BY <1>1, <2>2, <3>1 DEF CrashCalls, EmitsCrash, AuditTypeOK
    <3> QED BY <1>1, <1>2, <3>2, OthersKeepPermission DEF InLog
  <2> QED BY <2>1, <2>2
<1> QED BY <1>3, TypeCrash DEF PermissionInv

LEMMA PermissionStep == PermissionInv /\ [Next]_vars => PermissionInv'
<1> SUFFICES ASSUME PermissionInv, [Next]_vars
             PROVE  PermissionInv'
  OBVIOUS
<1>1. AuditTypeOK /\ Calls \subseteq Ids /\ \A d \in Calls : PermissionHeld(d)
  BY CallsAssumption DEF PermissionInv, TypeOK
<1>2. ASSUME NEW c \in Calls, NEW d \in Devices, NEW m \in Commands, NEW save \in BOOLEAN,
             SendShowCommand(c, d, m, save)
      PROVE  PermissionInv'
  <2>1. PICK r \in Requests : Start(c, r)
    BY <1>2 DEF SendShowCommand, Requests
  <2> QED BY <2>1, StartKeepsPermission
<1>3. ASSUME NEW c \in Calls, CallStep(c)
      PROVE  PermissionInv'
  BY <1>3, TypeCallStep, PermissionCallStep DEF PermissionInv
<1>4. CASE Crash
  BY <1>4, CrashKeepsPermission DEF Crash
<1>5. CASE Tick \/ UNCHANGED vars
  <2>1. ASSUME NEW d \in Calls
        PROVE  PermissionHeld(d)'
    <3>1. UNCHANGED <<auditLog, emitted, pc, request, sends>>
      BY <1>5 DEF Tick, vars, auditVars, deviceVars
    <3> QED BY <1>1, <3>1, OthersKeepPermission DEF InLog, AuditTypeOK
  <2> QED BY <2>1, TypeStep DEF PermissionInv
<1> QED BY <1>2, <1>3, <1>4, <1>5 DEF Next, Quiet

LEMMA PermissionInit == Init => PermissionInv
<1> SUFFICES ASSUME Init PROVE PermissionInv
  OBVIOUS
<1>1. \A c \in Calls : pc[c] = "idle" /\ sends[c] = 0 /\ emitted[c] = 0
  BY CallsAssumption DEF Init, AuditInit
<1>2. \A c \in Calls : PermissionHeld(c)
  BY <1>1 DEF PermissionHeld, PastDecision, Logging, WithBlock
<1> QED BY <1>2, TypeInit DEF PermissionInv

\* The permission of a call is where its place in the code says, and a call
\* sends its command at most once.
THEOREM PermissionInvariant == Spec => []PermissionInv
BY PermissionInit, PermissionStep, PTL DEF Spec

\* Fail-closed: with every destination of the audit log and every combination
\* of failing handlers, exceptions and crashes, a command is sent to a device
\* only once every configured sink holds the record that allows it.
THEOREM NoUnauditedExecutionCorrect == Spec => []NoUnauditedExecution
<1>1. PermissionInv => NoUnauditedExecution
  BY DEF PermissionInv, TypeOK, PermissionHeld, NoUnauditedExecution
<1> QED BY <1>1, PermissionInvariant, PTL

\* The step of a call ends, saves and logs nothing but its own.
LEMMA CallStepIsLocal ==
    ASSUME PermissionInv, NEW c \in Calls, CallStep(c)
    PROVE  /\ Running(c) /\ pc'[c] # "idle" /\ DOMAIN outputs \subseteq DOMAIN outputs'
           /\ \A d \in Calls : d # c => /\ pc'[d] = pc[d] /\ reply'[d] = reply[d]
                                        /\ savedAs'[d] = savedAs[d]
                                        /\ outcome'[d] = outcome[d]
           /\ request' = request
           /\ \A d \in Ids : d # c => /\ emitted'[d] = emitted[d]
                                      /\ \A t \in Sinks : auditLog'[t][d] = auditLog[t][d]
<1>1. /\ c \in Ids /\ Pending(c) \in Records /\ TypeOK
      /\ AuditTypeOK /\ pc \in [Calls -> Points] /\ reply \in [Calls -> Replies]
      /\ savedAs \in [Calls -> FileNames \cup {<<>>}]
      /\ outcome \in [Calls -> Outcomes]
  BY PendingType DEF PermissionInv, TypeOK
<1>2. /\ Running(c) /\ pc'[c] # "idle"
      /\ \A d \in Calls : d # c => pc'[d] = pc[d]
  BY <1>1 DEF CallStep, WriteRecord, AuditFails, AttemptLogged, FailureLogged, OutcomeLogged,
              LookupSucceeds, LookupFails, ConnectSucceeds, ConnectFails, SendSucceeds,
              SendFails, OpenOutput, WriteOutput, SaveTranscript, BodyRaises, Disconnect,
              DisconnectRaises, Goto, OnAuditFailure, AfterSave, AfterDisconnect,
              Running, Logging, Finished
<1>3. \A d \in Calls : d # c => reply'[d] = reply[d] /\ savedAs'[d] = savedAs[d]
  BY <1>1 DEF CallStep, WriteRecord, AuditFails, AttemptLogged, FailureLogged, OutcomeLogged,
              LookupSucceeds, LookupFails, ConnectSucceeds, ConnectFails, SendSucceeds,
              SendFails, OpenOutput, WriteOutput, SaveTranscript, BodyRaises, Disconnect,
              DisconnectRaises, resultVars
<1>4. DOMAIN outputs \subseteq DOMAIN outputs'
  BY DEF CallStep, WriteRecord, AuditFails, AttemptLogged, FailureLogged, OutcomeLogged,
         LookupSucceeds, LookupFails, ConnectSucceeds, ConnectFails, SendSucceeds,
         SendFails, OpenOutput, TruncateFile, WriteOutput, WriteFile, WithContent,
         SaveTranscript, BodyRaises, Disconnect, DisconnectRaises, storeVars
<1>5. \/ HandlerWrites(c, Pending(c)) \/ HandlerRaises(c, Pending(c)) \/ EmitReturns(c)
      \/ UNCHANGED auditVars
  BY DEF CallStep, WriteRecord, AuditFails, AttemptLogged, FailureLogged, OutcomeLogged,
         LookupSucceeds, LookupFails, ConnectSucceeds, ConnectFails, SendSucceeds,
         SendFails, OpenOutput, WriteOutput, SaveTranscript, BodyRaises, Disconnect,
         DisconnectRaises
<1>6. \A d \in Ids : d # c => /\ emitted'[d] = emitted[d]
                              /\ \A t \in Sinks : auditLog'[t][d] = auditLog[t][d]
  <2>1. CASE UNCHANGED auditVars
    BY <2>1 DEF auditVars
  <2>2. CASE ~UNCHANGED auditVars
    BY <1>1, <1>5, <2>2, EmitStep
  <2> QED BY <2>1, <2>2
<1>7. request' = request /\ \A d \in Calls : d # c => outcome'[d] = outcome[d]
  BY <1>1 DEF CallStep, WriteRecord, AuditFails, AttemptLogged, FailureLogged, OutcomeLogged,
              LookupSucceeds, LookupFails, ConnectSucceeds, ConnectFails, SendSucceeds,
              SendFails, OpenOutput, WriteOutput, SaveTranscript, BodyRaises, Disconnect,
              DisconnectRaises
<1> QED BY <1>2, <1>3, <1>4, <1>6, <1>7

-----------------------------------------------------------------------------
(* ShowCommand implements CommandGate. *)

RecordedCalls == {c \in Calls : Recorded(c, ALLOWED)}
FinishedCalls == {c \in Calls : pc[c] \in Finished}

LEMMA GateInit == Init => Gate!Init
<1> SUFFICES ASSUME Init PROVE Gate!Init
  OBVIOUS
<1>1. \A s \in Sinks, c \in Calls : ~InLog(s, c, ALLOWED)
  BY CallsAssumption DEF Init, AuditInit, InLog
<1>2. RecordedCalls = IF AuditEnabled THEN {} ELSE Calls
  <2>1. CASE AuditEnabled
    <3>1. 1 \in 1..Len(Handlers)
      BY <2>1 DEF Handlers
    <3>2. Handlers[1] \in ConfiguredSinks
      BY <3>1 DEF ConfiguredSinks
    <3> QED BY <1>1, <2>1, <3>2, ConfiguredSinksType DEF RecordedCalls, Recorded
  <2>2. CASE ~AuditEnabled
    <3>1. ConfiguredSinks = {}
      BY <2>2 DEF ConfiguredSinks, Handlers
    <3> QED BY <2>2, <3>1 DEF RecordedCalls, Recorded
  <2> QED BY <2>1, <2>2
<1>3. FinishedCalls = {} /\ sends = [c \in Calls |-> 0]
  BY DEF Init, FinishedCalls, Finished
<1> QED BY <1>2, <1>3 DEF Gate!Init, RecordedCalls, FinishedCalls

\* A step that ends some calls and neither records nor sends.
LEMMA GateFinishes ==
    ASSUME NEW over \in SUBSET Calls, RecordedCalls' = RecordedCalls,
           sends' = sends, FinishedCalls' = FinishedCalls \cup over
    PROVE  Gate!Next
BY DEF Gate!Next, Gate!Finish, RecordedCalls, FinishedCalls

\* The steps of one call that end at most that call.
LEMMA FinishedStep ==
    ASSUME NEW c \in Calls, pc \in [Calls -> Points], Running(c),
           \A d \in Calls : d # c => pc'[d] = pc[d]
    PROVE  FinishedCalls' = IF pc'[c] \in Finished THEN FinishedCalls \cup {c}
                            ELSE FinishedCalls
BY DEF FinishedCalls, Running

LEMMA GateCallStep ==
    ASSUME PermissionInv, NEW c \in Calls, CallStep(c)
    PROVE  Gate!Next
<1>1. /\ c \in Ids /\ Calls \subseteq Ids /\ Pending(c) \in Records /\ AuditTypeOK
      /\ pc \in [Calls -> Points] /\ sends \in [Calls -> Nat] /\ PermissionHeld(c)
  BY PendingType, CallsAssumption DEF PermissionInv, TypeOK
<1>2. /\ Running(c)
      /\ \A d \in Calls : d # c => pc'[d] = pc[d]
  BY <1>1 DEF CallStep, WriteRecord, AuditFails, AttemptLogged, FailureLogged, OutcomeLogged,
              LookupSucceeds, LookupFails, ConnectSucceeds, ConnectFails, SendSucceeds,
              SendFails, OpenOutput, WriteOutput, SaveTranscript, BodyRaises, Disconnect,
              DisconnectRaises, Goto, Running, Logging, Finished
<1>3. FinishedCalls' \in {FinishedCalls, FinishedCalls \cup {c}} /\ c \notin FinishedCalls
  BY <1>1, <1>2, FinishedStep DEF FinishedCalls, Running
<1>4. ASSUME RecordedCalls' = RecordedCalls, sends' = sends
      PROVE  Gate!Next
  <2>1. PICK over \in {{}, {c}} : FinishedCalls' = FinishedCalls \cup over
    BY <1>3
  <2> QED BY <1>4, <2>1, GateFinishes
<1>5. CASE WriteRecord(c) \/ AuditFails(c)
  <2>1. sends' = sends /\ (HandlerWrites(c, Pending(c)) \/ HandlerRaises(c, Pending(c)))
    BY <1>5 DEF WriteRecord, AuditFails, deviceVars
  <2>2. /\ \A t \in Sinks, d \in Ids : \A r : InLog(t, d, r) => InLog(t, d, r)'
        /\ \A d \in Ids : d # c => \A t \in Sinks : auditLog'[t][d] = auditLog[t][d]
    BY <1>1, <2>1, EmitStep
  <2>3. \A d \in Calls : /\ Recorded(d, ALLOWED) => Recorded(d, ALLOWED)'
                         /\ d # c => Recorded(d, ALLOWED)' = Recorded(d, ALLOWED)
    <3>1. ASSUME NEW d \in Calls, d # c, NEW t \in Sinks
          PROVE  InLog(t, d, ALLOWED)' = InLog(t, d, ALLOWED)
      <4>1. auditLog'[t][d] = auditLog[t][d]
        BY <1>1, <2>2, <3>1
      <4> QED BY <4>1 DEF InLog
    <3>2. ASSUME NEW d \in Calls, d # c
          PROVE  Recorded(d, ALLOWED)' = Recorded(d, ALLOWED)
      BY <3>1, <3>2, ConfiguredSinksType DEF Recorded
    <3>3. \A d \in Calls : Recorded(d, ALLOWED) => Recorded(d, ALLOWED)'
      BY <1>1, <2>2, ConfiguredSinksType DEF Recorded
    <3> QED BY <3>2, <3>3
  <2>4. CASE RecordedCalls' = RecordedCalls
    BY <1>4, <2>1, <2>4
  <2>5. CASE RecordedCalls' # RecordedCalls
    <3>1. RecordedCalls' = RecordedCalls \cup {c} /\ c \notin RecordedCalls
      BY <2>3, <2>5 DEF RecordedCalls
    <3> QED BY <1>3, <2>1, <3>1 DEF Gate!Next, Gate!Record, RecordedCalls, FinishedCalls
  <2> QED BY <2>4, <2>5
<1>6. CASE UNCHANGED auditLog /\ sends' = sends
  <2>1. RecordedCalls' = RecordedCalls
    BY <1>6 DEF RecordedCalls, Recorded, InLog
  <2> QED BY <1>4, <1>6, <2>1
<1>7. CASE \/ \E long \in BOOLEAN : SendSucceeds(c, long)
           \/ \E e \in Raisable : SendFails(c, e)
  <2>1. /\ pc[c] = "send" /\ sends' = [sends EXCEPT ![c] = @ + 1] /\ UNCHANGED auditLog
        /\ pc'[c] \notin Finished
    BY <1>1, <1>7 DEF SendSucceeds, SendFails, AfterSave, Goto, auditVars, Finished
  <2>2. Recorded(c, ALLOWED) /\ sends[c] = 0
    BY <1>1, <2>1 DEF PermissionHeld, PastDecision, BeforeSend, WithBlock
  <2>3. RecordedCalls' = RecordedCalls /\ FinishedCalls' = FinishedCalls
    BY <1>1, <1>2, <2>1, FinishedStep DEF RecordedCalls, Recorded, InLog
  <2>4. sends' = [sends EXCEPT ![c] = 1]
    BY <1>1, <2>1, <2>2
  <2> QED BY <1>3, <2>2, <2>3, <2>4
          DEF Gate!Next, Gate!Execute, RecordedCalls, FinishedCalls
<1> QED BY <1>5, <1>6, <1>7
        DEF CallStep, AttemptLogged, FailureLogged, OutcomeLogged, EmitReturns, LookupSucceeds,
            LookupFails, ConnectSucceeds, ConnectFails, OpenOutput, WriteOutput, SaveTranscript,
            BodyRaises, Disconnect, DisconnectRaises, auditVars, deviceVars

LEMMA GateStart ==
    ASSUME pc \in [Calls -> Points], NEW c \in Calls, NEW r, Start(c, r)
    PROVE  UNCHANGED Gate!gateVars
<1>1. UNCHANGED <<auditLog, sends>> /\ FinishedCalls' = FinishedCalls
  BY DEF Start, Goto, FinishedCalls, Finished, auditVars, deviceVars
<1>2. RecordedCalls' = RecordedCalls
  BY <1>1 DEF RecordedCalls, Recorded, InLog
<1> QED BY <1>1, <1>2 DEF Gate!gateVars, RecordedCalls, FinishedCalls

LEMMA GateCrash ==
    ASSUME pc \in [Calls -> Points], CrashCalls
    PROVE  Gate!Next
<1>1. UNCHANGED <<auditLog, sends>>
  BY DEF CrashCalls, EmitsCrash
<1>2. RecordedCalls' = RecordedCalls
  BY <1>1 DEF RecordedCalls, Recorded, InLog
<1>3. FinishedCalls' = FinishedCalls \cup {c \in Calls : Running(c)}
  BY DEF CrashCalls, FinishedCalls, Running, Finished
<1> QED BY <1>1, <1>2, <1>3, GateFinishes

LEMMA GateStep == PermissionInv /\ [Next]_vars => [Gate!Next]_(Gate!gateVars)
<1> SUFFICES ASSUME PermissionInv, [Next]_vars
             PROVE  Gate!Next \/ UNCHANGED Gate!gateVars
  OBVIOUS
<1>1. pc \in [Calls -> Points]
  BY DEF PermissionInv, TypeOK
<1>2. ASSUME NEW c \in Calls, NEW r, Start(c, r)
      PROVE  UNCHANGED Gate!gateVars
  BY <1>1, <1>2, GateStart
<1>3. ASSUME NEW c \in Calls, CallStep(c)
      PROVE  Gate!Next
  BY <1>3, GateCallStep
<1>4. CASE Crash
  BY <1>1, <1>4, GateCrash DEF Crash
<1>5. CASE Tick \/ UNCHANGED vars
  <2>1. UNCHANGED <<auditLog, sends, pc>>
    BY <1>5 DEF Tick, vars, auditVars, deviceVars
  <2>2. RecordedCalls' = RecordedCalls
    BY <2>1 DEF RecordedCalls, Recorded, InLog
  <2> QED BY <2>1, <2>2 DEF Gate!gateVars, RecordedCalls, FinishedCalls
<1> QED BY <1>2, <1>3, <1>4, <1>5 DEF Next, Quiet, SendShowCommand

\* run_show_command keeps the promise of CommandGate: a command reaches its
\* device at most once, during its call, and after its permission is in every
\* configured sink.
THEOREM GateRefinement == Spec => GateSpec
<1>1. Spec => Gate!Init /\ [][Gate!Next]_(Gate!gateVars)
  BY GateInit, GateStep, PermissionInvariant, PTL DEF Spec
<1> QED BY <1>1 DEF GateSpec, Gate!Spec


-----------------------------------------------------------------------------
(* What is left behind: no open session, and files that hold only what was *)
(* read from the device they are filed under.                              *)

\* A step of one call leaves the session and the position of the others alone.
LEMMA OtherSessions ==
    ASSUME TypeOK, NEW c \in Calls, CallStep(c), NEW d \in Calls, d # c
    PROVE  pc'[d] = pc[d] /\ session'[d] = session[d] /\ sends'[d] = sends[d]
BY DEF CallStep, WriteRecord, AuditFails, AttemptLogged, FailureLogged, OutcomeLogged,
       LookupSucceeds, LookupFails, ConnectSucceeds, ConnectFails, SendSucceeds,
       SendFails, OpenOutput, WriteOutput, SaveTranscript, BodyRaises, Disconnect,
       DisconnectRaises, Goto, TypeOK, deviceVars

-----------------------------------------------------------------------------
(* Sessions. *)

\* A call that leaves the with block disconnects first, and what raises inside
\* it stays inside.
LEMMA SessionCallStep ==
    ASSUME TypeOK, SessionInv, NEW c \in Calls, CallStep(c)
    PROVE  SessionInv'
<1>1. pc \in [Calls -> Points] /\ session \in [Calls -> {"none", "open", "disconnected"}]
  BY DEF TypeOK
<1>2. SUFFICES ASSUME session'[c] = "open"
               PROVE  pc'[c] \in WithBlock
  BY OtherSessions DEF SessionInv
<1>3. CASE ConnectSucceeds(c)
  BY <1>1, <1>3 DEF ConnectSucceeds, Goto, WithBlock
<1>4. CASE Disconnect(c) \/ \E e \in Raisable : DisconnectRaises(c, e)
  BY <1>1, <1>2, <1>4 DEF Disconnect, DisconnectRaises
<1>5. ASSUME session' = session
      PROVE  pc[c] \in WithBlock
  BY <1>2, <1>5 DEF SessionInv
<1>6. CASE WriteRecord(c)
  BY <1>5, <1>6 DEF WriteRecord, deviceVars
<1>7. CASE AuditFails(c)
  BY <1>1, <1>5, <1>7 DEF AuditFails, Goto, OnAuditFailure, WithBlock, deviceVars
<1>8. CASE AttemptLogged(c) \/ FailureLogged(c) \/ OutcomeLogged(c)
  BY <1>1, <1>5, <1>8
     DEF AttemptLogged, FailureLogged, OutcomeLogged, Goto, WithBlock, deviceVars
<1>9. CASE \/ LookupSucceeds(c) \/ LookupFails(c)
           \/ \E e \in Raisable : ConnectFails(c, e)
  BY <1>1, <1>5, <1>9
     DEF LookupSucceeds, LookupFails, ConnectFails, WithBlock, deviceVars
<1>10. CASE \/ \E long \in BOOLEAN : SendSucceeds(c, long)
            \/ \E e \in Raisable : SendFails(c, e)
  BY <1>1, <1>10 DEF SendSucceeds, SendFails, AfterSave, Goto, WithBlock
<1>11. CASE OpenOutput(c) \/ WriteOutput(c) \/ SaveTranscript(c) \/ BodyRaises(c)
  BY <1>1, <1>11
     DEF OpenOutput, WriteOutput, SaveTranscript, BodyRaises, AfterSave, Goto, WithBlock
<1> QED BY <1>3, <1>4, <1>6, <1>7, <1>8, <1>9, <1>10, <1>11 DEF CallStep

LEMMA SessionStep == TypeOK /\ SessionInv /\ [Next]_vars => SessionInv'
<1> SUFFICES ASSUME TypeOK, SessionInv, [Next]_vars
             PROVE  SessionInv'
  OBVIOUS
<1>1. ASSUME NEW c \in Calls, NEW r, Start(c, r)
      PROVE  SessionInv'
  BY <1>1 DEF Start, Goto, SessionInv, TypeOK, WithBlock, deviceVars
<1>2. ASSUME NEW c \in Calls, CallStep(c)
      PROVE  SessionInv'
  BY <1>2, SessionCallStep
<1>3. CASE Crash
  BY <1>3 DEF Crash, CrashCalls, SessionInv, TypeOK
<1>4. CASE Tick \/ UNCHANGED vars
  BY <1>4 DEF Tick, vars, SessionInv, deviceVars
<1> QED BY <1>1, <1>2, <1>3, <1>4 DEF Next, Quiet, SendShowCommand

\* _managed_connection: no call is over while its session is open, whatever
\* raises in the with block and whether or not disconnect() raises.
THEOREM SessionReleasedCorrect == Spec => []SessionReleased
<1>1. Init => SessionInv
  BY DEF Init, SessionInv
<1>2. Spec => []SessionInv
  BY <1>1, SessionStep, TypeCorrect, PTL DEF Spec
<1>3. SessionInv => SessionReleased
  BY DEF SessionInv, SessionReleased, Finished, WithBlock
<1> QED BY <1>2, <1>3, PTL

-----------------------------------------------------------------------------
(* Files. *)

\* A step that keeps the files, the arguments of the calls that sent, and the
\* targets of those that write, keeps the attribution of the files.
LEMMA FilesKept ==
    ASSUME FilesInv, UNCHANGED outputs,
           \A c \in Calls : sends[c] = 1 => sends'[c] = 1 /\ request'[c] = request[c],
           \A name \in DOMAIN outputs : outputs[name] \subseteq Calls,
           \A c \in Calls : pc'[c] \in {"save", "write"} =>
               /\ sends'[c] = 1
               /\ pc'[c] = "write" => pc[c] = "write" /\ savedAs'[c] = savedAs[c]
    PROVE  FilesInv'
<1>1. \A c \in Calls : sends[c] = 1 => \A name : BelongsTo(name, c) => BelongsTo(name, c)'
  BY DEF BelongsTo
<1> QED BY <1>1 DEF FilesInv, FilesHoldTheirOutput

LEMMA FilesCallStep ==
    ASSUME PermissionInv, FilesInv, NEW c \in Calls, CallStep(c)
    PROVE  FilesInv'
<1>1. /\ TypeOK /\ StoreTypeOK /\ Linked
      /\ pc \in [Calls -> Points] /\ sends \in [Calls -> Nat]
      /\ savedAs \in [Calls -> FileNames \cup {<<>>}]
      /\ \A d \in Calls : sends[d] <= 1
      /\ \A d \in Calls : pc[d] = "send" => sends[d] = 0
  BY DEF PermissionInv, TypeOK, PermissionHeld, BeforeSend
<1>2. \A name \in DOMAIN outputs : outputs[name] \subseteq Calls
  BY <1>1 DEF StoreTypeOK
<1>3. request' = request
  BY DEF CallStep, WriteRecord, AuditFails, AttemptLogged, FailureLogged, OutcomeLogged,
         LookupSucceeds, LookupFails, ConnectSucceeds, ConnectFails, SendSucceeds,
         SendFails, OpenOutput, WriteOutput, SaveTranscript, BodyRaises, Disconnect,
         DisconnectRaises
<1>4. \A d \in Calls : d # c => pc'[d] = pc[d] /\ sends'[d] = sends[d]
  BY <1>1, OtherSessions
<1>5. CASE OpenOutput(c)
  <2> DEFINE name == FileNameOf(request[c].device, request[c].command)
  <2>1. /\ pc[c] = "save" /\ pc'[c] = "write" /\ sends' = sends
        /\ savedAs'[c] = name
        /\ \A d \in Calls : d # c => savedAs'[d] = savedAs[d]
    BY <1>1, <1>5 DEF OpenOutput, Goto, deviceVars
  <2>2. /\ DOMAIN outputs' = DOMAIN outputs \cup {name}
        /\ \A n \in DOMAIN outputs' : outputs'[n] = IF n = name THEN {} ELSE outputs[n]
    BY <1>5 DEF OpenOutput, TruncateFile, WithContent
  <2>3. BelongsTo(name, c)
    BY DEF BelongsTo, FileNameOf
  <2>4. \A n, d : BelongsTo(n, d)' = BelongsTo(n, d)
    BY <1>3 DEF BelongsTo
  <2>5. FilesHoldTheirOutput'
    BY <2>1, <2>2, <2>4 DEF FilesInv, FilesHoldTheirOutput
  <2>6. sends[c] = 1
    BY <2>1 DEF FilesInv
  <2>7. ASSUME NEW d \in Calls, pc'[d] = "write"
        PROVE  BelongsTo(savedAs'[d], d)
    <3>1. CASE d = c
      BY <2>1, <2>3, <3>1
    <3>2. CASE d # c
      BY <1>4, <2>1, <2>7, <3>2 DEF FilesInv
    <3> QED BY <3>1, <3>2
  <2> QED BY <1>4, <2>1, <2>4, <2>5, <2>6, <2>7 DEF FilesInv, BelongsTo
<1>6. CASE WriteOutput(c)
  <2>1. /\ pc[c] = "write" /\ pc'[c] \in {"transcript", "log_success"}
        /\ sends' = sends /\ savedAs' = savedAs
    BY <1>1, <1>6 DEF WriteOutput, AfterSave, Goto, deviceVars, resultVars
  <2>2. PICK kept \in SUBSET outputs[savedAs[c]] :
             outputs' = WithContent(savedAs[c], kept \cup {c})
    BY <1>6 DEF WriteOutput, WriteFile
  <2>3. /\ savedAs[c] \in DOMAIN outputs
        /\ DOMAIN outputs' = DOMAIN outputs
        /\ \A n \in DOMAIN outputs :
              outputs'[n] = IF n = savedAs[c] THEN kept \cup {c} ELSE outputs[n]
    BY <1>1, <2>1, <2>2 DEF Linked, WithContent
  <2>4. BelongsTo(savedAs[c], c) /\ sends[c] = 1
    BY <2>1 DEF FilesInv
  <2>5. \A n, d : BelongsTo(n, d)' = BelongsTo(n, d)
    BY <1>3 DEF BelongsTo
  <2>6. FilesHoldTheirOutput'
    BY <2>1, <2>3, <2>4, <2>5 DEF FilesInv, FilesHoldTheirOutput
  <2> QED BY <1>4, <2>1, <2>5, <2>6 DEF FilesInv, BelongsTo
<1>7. CASE \/ \E long \in BOOLEAN : SendSucceeds(c, long)
           \/ \E e \in Raisable : SendFails(c, e)
  <2>1. /\ pc[c] = "send" /\ pc'[c] # "write" /\ sends'[c] = 1
        /\ UNCHANGED <<outputs, savedAs>>
    BY <1>1, <1>7 DEF SendSucceeds, SendFails, AfterSave, Goto, storeVars, resultVars
  <2> QED BY <1>1, <1>2, <1>3, <1>4, <2>1, FilesKept DEF FilesInv
<1>8. CASE /\ UNCHANGED <<outputs, sends, savedAs>>
           /\ pc'[c] \in {"save", "write"} => pc'[c] = pc[c]
  BY <1>2, <1>3, <1>4, <1>8, FilesKept DEF FilesInv
<1>9. CASE WriteRecord(c) \/ AuditFails(c)
  <2>1. pc'[c] \notin {"save", "write"}
    BY <1>1, <1>9 DEF WriteRecord, AuditFails, Goto, OnAuditFailure, Logging
  <2> QED BY <1>8, <1>9, <2>1 DEF WriteRecord, AuditFails, storeVars, deviceVars, resultVars
<1>10. CASE AttemptLogged(c) \/ FailureLogged(c) \/ OutcomeLogged(c)
  BY <1>1, <1>8, <1>10
     DEF AttemptLogged, FailureLogged, OutcomeLogged, Goto, storeVars, deviceVars
<1>11. CASE \/ LookupSucceeds(c) \/ LookupFails(c) \/ ConnectSucceeds(c)
            \/ \E e \in Raisable : ConnectFails(c, e)
  BY <1>1, <1>8, <1>11
     DEF LookupSucceeds, LookupFails, ConnectSucceeds, ConnectFails, Goto,
         storeVars, deviceVars, resultVars
<1>12. CASE \/ SaveTranscript(c) \/ BodyRaises(c)
            \/ Disconnect(c) \/ \E e \in Raisable : DisconnectRaises(c, e)
  BY <1>1, <1>8, <1>12
     DEF SaveTranscript, BodyRaises, Disconnect, DisconnectRaises, AfterDisconnect, Goto,
         storeVars, deviceVars, resultVars
<1> QED BY <1>5, <1>6, <1>7, <1>9, <1>10, <1>11, <1>12 DEF CallStep

LEMMA FilesStep == PermissionInv /\ FilesInv /\ [Next]_vars => FilesInv'
<1> SUFFICES ASSUME PermissionInv, FilesInv, [Next]_vars
             PROVE  FilesInv'
  OBVIOUS
<1>1. /\ pc \in [Calls -> Points]
      /\ \A name \in DOMAIN outputs : outputs[name] \subseteq Calls
  BY DEF PermissionInv, TypeOK, StoreTypeOK
<1>2. ASSUME NEW c \in Calls, NEW r, Start(c, r)
      PROVE  FilesInv'
  <2>1. pc[c] = "idle" /\ sends[c] = 0
    BY <1>2 DEF Start, PermissionInv, PermissionHeld, BeforeSend
  <2>2. /\ UNCHANGED <<outputs, sends, savedAs>> /\ pc'[c] = "log_attempt"
        /\ \A d \in Calls : d # c => pc'[d] = pc[d] /\ request'[d] = request[d]
    BY <1>1, <1>2 DEF Start, Goto, PermissionInv, TypeOK, storeVars, deviceVars, resultVars
  <2> QED BY <1>1, <2>1, <2>2, FilesKept DEF FilesInv
<1>3. ASSUME NEW c \in Calls, CallStep(c)
      PROVE  FilesInv'
  BY <1>3, FilesCallStep
<1>4. CASE Crash
  <2>1. /\ UNCHANGED <<outputs, sends, savedAs, request>>
        /\ \A c \in Calls : pc'[c] \in {"save", "write"} => pc'[c] = pc[c]
    BY <1>1, <1>4 DEF Crash, CrashCalls, storeVars, resultVars
  <2> QED BY <1>1, <2>1, FilesKept DEF FilesInv
<1>5. CASE Tick \/ UNCHANGED vars
  <2>1. UNCHANGED <<outputs, sends, savedAs, request, pc>>
    BY <1>5 DEF Tick, ClockTicks, vars, storeVars, deviceVars, resultVars
  <2> QED BY <1>1, <2>1, FilesKept DEF FilesInv
<1> QED BY <1>2, <1>3, <1>4, <1>5 DEF Next, Quiet, SendShowCommand

\* _save_device_output, whoever else saves and whenever the process dies: a
\* file holds bytes only of calls that sent their command once, to the device
\* whose directory it is in, with a command that its name stands for.
THEOREM FilesHoldTheirOutputCorrect == Spec => []FilesHoldTheirOutput
<1>1. Init => FilesInv
  BY DEF Init, StoreInit, FilesInv, FilesHoldTheirOutput
<1>2. Spec => []FilesInv
  BY <1>1, FilesStep, PermissionInvariant, PTL DEF Spec
<1>3. FilesInv => FilesHoldTheirOutput
  BY DEF FilesInv
<1> QED BY <1>2, <1>3, PTL

-----------------------------------------------------------------------------
(* A call takes a bounded number of steps. *)

\* How far a point is from the end of run_show_command: no except clause, and no
\* exit of the with block, goes back to a point above.
Height(point) ==
    CASE point = "idle" -> 12
      [] point = "log_attempt" -> 11
      [] point = "lookup" -> 10
      [] point = "connect" -> 9
      [] point = "send" -> 8
      [] point = "save" -> 7
      [] point = "write" -> 6
      [] point = "transcript" -> 5
      [] point \in {"log_success", "log_command_error"} -> 4
      [] point \in {"close", "unwind"} -> 3
      [] point \in {"log_connection_error", "log_inventory"} -> 2
      [] OTHER -> 0

\* An emit takes one step for each of two handlers before it returns.
StepsLeft(c) == 3 * Height(pc[c]) - emitted[c]

\* A step that is the call's own leaves it fewer to take, any other no more.
Descends(c) ==
    /\ StepsLeft(c)' \in 0..StepsLeft(c)
    /\ CallStep(c) => StepsLeft(c)' < StepsLeft(c)

\* The safety part of CallTerminates, for which no fairness is needed.
CallsDescend == [][\A c \in Calls : Descends(c)]_vars

LEMMA HeightType == \A point \in Points : Height(point) \in 0..12
BY DEF Height, Points, Logging, WithBlock, Finished

\* A step of a call goes down, or feeds one more handler.
LEMMA CallStepDescends ==
    ASSUME PermissionInv, NEW c \in Calls, CallStep(c)
    PROVE  \/ /\ pc'[c] = pc[c] /\ pc[c] \in Logging
              /\ emitted'[c] = emitted[c] + 1
           \/ Height(pc'[c]) < Height(pc[c]) /\ emitted'[c] = 0
<1>1. /\ pc \in [Calls -> Points] /\ emitted \in [Ids -> 0..Len(Handlers)]
      /\ c \in Ids /\ (pc[c] \notin Logging => emitted[c] = 0)
  BY CallsAssumption DEF PermissionInv, TypeOK, AuditTypeOK, PermissionHeld
<1>2. CASE WriteRecord(c)
  BY <1>1, <1>2 DEF WriteRecord, HandlerWrites
<1>3. CASE AuditFails(c)
  <2>1. pc[c] \in Logging /\ pc'[c] = OnAuditFailure(pc[c]) /\ emitted'[c] = 0
    BY <1>1, <1>3 DEF AuditFails, HandlerRaises, Goto
  <2> QED BY <2>1 DEF Logging, OnAuditFailure, WithBlock, Height
<1>4. CASE AttemptLogged(c) \/ FailureLogged(c) \/ OutcomeLogged(c)
  <2>1. emitted'[c] = 0
    BY <1>1, <1>4 DEF AttemptLogged, FailureLogged, OutcomeLogged, EmitReturns
  <2>2. \/ pc[c] = "log_attempt" /\ pc'[c] \in {"lookup", "done"}
        \/ pc[c] \in {"log_inventory", "log_connection_error"} /\ pc'[c] = "done"
        \/ pc[c] \in {"log_success", "log_command_error"} /\ pc'[c] = "close"
    BY <1>1, <1>4 DEF AttemptLogged, FailureLogged, OutcomeLogged, Goto
  <2> QED BY <2>1, <2>2 DEF Height
<1>5. CASE \/ LookupSucceeds(c) \/ LookupFails(c) \/ ConnectSucceeds(c)
           \/ \E e \in Raisable : ConnectFails(c, e)
  <2>1. \/ pc[c] = "lookup" /\ pc'[c] \in {"connect", "log_inventory", "raised"}
        \/ pc[c] = "connect" /\ pc'[c] \in {"send", "log_connection_error"}
    BY <1>1, <1>5 DEF LookupSucceeds, LookupFails, ConnectSucceeds, ConnectFails, Goto
  <2>2. emitted' = emitted
    BY <1>5 DEF LookupSucceeds, LookupFails, ConnectSucceeds, ConnectFails, auditVars
  <2> QED BY <1>1, <2>1, <2>2 DEF Height, Logging
<1>6. CASE \/ \E long \in BOOLEAN : SendSucceeds(c, long)
           \/ \E e \in Raisable : SendFails(c, e)
  <2>1. pc[c] = "send" /\ pc'[c] \in {"save", "transcript", "log_success", "log_command_error"}
    BY <1>1, <1>6 DEF SendSucceeds, SendFails, Goto, AfterSave
  <2>2. emitted' = emitted
    BY <1>6 DEF SendSucceeds, SendFails, auditVars
  <2> QED BY <1>1, <2>1, <2>2 DEF Height, Logging
<1>7. CASE OpenOutput(c) \/ WriteOutput(c) \/ SaveTranscript(c) \/ BodyRaises(c)
  <2>1. \/ pc[c] = "save" /\ pc'[c] = "write"
        \/ pc[c] = "write" /\ pc'[c] \in {"transcript", "log_success"}
        \/ pc[c] = "transcript" /\ pc'[c] = "log_success"
        \/ pc[c] \in {"save", "write", "transcript"} /\ pc'[c] = "unwind"
    BY <1>1, <1>7 DEF OpenOutput, WriteOutput, SaveTranscript, BodyRaises, AfterSave, Goto
  <2>2. emitted' = emitted
    BY <1>7 DEF OpenOutput, WriteOutput, SaveTranscript, BodyRaises, auditVars
  <2> QED BY <1>1, <2>1, <2>2 DEF Height, Logging
<1>8. CASE Disconnect(c) \/ \E e \in Raisable : DisconnectRaises(c, e)
  <2>1. pc[c] \in {"close", "unwind"} /\ pc'[c] \in {"done", "log_connection_error"}
    BY <1>1, <1>8 DEF Disconnect, DisconnectRaises, AfterDisconnect, Goto
  <2>2. emitted' = emitted
    BY <1>8 DEF Disconnect, DisconnectRaises, auditVars
  <2> QED BY <1>1, <2>1, <2>2 DEF Height, Logging
<1> QED BY <1>2, <1>3, <1>4, <1>5, <1>6, <1>7, <1>8 DEF CallStep

\* What a point and the handlers fed at it leave.
LEMMA StepsLeftRange ==
    ASSUME PermissionInv, NEW c \in Calls
    PROVE  /\ pc[c] \in Points /\ Height(pc[c]) \in 0..12 /\ emitted[c] \in 0..2
           /\ pc[c] \notin Logging => emitted[c] = 0
           /\ StepsLeft(c) \in Nat
<1>1. pc[c] \in Points /\ emitted[c] \in 0..Len(Handlers)
      /\ (pc[c] \notin Logging => emitted[c] = 0)
  BY CallsAssumption DEF PermissionInv, TypeOK, AuditTypeOK, PermissionHeld
<1>2. Height(pc[c]) \in 0..12 /\ emitted[c] \in 0..2
  <2>1. Height(pc[c]) \in 0..12
    BY <1>1, HeightType
  <2>2. emitted[c] \in 0..2
    <3> DEFINE n == Len(Handlers)
    <3>1. n \in 0..2 /\ emitted[c] \in 0..n
      BY <1>1, HandlersType
    <3> HIDE DEF n
    <3> QED BY <3>1
  <2> QED BY <2>1, <2>2
<1>3. pc[c] \in Logging => Height(pc[c]) >= 2
  BY DEF Logging, Height
<1> QED BY <1>1, <1>2, <1>3 DEF StepsLeft

\* Whatever steps are taken, of calls, beside them or of a dying process.
LEMMA StepsDescend ==
    /\ PermissionInv /\ PermissionInv'
    /\ \/ \E d \in Calls : CallStep(d)
       \/ \E d \in Calls : \E r : Start(d, r)
       \/ CrashCalls
       \/ \A d \in Calls : pc'[d] = pc[d] /\ emitted'[d] = emitted[d]
    => \A c \in Calls : Descends(c)
<1> DEFINE Bounded(c) == /\ pc[c] \in Points /\ Height(pc[c]) \in 0..12 /\ emitted[c] \in 0..2
                         /\ pc[c] \notin Logging => emitted[c] = 0
                         /\ StepsLeft(c) \in Nat
           AllBounded == PermissionInv => \A c \in Calls : Bounded(c)
<1>1. AllBounded
  BY StepsLeftRange
<1>2. AllBounded'
  BY <1>1, PTL
<1>3. ASSUME PermissionInv, PermissionInv', NEW c \in Calls,
             \/ \E d \in Calls : CallStep(d)
             \/ \E d \in Calls : \E r : Start(d, r)
             \/ CrashCalls
             \/ \A d \in Calls : pc'[d] = pc[d] /\ emitted'[d] = emitted[d]
      PROVE  Descends(c)
  <2>1. Bounded(c) /\ Bounded(c)'
    BY <1>1, <1>2, <1>3
  <2>2. ASSUME CallStep(c)
        PROVE  StepsLeft(c)' < StepsLeft(c)
    <3>1. \/ pc'[c] = pc[c] /\ emitted'[c] = emitted[c] + 1
          \/ Height(pc'[c]) < Height(pc[c]) /\ emitted'[c] = 0
      BY <1>3, <2>2, CallStepDescends
    <3> QED BY <2>1, <3>1 DEF StepsLeft
  <2>3. ASSUME pc'[c] = pc[c], emitted'[c] = emitted[c]
        PROVE  StepsLeft(c)' = StepsLeft(c)
    BY <2>3 DEF StepsLeft
  <2>4. c \in Ids /\ pc \in [Calls -> Points] /\ emitted \in [Ids -> 0..Len(Handlers)]
    BY <1>3, CallsAssumption DEF PermissionInv, TypeOK, AuditTypeOK
  <2>5. ASSUME NEW d \in Calls, d # c, CallStep(d)
        PROVE  StepsLeft(c)' <= StepsLeft(c)
    <3>1. pc'[c] = pc[c] /\ emitted'[c] = emitted[c]
      BY <1>3, <2>4, <2>5, CallStepIsLocal
    <3> QED BY <2>1, <2>3, <3>1
  <2>6. ASSUME NEW d \in Calls, NEW r, Start(d, r)
        PROVE  StepsLeft(c)' <= StepsLeft(c)
    <3>1. emitted' = emitted
      BY <2>6 DEF Start, auditVars
    <3>2. CASE d = c
      <4>1. pc[c] = "idle" /\ pc'[c] = "log_attempt"
        BY <2>4, <2>6, <3>2 DEF Start, Goto
      <4> QED BY <2>1, <3>1, <4>1 DEF StepsLeft, Height
    <3>3. CASE d # c
      BY <2>1, <2>3, <2>4, <2>6, <3>1, <3>3 DEF Start, Goto
    <3> QED BY <3>2, <3>3
  <2>7. ASSUME CrashCalls
        PROVE  StepsLeft(c)' <= StepsLeft(c)
    <3>1. emitted'[c] = 0 /\ pc'[c] \in {pc[c], "crashed"}
          /\ (pc'[c] = pc[c] => ~Running(c) \/ pc[c] = "crashed")
      BY <2>4, <2>7 DEF CrashCalls, EmitsCrash
    <3>2. CASE pc'[c] = "crashed"
      <4>1. StepsLeft(c)' = 0
        BY <3>1, <3>2 DEF StepsLeft, Height
      <4> QED BY <2>1, <4>1
    <3>3. CASE pc'[c] # "crashed"
      <4>1. pc'[c] = pc[c] /\ pc[c] \notin Logging
        BY <3>1, <3>3 DEF Running, Logging, Finished
      <4> QED BY <2>1, <2>3, <3>1, <4>1
    <3> QED BY <3>2, <3>3
  <2>8. ASSUME \A d \in Calls : pc'[d] = pc[d] /\ emitted'[d] = emitted[d]
        PROVE  StepsLeft(c)' <= StepsLeft(c)
    BY <2>1, <2>3, <2>8
  <2>9. ASSUME NEW d \in Calls, CallStep(d)
        PROVE  StepsLeft(c)' <= StepsLeft(c)
    <3>1. CASE d = c
      BY <2>1, <2>2, <2>9, <3>1
    <3>2. CASE d # c
      BY <2>5, <2>9, <3>2
    <3> QED BY <3>1, <3>2
  <2>10. StepsLeft(c)' <= StepsLeft(c)
    BY <1>3, <2>6, <2>7, <2>8, <2>9
  <2> QED BY <2>1, <2>2, <2>10 DEF Descends
<1> QED BY <1>3

\* No step of a call can be repeated: run_show_command has no way back, from any
\* of its except clauses, and a call takes at most 36 steps.
THEOREM CallsDescendCorrect == Spec => CallsDescend
<1>1. ASSUME PermissionInv, PermissionInv', [Next]_vars
      PROVE  \A c \in Calls : Descends(c)
  <2>1. \/ \E d \in Calls : CallStep(d)
        \/ \E d \in Calls : \E r : Start(d, r)
        \/ Crash \/ Tick \/ UNCHANGED vars
    BY <1>1, Zenon DEF Next, Quiet, SendShowCommand
  <2>2. Crash => CrashCalls
    BY DEF Crash
  <2>3. Tick \/ UNCHANGED vars => UNCHANGED <<pc, emitted>>
    BY DEF Tick, vars, auditVars
  <2> QED BY <1>1, <2>1, <2>2, <2>3, StepsDescend
<1>2. PermissionInv /\ PermissionInv' /\ [Next]_vars => \A c \in Calls : Descends(c)
  BY <1>1
<1> QED BY <1>2, PermissionInvariant, PTL DEF Spec, CallsDescend

=============================================================================
