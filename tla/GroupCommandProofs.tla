-------------------------- MODULE GroupCommandProofs --------------------------
(***************************************************************************)
(* Proofs about GroupCommand, for every set of group calls, devices and    *)
(* tool calls beside them, and for every value of settings.max_workers.    *)
(* A step of a call is one of ShowCommand: what it keeps of the calls is   *)
(* known from ShowCommandProofs, and what is added here is what the        *)
(* calling threads of the groups keep.                                     *)
(***************************************************************************)
EXTENDS GroupCommand, ShowCommandTrailProofs, FiniteSetTheorems

-----------------------------------------------------------------------------
(* The inductive invariant. *)

GroupTypes ==
    /\ maxWorkers \in WorkerSettings
    /\ gpc \in [Groups -> GroupPoints]
    /\ grequest \in [Groups -> GroupRequests \cup {NoRequest}]
    /\ waiting \in [Groups -> SUBSET Devices]
    /\ saving \in [Groups -> SUBSET Devices]
    /\ results \in [Groups -> [Devices -> Replies]]
    /\ answer \in [Groups -> {"none", "security_error", "inventory_error", "results"}]

\* A group call that started has its arguments; the devices that wait are
\* among them, and so are those that were called or have a result.
Resolved(g) ==
    /\ gpc[g] \in {"idle", "log_denied", "inventory", "raised"} => waiting[g] = {}
    /\ gpc[g] # "idle" =>
        /\ grequest[g] \in GroupRequests
        /\ \A d \in waiting[g] : d \in Members(g) /\ pc[<<g, d>>] = "idle"
        /\ \A d \in Devices \ Members(g) : pc[<<g, d>>] = "idle" /\ results[g][d] = "none"

Untouched(g) == \A d \in Devices : pc[<<g, d>>] = "idle" /\ results[g][d] = "none"

\* The points of a calling thread that has collected nothing.
BeforeCollection == {"idle", "log_denied", "inventory", "submit", "drain", "raised"}

\* A denial reaches the sinks one handler at a time, and is the last thing a
\* group call does.
DenialHeld(g) ==
    /\ gpc[g] = "log_denied" => \A i \in 1..emitted[g] : InLog(Handlers[i], g, DENIED)
    /\ gpc[g] # "log_denied" => emitted[g] = 0
    /\ gpc[g] \in {"idle", "log_denied", "inventory"} => Untouched(g)
    /\ Seen(g, DENIED) => gpc[g] = "log_denied" \/ (gpc[g] \in Finished /\ Untouched(g))
    /\ answer[g] = "security_error" => Recorded(g, DENIED)

\* What is being saved is the answer of a call that returned, in a file that
\* is there; a result is what came of a call that is over, and a group call that
\* raised left none behind, nor a thread.
Collected(g) ==
    /\ \A d, e \in saving[g] : d = e
    /\ \A d \in saving[g] :
          /\ d \in Members(g) /\ gpc[g] \notin BeforeCollection
          /\ pc[<<g, d>>] = "done" /\ grequest[g].save_output
          /\ gpc[g] = "write" => savedAs[<<g, d>>] \in DOMAIN outputs
    /\ \A d \in Devices : results[g][d] # "none" =>
          /\ pc[<<g, d>>] \in {"done", "raised"}
          /\ results[g][d] \in DueResults(g, d)
    /\ gpc[g] \in BeforeCollection => \A d \in Devices : results[g][d] = "none"
    /\ gpc[g] = "raised" => Busy(g) = {}
    /\ answer[g] = "results" =>
          gpc[g] = "done" /\ \A d \in Members(g) : results[g][d] # "none"

GroupHeld(g) == Resolved(g) /\ DenialHeld(g) /\ Collected(g)

GroupInv == PermissionInv /\ GroupTypes /\ \A g \in Groups : GroupHeld(g)

-----------------------------------------------------------------------------
(* What the steps of others leave as it is. *)

LEMMA GroupCalls ==
    /\ \A g \in Groups : g \in Ids /\ g \notin Calls
    /\ \A g \in Groups, d \in Devices : <<g, d>> \in Calls
    /\ Calls \subseteq Ids
BY GroupsAssumption, CallsAssumption

\* A step that leaves the variables of g alone, and the calls of its pool that
\* are over or have not started, keeps what is known of g.
LEMMA OthersKeepGroup ==
    ASSUME NEW g \in Groups, GroupHeld(g),
           gpc'[g] = gpc[g], grequest'[g] = grequest[g], waiting'[g] = waiting[g],
           saving'[g] = saving[g], results'[g] = results[g], answer'[g] = answer[g],
           emitted'[g] = emitted[g], emitted[g] \in 0..Len(Handlers),
           \A t \in Sinks : auditLog'[t][g] = auditLog[t][g],
           \A d \in Devices :
              \/ /\ pc'[<<g, d>>] = pc[<<g, d>>] /\ reply'[<<g, d>>] = reply[<<g, d>>]
                 /\ savedAs'[<<g, d>>] = savedAs[<<g, d>>]
              \/ Running(<<g, d>>) /\ pc'[<<g, d>>] # "idle",
           DOMAIN outputs \subseteq DOMAIN outputs', saving[g] \subseteq Devices,
           waiting[g] \subseteq Devices
    PROVE  GroupHeld(g)'
<1>1. \A d \in Devices :
         /\ pc[<<g, d>>] \in {"idle", "done", "raised"} =>
               /\ pc'[<<g, d>>] = pc[<<g, d>>] /\ reply'[<<g, d>>] = reply[<<g, d>>]
               /\ savedAs'[<<g, d>>] = savedAs[<<g, d>>]
         /\ pc[<<g, d>>] # "idle" => pc'[<<g, d>>] # "idle"
         /\ Running(<<g, d>>)' => Running(<<g, d>>)
  BY DEF Running, Finished
<1>2. /\ Members(g)' = Members(g) /\ (Untouched(g) => Untouched(g)')
      /\ Busy(g) = {} => Busy(g)' = {}
  BY <1>1 DEF Members, Untouched, Busy
<1>3. \A t \in Sinks : \A r : InLog(t, g, r)' = InLog(t, g, r)
  BY DEF InLog
<1>4. Seen(g, DENIED)' = Seen(g, DENIED) /\ Recorded(g, DENIED)' = Recorded(g, DENIED)
  BY <1>3, ConfiguredSinksType DEF Seen, Recorded
<1>5. Resolved(g)'
  BY <1>1, <1>2 DEF GroupHeld, Resolved
<1>6. DenialHeld(g)'
  <2>1. ASSUME gpc[g] = "log_denied"
        PROVE  \A i \in 1..emitted[g] : InLog(Handlers[i], g, DENIED)'
    <3>1. \A i \in 1..emitted[g] : Handlers[i] \in Sinks
      BY HandlersType
    <3> QED BY <1>3, <2>1, <3>1 DEF GroupHeld, DenialHeld
  <2> QED BY <1>2, <1>4, <2>1 DEF GroupHeld, DenialHeld
<1>7. Collected(g)'
  <2>1. \A d \in Devices : pc[<<g, d>>] \in {"done", "raised"} =>
           DueResults(g, d)' = DueResults(g, d)
    BY <1>1 DEF DueResults
  <2> QED BY <1>1, <1>2, <2>1 DEF GroupHeld, Collected, BeforeCollection
<1> QED BY <1>5, <1>6, <1>7 DEF GroupHeld

\* A step of a calling thread that starts or ends no call keeps what is known
\* of the calls.
LEMMA GroupKeepsCalls ==
    ASSUME PermissionInv,
           UNCHANGED <<pc, request, outcome, deviceVars, reply, transcripts, crashes>>,
           AuditTypeOK', StoreTypeOK', DOMAIN outputs \subseteq DOMAIN outputs',
           savedAs' \in [Calls -> FileNames \cup {<<>>}],
           \A c \in Calls : savedAs'[c] = savedAs[c] \/ savedAs'[c] \in DOMAIN outputs',
           \A c \in Calls : /\ emitted'[c] = emitted[c]
                            /\ \A t \in Sinks : auditLog'[t][c] = auditLog[t][c]
    PROVE  PermissionInv'
<1>1. TypeOK'
  BY DEF PermissionInv, TypeOK, deviceVars
<1>2. Linked'
  BY DEF PermissionInv, Linked
<1>3. ASSUME NEW c \in Calls
      PROVE  PermissionHeld(c)'
  <2>1. PermissionHeld(c) /\ emitted[c] \in 0..Len(Handlers)
    BY GroupCalls DEF PermissionInv, TypeOK, AuditTypeOK
  <2>2. \A t \in Sinks : \A r : InLog(t, c, r) => InLog(t, c, r)'
    BY DEF InLog
  <2> QED BY <2>1, <2>2, OthersKeepPermission DEF deviceVars
<1> QED BY <1>1, <1>2, <1>3 DEF PermissionInv

LEMMA GroupInitHolds == GroupInit => GroupInv
<1> SUFFICES ASSUME GroupInit PROVE GroupInv
  OBVIOUS
<1>1. PermissionInv
  BY PermissionInit DEF GroupInit
<1>2. GroupTypes
  BY DEF GroupInit, GroupTypes, GroupPoints, Replies
<1>3. ASSUME NEW g \in Groups
      PROVE  GroupHeld(g)
  <2>1. /\ gpc[g] = "idle" /\ saving[g] = {} /\ waiting[g] = {} /\ answer[g] = "none" /\ Untouched(g)
        /\ \A t \in Sinks : auditLog[t][g] = <<>>
        /\ emitted[g] = 0
    BY GroupCalls DEF GroupInit, Init, AuditInit, Untouched
  <2>2. ~Seen(g, DENIED)
    BY <2>1 DEF Seen, InLog
  <2> QED BY <2>1, <2>2 DEF GroupHeld, Resolved, DenialHeld, Collected, Untouched, BeforeCollection
<1> QED BY <1>1, <1>2, <1>3 DEF GroupInv

-----------------------------------------------------------------------------
(* The steps of the calls. *)

\* Steps that leave the groups alone, and of their calls only go on with those
\* that run.
LEMMA CallsKeepGroups ==
    ASSUME GroupInv, PermissionInv', UNCHANGED groupVars,
           \A g \in Groups : /\ emitted'[g] = emitted[g]
                             /\ \A t \in Sinks : auditLog'[t][g] = auditLog[t][g],
           \A c \in Groups \X Devices :
              \/ pc'[c] = pc[c] /\ reply'[c] = reply[c] /\ savedAs'[c] = savedAs[c]
              \/ Running(c) /\ pc'[c] # "idle",
           DOMAIN outputs \subseteq DOMAIN outputs'
    PROVE  GroupInv'
<1>1. GroupTypes'
  BY DEF GroupInv, GroupTypes, groupVars
<1>2. ASSUME NEW g \in Groups
      PROVE  GroupHeld(g)'
  <2>1. /\ GroupHeld(g) /\ emitted[g] \in 0..Len(Handlers)
        /\ saving[g] \subseteq Devices /\ waiting[g] \subseteq Devices
    BY GroupCalls DEF GroupInv, GroupTypes, PermissionInv, TypeOK, AuditTypeOK
  <2>2. \A d \in Devices :
           \/ /\ pc'[<<g, d>>] = pc[<<g, d>>] /\ reply'[<<g, d>>] = reply[<<g, d>>]
              /\ savedAs'[<<g, d>>] = savedAs[<<g, d>>]
           \/ Running(<<g, d>>) /\ pc'[<<g, d>>] # "idle"
    OBVIOUS
  <2> QED BY <2>1, <2>2, OthersKeepGroup DEF groupVars
<1> QED BY <1>1, <1>2 DEF GroupInv

LEMMA CallStepKeepsGroups ==
    ASSUME GroupInv, UNCHANGED groupVars, NEW c \in Calls, CallStep(c)
    PROVE  GroupInv'
<1>1. PermissionInv'
  <2>1. PermissionInv
    BY DEF GroupInv
  <2> QED BY <2>1, TypeCallStep, PermissionCallStep DEF PermissionInv
<1>2. PermissionInv
  BY DEF GroupInv
<1>3. \A g \in Groups : g # c
  BY GroupCalls
<1> QED BY <1>1, <1>2, <1>3, CallStepIsLocal, CallsKeepGroups, GroupCalls

LEMMA OthersKeepGroups ==
    ASSUME GroupInv, UNCHANGED groupVars,
           \/ Tick
           \/ UNCHANGED vars
           \/ \E c \in ToolCalls, d \in Devices, m \in Commands, save \in BOOLEAN :
                 SendShowCommand(c, d, m, save)
    PROVE  GroupInv'
<1>1. PermissionInv
  BY DEF GroupInv
<1>2. PermissionInv'
  <2>1. Next \/ UNCHANGED vars
    BY DEF Next, ToolCalls
  <2> QED BY <1>1, <2>1, PermissionStep
<1>3. UNCHANGED <<auditVars, reply, savedAs, outputs>>
  BY DEF Tick, ClockTicks, vars, storeVars, resultVars, SendShowCommand, Start
<1>4. \A c \in Groups \X Devices : pc'[c] = pc[c]
  <2>1. pc \in [Calls -> Points]
    BY <1>1 DEF PermissionInv, TypeOK
  <2>2. CASE Tick \/ UNCHANGED vars
    BY <2>2 DEF Tick, vars
  <2>3. ASSUME NEW k \in ToolCalls, NEW d \in Devices, NEW m \in Commands, NEW save \in BOOLEAN,
               SendShowCommand(k, d, m, save), NEW c \in Groups \X Devices
        PROVE  pc'[c] = pc[c]
    <3>1. c \in Calls /\ c # k /\ pc' = [pc EXCEPT ![k] = "log_attempt"]
      BY <2>3, GroupCalls DEF ToolCalls, SendShowCommand, Start, Goto
    <3> QED BY <2>1, <3>1
  <2> QED BY <2>2, <2>3
<1> QED BY <1>2, <1>3, <1>4, CallsKeepGroups DEF auditVars

-----------------------------------------------------------------------------
(* The steps of a calling thread. *)

\* What g and its pool do leaves the other group calls alone.
LEMMA GroupIsLocal ==
    ASSUME GroupInv, NEW g \in Groups, PermissionInv', GroupTypes', GroupHeld(g)',
           \A h \in Groups : h # g =>
              /\ gpc'[h] = gpc[h] /\ grequest'[h] = grequest[h] /\ waiting'[h] = waiting[h]
              /\ saving'[h] = saving[h] /\ results'[h] = results[h] /\ answer'[h] = answer[h]
              /\ emitted'[h] = emitted[h]
              /\ \A t \in Sinks : auditLog'[t][h] = auditLog[t][h]
              /\ \A d \in Devices :
                    /\ pc'[<<h, d>>] = pc[<<h, d>>] /\ reply'[<<h, d>>] = reply[<<h, d>>]
                    /\ savedAs'[<<h, d>>] = savedAs[<<h, d>>],
           DOMAIN outputs \subseteq DOMAIN outputs'
    PROVE  GroupInv'
<1>1. ASSUME NEW h \in Groups, h # g
      PROVE  GroupHeld(h)'
  <2>1. /\ GroupHeld(h) /\ emitted[h] \in 0..Len(Handlers)
        /\ saving[h] \subseteq Devices /\ waiting[h] \subseteq Devices
    BY GroupCalls DEF GroupInv, GroupTypes, PermissionInv, TypeOK, AuditTypeOK
  <2> QED BY <1>1, <2>1, OthersKeepGroup
<1> QED BY <1>1 DEF GroupInv

\* The decision and its denial.
LEMMA DecisionStep ==
    ASSUME GroupInv, NEW g \in Groups,
           \/ \E r \in GroupRequests : SendToGroup(g, r)
           \/ WriteDenial(g) \/ DenialFails(g) \/ DenialLogged(g)
    PROVE  GroupInv'
<1>1. /\ GroupTypes /\ PermissionInv /\ GroupHeld(g) /\ g \in Ids /\ AuditTypeOK
      /\ emitted[g] \in 0..Len(Handlers) /\ Len(Handlers) \in Nat
  BY GroupCalls, HandlersType DEF GroupInv, PermissionInv, TypeOK, AuditTypeOK
<1>2. /\ UNCHANGED <<storeVars, pc, request, outcome, deviceVars, resultVars, crashes>>
      /\ UNCHANGED <<maxWorkers, waiting, saving, results>>
  BY DEF SendToGroup, WriteDenial, DenialFails, DenialLogged, vars, groupVars
<1>3. /\ AuditTypeOK'
      /\ \A t \in Sinks, d \in Ids : \A r : InLog(t, d, r) => InLog(t, d, r)'
      /\ \A d \in Ids : d # g => /\ emitted'[d] = emitted[d]
                                 /\ \A t \in Sinks : auditLog'[t][d] = auditLog[t][d]
  <2>1. CASE \E r \in GroupRequests : SendToGroup(g, r)
    <3>1. UNCHANGED auditVars
      BY <2>1 DEF SendToGroup, vars
    <3> QED BY <1>1, <3>1 DEF auditVars, AuditTypeOK, InLog
  <2>2. CASE WriteDenial(g) \/ DenialFails(g) \/ DenialLogged(g)
    <3>1. /\ HandlerWrites(g, DENIED) \/ HandlerRaises(g, DENIED) \/ EmitReturns(g)
          /\ DENIED \in Records
      BY <2>2 DEF WriteDenial, DenialFails, DenialLogged, Records, Verdicts
    <3> QED BY <1>1, <3>1, EmitStep
  <2> QED BY <2>1, <2>2
<1>4. PermissionInv'
  <2>1. /\ StoreTypeOK' /\ DOMAIN outputs \subseteq DOMAIN outputs'
        /\ savedAs' \in [Calls -> FileNames \cup {<<>>}] /\ savedAs' = savedAs
    BY <1>1, <1>2 DEF PermissionInv, TypeOK, StoreTypeOK, storeVars, resultVars
  <2>2. \A c \in Calls : c \in Ids /\ c # g
    BY GroupCalls
  <2> QED BY <1>1, <1>2, <1>3, <2>1, <2>2, GroupKeepsCalls DEF resultVars
<1>5. GroupTypes' /\ \A h \in Groups : h # g =>
          gpc'[h] = gpc[h] /\ grequest'[h] = grequest[h] /\ answer'[h] = answer[h]
  <2>1. /\ \/ gpc' = gpc
           \/ \E point \in {"inventory", "log_denied", "raised", "done"} :
                 gpc' = [gpc EXCEPT ![g] = point]
        /\ \/ grequest' = grequest
           \/ \E r \in GroupRequests : grequest' = [grequest EXCEPT ![g] = r]
        /\ answer' = answer \/ answer' = [answer EXCEPT ![g] = "security_error"]
    BY DEF SendToGroup, WriteDenial, DenialFails, DenialLogged, GroupGoto, groupVars
  <2>2. /\ gpc \in [Groups -> GroupPoints]
        /\ grequest \in [Groups -> GroupRequests \cup {NoRequest}]
        /\ answer \in [Groups -> {"none", "security_error", "inventory_error", "results"}]
    BY <1>1 DEF GroupTypes
  <2>3. gpc' \in [Groups -> GroupPoints] /\ \A h \in Groups : h # g => gpc'[h] = gpc[h]
    BY <2>1, <2>2 DEF GroupPoints, Finished
  <2>4. /\ grequest' \in [Groups -> GroupRequests \cup {NoRequest}]
        /\ \A h \in Groups : h # g => grequest'[h] = grequest[h]
    BY <2>1, <2>2
  <2>5. /\ answer' \in [Groups -> {"none", "security_error", "inventory_error", "results"}]
        /\ \A h \in Groups : h # g => answer'[h] = answer[h]
    BY <2>1, <2>2
  <2> QED BY <1>1, <1>2, <2>3, <2>4, <2>5 DEF GroupTypes
<1>6. GroupHeld(g)'
  <2>1. /\ gpc[g] \in {"idle", "log_denied"} /\ Untouched(g) /\ Untouched(g)'
        /\ saving'[g] = saving[g] /\ waiting'[g] = waiting[g]
    <3>1. gpc[g] \in {"idle", "log_denied"}
      BY DEF SendToGroup, WriteDenial, DenialFails, DenialLogged
    <3>2. Untouched(g)
      BY <1>1, <3>1 DEF GroupHeld, DenialHeld
    <3> QED BY <1>2, <3>1, <3>2 DEF Untouched
  <2>2. saving[g] = {} /\ Busy(g)' = {}
    BY <1>1, <2>1 DEF GroupHeld, Collected, GroupTypes, BeforeCollection, Untouched, Busy, Running
  <2>3. answer'[g] # "results"
    <3>1. answer[g] # "results"
      BY <1>1, <2>1 DEF GroupHeld, Collected
    <3> QED BY <1>1, <3>1 DEF SendToGroup, WriteDenial, DenialFails, DenialLogged,
                              groupVars, GroupTypes
  <2>4. Collected(g)'
    BY <2>1, <2>2, <2>3 DEF Collected, Untouched
  <2>5. CASE \E r \in GroupRequests : SendToGroup(g, r)
    <3>1. PICK r \in GroupRequests : SendToGroup(g, r)
      BY <2>5
    <3>2. /\ gpc[g] = "idle" /\ gpc'[g] \in {"inventory", "log_denied"} /\ grequest'[g] = r
          /\ UNCHANGED <<auditVars, answer>>
      BY <1>1, <3>1 DEF SendToGroup, GroupGoto, GroupTypes, vars
    <3>3. waiting'[g] = {} /\ emitted'[g] = 0 /\ ~Seen(g, DENIED)' /\ answer'[g] = answer[g]
      <4>1. waiting[g] = {} /\ emitted[g] = 0 /\ ~Seen(g, DENIED)
        BY <1>1, <3>2 DEF GroupHeld, Resolved, DenialHeld, Finished
      <4> QED BY <1>2, <3>2, <4>1 DEF auditVars, Seen, InLog
    <3>4. Resolved(g)'
      BY <2>1, <3>2, <3>3 DEF Resolved, Untouched
    <3>5. DenialHeld(g)'
      <4>1. answer'[g] = "security_error" => Recorded(g, DENIED)'
        BY <1>1, <3>2 DEF GroupHeld, DenialHeld, Recorded, InLog, auditVars
      <4> QED BY <2>1, <3>2, <3>3, <4>1 DEF DenialHeld
    <3> QED BY <2>4, <3>4, <3>5 DEF GroupHeld
  <2>6. ASSUME gpc[g] = "log_denied", gpc'[g] \in {"log_denied", "raised", "done"},
               grequest'[g] = grequest[g]
        PROVE  Resolved(g)'
    <3>1. waiting'[g] = {} /\ grequest'[g] \in GroupRequests
      BY <1>1, <1>2, <2>6 DEF GroupHeld, Resolved
    <3> QED BY <2>1, <3>1 DEF Resolved, Untouched
  <2>7. CASE WriteDenial(g)
    <3>1. /\ gpc[g] = "log_denied" /\ gpc'[g] = "log_denied" /\ grequest'[g] = grequest[g]
          /\ answer'[g] = answer[g] /\ emitted'[g] = emitted[g] + 1
          /\ emitted[g] < Len(Handlers)
          /\ auditLog' = Appended(NextSink(g), g, DENIED)
      BY <1>1, <2>7 DEF WriteDenial, HandlerWrites, groupVars, AuditTypeOK
    <3>2. ASSUME NEW i \in 1..emitted'[g]
          PROVE  InLog(Handlers[i], g, DENIED)'
      <4>1. Handlers[i] \in Sinks
        BY <1>1, <3>1, HandlersType
      <4>2. CASE i \in 1..emitted[g]
        BY <1>1, <1>3, <3>1, <4>1, <4>2 DEF GroupHeld, DenialHeld
      <4>3. CASE i = emitted[g] + 1
        <5>1. NextSink(g) = Handlers[i] /\ DENIED \in Records
          BY <4>3 DEF NextSink, Records, Verdicts
        <5> QED BY <1>1, <3>1, <4>1, <5>1, AppendedGrows
      <4> QED BY <1>1, <3>1, <4>2, <4>3
    <3>3. Recorded(g, DENIED) => Recorded(g, DENIED)'
      BY <1>1, <1>3, ConfiguredSinksType DEF Recorded
    <3>4. DenialHeld(g)'
      BY <1>1, <2>1, <3>1, <3>2, <3>3 DEF GroupHeld, DenialHeld
    <3> QED BY <2>4, <2>6, <3>1, <3>4 DEF GroupHeld
  <2>8. CASE DenialFails(g)
    <3>1. /\ gpc[g] = "log_denied" /\ gpc'[g] = "raised" /\ grequest'[g] = grequest[g]
          /\ answer'[g] = answer[g] /\ emitted'[g] = 0
      BY <1>1, <2>8 DEF DenialFails, HandlerRaises, GroupGoto, GroupTypes, AuditTypeOK
    <3>2. Recorded(g, DENIED) => Recorded(g, DENIED)'
      BY <1>1, <1>3, ConfiguredSinksType DEF Recorded
    <3>3. DenialHeld(g)'
      BY <1>1, <2>1, <3>1, <3>2 DEF GroupHeld, DenialHeld, Finished
    <3> QED BY <2>4, <2>6, <3>1, <3>3 DEF GroupHeld
  <2>9. CASE DenialLogged(g)
    <3>1. /\ gpc[g] = "log_denied" /\ gpc'[g] = "done" /\ grequest'[g] = grequest[g]
          /\ emitted[g] = Len(Handlers) /\ emitted'[g] = 0
      BY <1>1, <2>9 DEF DenialLogged, EmitReturns, GroupGoto, GroupTypes, AuditTypeOK
    <3>2. Recorded(g, DENIED)'
      <4>1. Recorded(g, DENIED)
        BY <1>1, <3>1 DEF GroupHeld, DenialHeld, Recorded, ConfiguredSinks
      <4> QED BY <1>1, <1>3, <4>1, ConfiguredSinksType DEF Recorded
    <3>3. DenialHeld(g)'
      BY <2>1, <3>1, <3>2 DEF DenialHeld, Finished
    <3> QED BY <2>4, <2>6, <3>1, <3>3 DEF GroupHeld
  <2> QED BY <2>5, <2>7, <2>8, <2>9
<1> QED BY <1>1, <1>2, <1>3, <1>4, <1>5, <1>6, GroupIsLocal, GroupCalls
        DEF storeVars, resultVars

\* The steps that look the group up, collect a result, give a save up and
\* answer change nothing but the variables of g.
LEMMA CollectStep ==
    ASSUME GroupInv, NEW g \in Groups,
           \/ GroupLookupSucceeds(g) \/ GroupLookupFails(g) \/ GroupReturns(g)
           \/ \E d \in Devices : \/ CollectFailure(g, d) \/ CollectReply(g, d)
                                 \/ CollectForSave(g, d) \/ GroupSaveFails(g, d)
    PROVE  GroupInv'
<1>1. /\ GroupTypes /\ PermissionInv /\ GroupHeld(g)
      /\ reply \in [Calls -> Replies]
  BY DEF GroupInv, PermissionInv, TypeOK
<1>2. UNCHANGED <<vars, maxWorkers, grequest>>
  BY DEF GroupLookupSucceeds, GroupLookupFails, GroupReturns, CollectFailure, CollectReply,
         CollectForSave, GroupSaveFails
<1>3. UNCHANGED <<auditLog, emitted, pc, reply, savedAs, outputs>>
  BY <1>2 DEF vars, auditVars, storeVars, resultVars
<1>4. PermissionInv'
  BY <1>1, <1>2, PermissionStep
<1>5. /\ Recorded(g, DENIED)' = Recorded(g, DENIED) /\ Seen(g, DENIED)' = Seen(g, DENIED)
      /\ Members(g)' = Members(g)
  BY <1>2, <1>3 DEF Recorded, Seen, InLog, Members
<1>6. \A d \in Devices : DueResults(g, d)' = DueResults(g, d)
  BY <1>2, <1>3 DEF DueResults
<1>7. /\ gpc' \in [Groups -> GroupPoints] /\ waiting' \in [Groups -> SUBSET Devices]
      /\ answer' \in [Groups -> {"none", "security_error", "inventory_error", "results"}]
      /\ \A h \in Groups : h # g =>
            /\ gpc'[h] = gpc[h] /\ waiting'[h] = waiting[h] /\ answer'[h] = answer[h]
  <2>1. /\ gpc \in [Groups -> GroupPoints] /\ waiting \in [Groups -> SUBSET Devices]
        /\ answer \in [Groups -> {"none", "security_error", "inventory_error", "results"}]
    BY <1>1 DEF GroupTypes
  <2>2. /\ gpc' \in [Groups -> GroupPoints]
        /\ \A h \in Groups : h # g => gpc'[h] = gpc[h]
    <3>1. \/ gpc' = gpc
          \/ \E point \in {"submit", "pool", "raised", "done", "save"} :
                gpc' = [gpc EXCEPT ![g] = point]
      BY DEF GroupLookupSucceeds, GroupLookupFails, GroupReturns, CollectFailure, CollectReply,
             CollectForSave, GroupSaveFails, GroupGoto
    <3> QED BY <2>1, <3>1 DEF GroupPoints, Finished
  <2>3. /\ waiting' \in [Groups -> SUBSET Devices]
        /\ \A h \in Groups : h # g => waiting'[h] = waiting[h]
    BY <2>1 DEF GroupLookupSucceeds, GroupLookupFails, GroupReturns, CollectFailure, CollectReply,
                CollectForSave, GroupSaveFails
  <2>4. /\ answer' \in [Groups -> {"none", "security_error", "inventory_error", "results"}]
        /\ \A h \in Groups : h # g => answer'[h] = answer[h]
    <3>1. \/ answer' = answer
          \/ \E kind \in {"inventory_error", "results"} : answer' = [answer EXCEPT ![g] = kind]
      BY DEF GroupLookupSucceeds, GroupLookupFails, GroupReturns, CollectFailure, CollectReply,
             CollectForSave, GroupSaveFails
    <3> QED BY <2>1, <3>1
  <2> QED BY <2>2, <2>3, <2>4
<1>8. /\ saving' \in [Groups -> SUBSET Devices] /\ results' \in [Groups -> [Devices -> Replies]]
      /\ \A h \in Groups : h # g => saving'[h] = saving[h] /\ results'[h] = results[h]
  <2>1. CASE GroupLookupSucceeds(g) \/ GroupLookupFails(g) \/ GroupReturns(g)
    BY <1>1, <2>1 DEF GroupLookupSucceeds, GroupLookupFails, GroupReturns, GroupTypes
  <2>2. ASSUME NEW d \in Devices, CollectFailure(g, d) \/ CollectReply(g, d)
                                  \/ CollectForSave(g, d) \/ GroupSaveFails(g, d)
        PROVE  /\ saving' \in [Groups -> SUBSET Devices]
               /\ results' \in [Groups -> [Devices -> Replies]]
               /\ \A h \in Groups : h # g => saving'[h] = saving[h] /\ results'[h] = results[h]
    <3>1. reply[<<g, d>>] \in Replies /\ "execution_error" \in Replies
      BY <1>1, GroupCalls DEF Replies
    <3>2. /\ results \in [Groups -> [Devices -> Replies]]
          /\ saving \in [Groups -> SUBSET Devices]
      BY <1>1 DEF GroupTypes
    <3>3. \/ results' = results
          \/ \E kind \in Replies : results' = [results EXCEPT ![g][d] = kind]
      BY <2>2, <3>1 DEF CollectFailure, CollectReply, CollectForSave, GroupSaveFails, SetResult
    <3>4. \/ saving' = saving
          \/ \E files \in {{}, {d}} : saving' = [saving EXCEPT ![g] = files]
      BY <2>2 DEF CollectFailure, CollectReply, CollectForSave, GroupSaveFails
    <3>5. /\ results' \in [Groups -> [Devices -> Replies]]
          /\ \A h \in Groups : h # g => results'[h] = results[h]
      <4>1. ASSUME NEW kind \in Replies, results' = [results EXCEPT ![g][d] = kind]
            PROVE  /\ results' \in [Groups -> [Devices -> Replies]]
                   /\ \A h \in Groups : h # g => results'[h] = results[h]
        <5>1. [results[g] EXCEPT ![d] = kind] \in [Devices -> Replies]
          BY <3>2
        <5> QED BY <3>2, <4>1, <5>1
      <4> QED BY <3>2, <3>3, <4>1
    <3>6. /\ saving' \in [Groups -> SUBSET Devices]
          /\ \A h \in Groups : h # g => saving'[h] = saving[h]
      BY <3>2, <3>4
    <3> QED BY <3>5, <3>6
  <2> QED BY <2>1, <2>2
<1>9. ASSUME GroupHeld(g)'
      PROVE  GroupInv'
  <2>1. GroupTypes'
    BY <1>1, <1>2, <1>7, <1>8 DEF GroupTypes
  <2> QED BY <1>2, <1>3, <1>4, <1>7, <1>8, <1>9, <2>1, GroupIsLocal
\* Before the pool nothing was collected.
<1>10. CASE GroupLookupSucceeds(g) \/ GroupLookupFails(g)
  <2>1. /\ gpc[g] = "inventory" /\ gpc'[g] \in {"submit", "raised", "done"} /\ waiting'[g] = {}
        /\ answer'[g] = answer[g] \/ answer'[g] = "inventory_error"
        /\ saving'[g] = saving[g] /\ results'[g] = results[g] /\ emitted'[g] = 0
        /\ Untouched(g) /\ saving[g] = {} /\ answer[g] # "results" /\ ~Seen(g, DENIED)
    <3>1. gpc[g] = "inventory"
      BY <1>10 DEF GroupLookupSucceeds, GroupLookupFails
    <3>2. waiting[g] = {}
      BY <1>1, <3>1 DEF GroupHeld, Resolved
    <3>3. emitted[g] = 0 /\ Untouched(g) /\ answer[g] # "results" /\ ~Seen(g, DENIED)
      BY <1>1, <3>1 DEF GroupHeld, DenialHeld, Collected, Finished
    <3>4. saving[g] = {}
      BY <1>1, <3>1 DEF GroupHeld, Collected, GroupTypes, BeforeCollection
    <3> QED BY <1>1, <1>3, <1>10, <3>1, <3>2, <3>3, <3>4
            DEF GroupLookupSucceeds, GroupLookupFails, GroupGoto, GroupTypes
  <2>2. Untouched(g)'
    BY <1>3, <2>1 DEF Untouched
  <2>3. Resolved(g)'
    <3>1. grequest'[g] \in GroupRequests
      BY <1>1, <1>2, <1>7, <2>1 DEF GroupHeld, Resolved
    <3> QED BY <1>5, <2>1, <2>2, <3>1 DEF Resolved, Untouched
  <2>4. Busy(g)' = {}
    BY <2>2 DEF Busy, Running, Untouched
  <2>5. DenialHeld(g)' /\ Collected(g)'
    BY <1>1, <1>5, <2>1, <2>2, <2>4 DEF GroupHeld, DenialHeld, Collected, Untouched
  <2> QED BY <1>9, <2>3, <2>5 DEF GroupHeld
<1>11. ASSUME gpc[g] \in Pooling, gpc'[g] \in {"pool", "save"}, UNCHANGED <<waiting, answer>>,
              Collected(g)', \A d \in Devices \ Members(g) : results'[g][d] = results[g][d]
       PROVE  GroupInv'
  <2>1. Resolved(g)'
    BY <1>1, <1>2, <1>3, <1>5, <1>11 DEF GroupHeld, Resolved, Pooling
  <2>2. DenialHeld(g)'
    BY <1>1, <1>3, <1>5, <1>11 DEF GroupHeld, DenialHeld, Pooling, Finished
  <2> QED BY <1>9, <1>11, <2>1, <2>2 DEF GroupHeld
<1>12. ASSUME NEW d \in Devices, CollectFailure(g, d) \/ CollectReply(g, d)
       PROVE  GroupInv'
  <2>1. /\ gpc[g] = "pool" /\ gpc'[g] = "pool" /\ d \in Members(g) /\ saving'[g] = saving[g]
        /\ UNCHANGED <<waiting, answer>> /\ pc[<<g, d>>] \in {"done", "raised"}
        /\ \A k \in Devices \ {d} : results'[g][k] = results[g][k]
        /\ results'[g][d] \in DueResults(g, d)
    <3>1. /\ gpc[g] = "pool" /\ gpc' = gpc /\ d \in Members(g)
          /\ UNCHANGED <<saving, waiting, answer>> /\ pc[<<g, d>>] \in {"done", "raised"}
      BY <1>12 DEF CollectFailure, CollectReply, Yields
    <3>2. PICK kind \in DueResults(g, d) : results' = [results EXCEPT ![g][d] = kind]
      BY <1>12 DEF CollectFailure, CollectReply, SetResult, DueResults
    <3>3. results \in [Groups -> [Devices -> Replies]]
      BY <1>1 DEF GroupTypes
    <3> QED BY <3>1, <3>2, <3>3
  <2>2. Collected(g)'
    BY <1>1, <1>2, <1>3, <1>5, <1>6, <2>1 DEF GroupHeld, Collected, BeforeCollection
  <2> QED BY <1>11, <2>1, <2>2 DEF Pooling
<1>13. ASSUME NEW d \in Devices, CollectForSave(g, d)
       PROVE  GroupInv'
  <2>1. /\ gpc[g] = "pool" /\ gpc'[g] = "save" /\ d \in Members(g) /\ saving'[g] = {d}
        /\ UNCHANGED <<waiting, answer, results>> /\ pc[<<g, d>>] = "done"
        /\ grequest[g].save_output
    BY <1>1, <1>13 DEF CollectForSave, Yields, GroupGoto, GroupTypes
  <2>2. Collected(g)'
    BY <1>1, <1>2, <1>3, <1>5, <1>6, <2>1 DEF GroupHeld, Collected, BeforeCollection
  <2> QED BY <1>11, <2>1, <2>2 DEF Pooling
<1>14. ASSUME NEW d \in Devices, GroupSaveFails(g, d)
       PROVE  GroupInv'
  <2>1. /\ gpc[g] \in {"save", "write"} /\ gpc'[g] = "pool" /\ d \in saving[g]
        /\ saving'[g] = {} /\ UNCHANGED <<waiting, answer>>
        /\ \A k \in Devices \ {d} : results'[g][k] = results[g][k]
        /\ results'[g][d] = "execution_error"
    BY <1>1, <1>14 DEF GroupSaveFails, SetResult, GroupGoto, GroupTypes
  <2>2. d \in Members(g) /\ pc[<<g, d>>] = "done" /\ "execution_error" \in DueResults(g, d)
    BY <1>1, <2>1 DEF GroupHeld, Collected, DueResults
  <2>3. Collected(g)'
    BY <1>1, <1>2, <1>3, <1>5, <1>6, <2>1, <2>2 DEF GroupHeld, Collected, BeforeCollection
  <2> QED BY <1>11, <2>1, <2>2, <2>3 DEF Pooling
<1>15. CASE GroupReturns(g)
  <2>1. /\ gpc[g] = "pool" /\ gpc'[g] = "done" /\ answer'[g] = "results"
        /\ UNCHANGED <<waiting, saving, results>>
        /\ \A d \in Members(g) : results[g][d] # "none"
    BY <1>1, <1>15 DEF GroupReturns, GroupGoto, GroupTypes
  <2>2. Resolved(g)' /\ Collected(g)'
    BY <1>1, <1>2, <1>3, <1>5, <1>6, <2>1 DEF GroupHeld, Resolved, Collected, BeforeCollection
  <2>3. DenialHeld(g)'
    BY <1>1, <1>3, <1>5, <2>1 DEF GroupHeld, DenialHeld, Finished
  <2> QED BY <1>9, <2>2, <2>3 DEF GroupHeld
<1> QED BY <1>10, <1>12, <1>13, <1>14, <1>15

\* The calling thread hands its jobs to the pool, or fails to and waits for those
\* that are in it.
LEMMA SubmitStep ==
    ASSUME GroupInv, NEW g \in Groups,
           \/ AllSubmitted(g) \/ PoolJoined(g)
           \/ \E d \in Devices : SubmitJob(g, d) \/ SubmitFails(g, d)
    PROVE  GroupInv'
<1>1. /\ GroupTypes /\ PermissionInv /\ GroupHeld(g)
      /\ gpc \in [Groups -> GroupPoints] /\ waiting \in [Groups -> SUBSET Devices]
  BY DEF GroupInv, GroupTypes
<1>2. UNCHANGED <<vars, maxWorkers, grequest, saving, results, answer>>
  BY DEF AllSubmitted, PoolJoined, SubmitJob, SubmitFails
<1>3. UNCHANGED <<auditLog, emitted, pc, reply, savedAs, outputs>>
  BY <1>2 DEF vars, auditVars, storeVars, resultVars
<1>4. PermissionInv'
  BY <1>1, <1>2, PermissionStep
<1>5. /\ gpc[g] \in {"submit", "drain"} /\ gpc'[g] \in {"submit", "drain", "pool", "raised"}
      /\ gpc'[g] = "raised" => waiting'[g] = {} /\ Busy(g) = {}
      /\ \A d \in waiting'[g] : d \in waiting[g] \/ d \in Unsubmitted(g)
      /\ gpc' \in [Groups -> GroupPoints] /\ waiting' \in [Groups -> SUBSET Devices]
      /\ \A h \in Groups : h # g => gpc'[h] = gpc[h] /\ waiting'[h] = waiting[h]
  <2>1. CASE AllSubmitted(g) \/ PoolJoined(g)
    <3>1. /\ gpc[g] \in {"submit", "drain"} /\ waiting' = waiting
          /\ \E point \in {"pool", "raised"} : gpc' = [gpc EXCEPT ![g] = point]
          /\ gpc'[g] = "raised" => waiting[g] = {} /\ Busy(g) = {}
      BY <1>1, <2>1 DEF AllSubmitted, PoolJoined, GroupGoto
    <3> QED BY <1>1, <3>1 DEF GroupPoints, Finished
  <2>2. ASSUME NEW d \in Devices, SubmitJob(g, d) \/ SubmitFails(g, d)
        PROVE  <1>5
    <3>1. /\ gpc[g] = "submit" /\ d \in Unsubmitted(g)
          /\ gpc' = gpc \/ gpc' = [gpc EXCEPT ![g] = "drain"]
          /\ waiting' = waiting \/ waiting' = [waiting EXCEPT ![g] = @ \cup {d}]
      BY <2>2 DEF SubmitJob, SubmitFails, GroupGoto
    <3> QED BY <1>1, <3>1 DEF GroupPoints
  <2> QED BY <2>1, <2>2
<1>6. GroupTypes'
  BY <1>1, <1>2, <1>5 DEF GroupTypes
<1>7. GroupHeld(g)'
  <2>1. /\ Recorded(g, DENIED)' = Recorded(g, DENIED) /\ Seen(g, DENIED)' = Seen(g, DENIED)
        /\ Members(g)' = Members(g) /\ Busy(g)' = Busy(g)
    BY <1>2, <1>3 DEF Recorded, Seen, InLog, Members, Busy, Running
  <2>2. \A d \in Unsubmitted(g) : d \in Members(g) /\ pc[<<g, d>>] = "idle"
    BY DEF Unsubmitted
  <2>3. Resolved(g)'
    BY <1>1, <1>2, <1>3, <1>5, <2>1, <2>2 DEF GroupHeld, Resolved
  <2>4. DenialHeld(g)'
    BY <1>1, <1>2, <1>3, <1>5, <2>1 DEF GroupHeld, DenialHeld, Finished
  <2>5. Collected(g)'
    <3>1. saving[g] = {} /\ answer[g] # "results" /\ \A d \in Devices : results[g][d] = "none"
      BY <1>1, <1>5 DEF GroupHeld, Collected, BeforeCollection, GroupTypes
    <3> QED BY <1>2, <1>5, <2>1, <3>1 DEF Collected
  <2> QED BY <2>3, <2>4, <2>5 DEF GroupHeld
<1> QED BY <1>2, <1>3, <1>4, <1>5, <1>6, <1>7, GroupIsLocal

\* A save on the calling thread opens a file for the device, then fills it.
LEMMA SaveStep ==
    ASSUME GroupInv, NEW g \in Groups, NEW d \in Devices,
           OpenGroupOutput(g, d) \/ WriteGroupOutput(g, d)
    PROVE  GroupInv'
<1> DEFINE c == <<g, d>>
<1>1. /\ GroupTypes /\ PermissionInv /\ GroupHeld(g) /\ c \in Calls
      /\ TypeOK /\ StoreTypeOK /\ savedAs \in [Calls -> FileNames \cup {<<>>}]
      /\ d \in saving[g] /\ gpc[g] \in {"save", "write"}
  BY GroupCalls DEF GroupInv, PermissionInv, TypeOK, OpenGroupOutput, WriteGroupOutput
<1>2. /\ UNCHANGED <<auditVars, pc, request, outcome, deviceVars, reply, transcripts, crashes>>
      /\ UNCHANGED <<maxWorkers, grequest, waiting, answer>>
  BY DEF OpenGroupOutput, WriteGroupOutput, resultVars
<1>3. /\ grequest[g] \in GroupRequests /\ d \in Members(g) /\ pc[c] = "done"
      /\ grequest[g].save_output /\ (gpc[g] = "write" => savedAs[c] \in DOMAIN outputs)
  BY <1>1 DEF GroupHeld, Resolved, Collected
<1>4. /\ StoreTypeOK' /\ DOMAIN outputs \subseteq DOMAIN outputs'
      /\ savedAs' \in [Calls -> FileNames \cup {<<>>}]
      /\ savedAs'[c] \in DOMAIN outputs' /\ \A k \in Calls : k # c => savedAs'[k] = savedAs[k]
  <2>1. CASE OpenGroupOutput(g, d)
    <3> DEFINE name == FileNameOf(d, grequest[g].command)
    <3>1. name \in FileNames
      BY <1>1, <1>3, FileNameType DEF GroupRequests
    <3>2. /\ DOMAIN outputs' = DOMAIN outputs \cup {name}
          /\ \A n \in DOMAIN outputs' : outputs'[n] = IF n = name THEN {} ELSE outputs[n]
          /\ clock' = clock /\ savedAs' = [savedAs EXCEPT ![c] = name]
      BY <2>1 DEF OpenGroupOutput, TruncateFile, WithContent
    <3> HIDE DEF name
    <3>3. StoreTypeOK'
      BY <1>1, <3>1, <3>2 DEF StoreTypeOK
    <3> QED BY <1>1, <3>1, <3>2, <3>3
  <2>2. CASE WriteGroupOutput(g, d)
    <3>1. savedAs[c] \in DOMAIN outputs /\ savedAs' = savedAs
      BY <1>3, <2>2 DEF WriteGroupOutput, resultVars
    <3>2. PICK kept \in SUBSET outputs[savedAs[c]] :
               outputs' = WithContent(savedAs[c], kept \cup {c})
      BY <2>2 DEF WriteGroupOutput, WriteFile
    <3>3. /\ kept \subseteq Calls /\ DOMAIN outputs' = DOMAIN outputs
          /\ \A n \in DOMAIN outputs :
                outputs'[n] = IF n = savedAs[c] THEN kept \cup {c} ELSE outputs[n]
          /\ clock' = clock
      BY <1>1, <2>2, <3>1, <3>2 DEF StoreTypeOK, WriteGroupOutput, WriteFile, WithContent
    <3>4. StoreTypeOK'
      BY <1>1, <3>3 DEF StoreTypeOK
    <3> QED BY <1>1, <3>1, <3>3, <3>4
  <2> QED BY <2>1, <2>2
<1>5. PermissionInv'
  <2>1. AuditTypeOK'
    BY <1>1, <1>2 DEF TypeOK, AuditTypeOK, auditVars
  <2>2. \A k \in Calls : savedAs'[k] = savedAs[k] \/ savedAs'[k] \in DOMAIN outputs'
    BY <1>4
  <2> QED BY <1>1, <1>2, <1>4, <2>1, <2>2, GroupKeepsCalls DEF auditVars
<1>6. /\ GroupTypes'
      /\ \A h \in Groups : h # g =>
            gpc'[h] = gpc[h] /\ saving'[h] = saving[h] /\ results'[h] = results[h]
      /\ gpc'[g] \in {"write", "pool"} /\ saving'[g] \subseteq saving[g]
      /\ gpc'[g] = "write" => /\ OpenGroupOutput(g, d) /\ results'[g] = results[g]
      /\ gpc'[g] = "pool" => /\ saving'[g] = {} /\ results'[g][d] = "saved"
                             /\ \A k \in Devices \ {d} : results'[g][k] = results[g][k]
  <2>1. /\ gpc \in [Groups -> GroupPoints] /\ saving \in [Groups -> SUBSET Devices]
        /\ results \in [Groups -> [Devices -> Replies]]
    BY <1>1 DEF GroupTypes
  <2>2. CASE OpenGroupOutput(g, d)
    BY <1>1, <1>2, <2>1, <2>2 DEF OpenGroupOutput, GroupGoto, GroupTypes, GroupPoints
  <2>3. CASE WriteGroupOutput(g, d)
    <3>1. [results[g] EXCEPT ![d] = "saved"] \in [Devices -> Replies]
      BY <2>1 DEF Replies
    <3>2. results' = [results EXCEPT ![g] = [results[g] EXCEPT ![d] = "saved"]]
      BY <2>3 DEF WriteGroupOutput, SetResult
    <3> QED BY <1>1, <1>2, <2>1, <2>3, <3>1, <3>2
            DEF WriteGroupOutput, GroupGoto, GroupTypes, GroupPoints
  <2> QED BY <2>2, <2>3
<1>7. GroupHeld(g)'
  <2>1. \A k \in Devices : DueResults(g, k)' = DueResults(g, k)
    BY <1>2 DEF DueResults
  <2>2. Resolved(g)'
    BY <1>1, <1>2, <1>3, <1>6 DEF GroupHeld, Resolved, Members
  <2>3. DenialHeld(g)'
    <3>1. /\ Recorded(g, DENIED)' = Recorded(g, DENIED) /\ Seen(g, DENIED)' = Seen(g, DENIED)
          /\ emitted'[g] = emitted[g]
      BY <1>2 DEF Recorded, Seen, InLog, auditVars
    <3> QED BY <1>1, <1>2, <1>6, <3>1 DEF GroupHeld, DenialHeld, Finished
  <2>4. Collected(g)'
    <3>1. "saved" \in DueResults(g, d)
      BY <1>3 DEF DueResults
    <3>2. answer[g] # "results"
      BY <1>1 DEF GroupHeld, Collected
    <3>3. \A k \in saving'[g] : gpc'[g] = "write" => savedAs'[<<g, k>>] \in DOMAIN outputs'
      <4>1. \A k \in saving'[g] : k = d
        BY <1>1, <1>6 DEF GroupHeld, Collected
      <4> QED BY <1>4, <4>1
    <3> QED BY <1>1, <1>2, <1>3, <1>6, <2>1, <3>1, <3>2, <3>3
            DEF GroupHeld, Collected, Members, BeforeCollection
  <2> QED BY <2>2, <2>3, <2>4 DEF GroupHeld
<1> QED BY <1>1, <1>2, <1>4, <1>5, <1>6, <1>7, GroupIsLocal, GroupCalls DEF auditVars

\* A free thread takes a job: the call for d starts.
LEMMA WorkerStep ==
    ASSUME GroupInv, NEW g \in Groups, NEW d \in Devices, WorkerStarts(g, d)
    PROVE  GroupInv'
<1> DEFINE c == <<g, d>>
<1>1. /\ GroupTypes /\ PermissionInv /\ GroupHeld(g) /\ c \in Calls /\ c \in Ids
      /\ pc \in [Calls -> Points] /\ gpc[g] \in Pooling /\ d \in waiting[g]
      /\ TypeOK /\ Linked /\ AuditTypeOK
  BY GroupCalls DEF GroupInv, PermissionInv, TypeOK, WorkerStarts
<1>2. grequest[g] \in GroupRequests /\ d \in Members(g)
  BY <1>1 DEF GroupHeld, Resolved, Pooling
<1>3. PICK r \in Requests : Start(c, r)
  <2>1. grequest[g].command \in Commands /\ grequest[g].save_output \in BOOLEAN
    BY <1>2 DEF GroupRequests
  <2>2. [device |-> d, command |-> grequest[g].command, save_output |-> FALSE,
         auto_save |-> ~grequest[g].save_output, preloaded |-> TRUE] \in Requests
    BY <2>1 DEF Requests
  <2> QED BY <2>2 DEF WorkerStarts
<1>4. /\ pc[c] = "idle" /\ pc' = [pc EXCEPT ![c] = "log_attempt"]
      /\ UNCHANGED <<auditLog, emitted, outputs, reply, savedAs>>
      /\ UNCHANGED <<maxWorkers, gpc, grequest, saving, results, answer>>
      /\ waiting' = [waiting EXCEPT ![g] = @ \ {d}]
  BY <1>3 DEF Start, Goto, auditVars, storeVars, resultVars, WorkerStarts
<1>5. PermissionInv'
  BY <1>1, <1>3, StartKeepsPermission DEF PermissionInv
<1>6. GroupTypes'
  BY <1>1, <1>4 DEF GroupTypes
<1>7. /\ waiting'[g] = waiting[g] \ {d} /\ pc'[c] = "log_attempt"
      /\ \A k \in Calls : k # c => pc'[k] = pc[k]
  BY <1>1, <1>4 DEF GroupTypes
<1>8. results[g][d] = "none" /\ d \notin saving[g] /\ ~Seen(g, DENIED)
  BY <1>1, <1>4 DEF GroupHeld, Collected, DenialHeld, Pooling, Finished
<1>9. GroupHeld(g)'
  <2>1. \A k \in Devices : k # d => pc'[<<g, k>>] = pc[<<g, k>>] /\ <<g, k>> \in Calls
    BY <1>7, GroupCalls
  <2>2. Resolved(g)'
    BY <1>1, <1>2, <1>4, <1>7, <2>1 DEF GroupHeld, GroupTypes, Resolved, Members, Pooling
  <2>3. DenialHeld(g)'
    BY <1>1, <1>4, <1>8 DEF GroupHeld, DenialHeld, Pooling, Seen, Recorded, InLog
  <2>4. \A k \in Devices : k # d => DueResults(g, k)' = DueResults(g, k)
    BY <1>4, <2>1 DEF DueResults
  <2>5. Collected(g)'
    <3>1. gpc'[g] \in Pooling /\ gpc'[g] = gpc[g]
      BY <1>1, <1>4
    <3> QED BY <1>1, <1>4, <1>7, <1>8, <2>1, <2>4, <3>1
            DEF GroupHeld, GroupTypes, Collected, Members, BeforeCollection, Pooling
  <2> QED BY <2>2, <2>3, <2>5 DEF GroupHeld
<1>10. \A h \in Groups : h # g => \A k \in Devices : <<h, k>> # c /\ <<h, k>> \in Calls
  BY GroupCalls
<1> QED BY <1>1, <1>4, <1>5, <1>6, <1>7, <1>9, <1>10, GroupIsLocal DEF GroupTypes

\* The process dies with its threads.
LEMMA GroupCrashStep ==
    ASSUME GroupInv, GroupCrash
    PROVE  GroupInv'
<1>1. /\ GroupTypes /\ PermissionInv /\ pc \in [Calls -> Points]
      /\ \A g \in Groups : GroupHeld(g) /\ g \in Ids
  BY GroupCalls DEF GroupInv, PermissionInv, TypeOK
<1>2. /\ CrashCalls /\ emitted' = [id \in Ids |-> 0]
      /\ UNCHANGED <<auditLog, outputs, reply, savedAs>>
      /\ UNCHANGED <<maxWorkers, grequest, saving, results, answer>>
      /\ waiting' = [g \in Groups |-> {}]
      /\ gpc' = [g \in Groups |-> IF GroupRunning(g) THEN "crashed" ELSE gpc[g]]
      /\ pc' = [c \in Calls |-> IF Running(c) THEN "crashed" ELSE pc[c]]
  BY DEF GroupCrash, CrashCalls, EmitsCrash, storeVars, resultVars
<1>3. PermissionInv'
  BY <1>1, <1>2, CrashKeepsPermission
<1>4. GroupTypes'
  BY <1>1, <1>2 DEF GroupTypes, GroupPoints, Finished
<1>5. ASSUME NEW g \in Groups
      PROVE  GroupHeld(g)'
  <2>1. /\ waiting'[g] = {} /\ emitted'[g] = 0 /\ gpc'[g] # "log_denied"
        /\ gpc'[g] = gpc[g] \/ (gpc'[g] = "crashed" /\ GroupRunning(g))
    BY <1>1, <1>2 DEF GroupRunning, Finished
  <2>2. \A d \in Devices : /\ pc[<<g, d>>] \in {"idle", "done", "raised"} =>
                                 pc'[<<g, d>>] = pc[<<g, d>>]
                           /\ pc[<<g, d>>] # "idle" => pc'[<<g, d>>] # "idle"
                           /\ ~Running(<<g, d>>)'
    BY <1>1, <1>2, GroupCalls DEF Running, Finished
  <2>3. Resolved(g)'
    <3>1. (gpc'[g] # "idle" => gpc[g] # "idle") /\ Members(g)' = Members(g)
      BY <1>2, <2>1 DEF GroupRunning, Members
    <3>2. Resolved(g)
      BY <1>1 DEF GroupHeld
    <3> QED BY <1>2, <2>1, <2>2, <3>1, <3>2 DEF Resolved
  <2>4. Untouched(g) => Untouched(g)'
    BY <1>2, <2>2 DEF Untouched
  <2>5. DenialHeld(g)'
    BY <1>1, <1>2, <2>1, <2>4
       DEF GroupHeld, DenialHeld, GroupRunning, Finished, Seen, Recorded, InLog
  <2>6. Collected(g)'
    <3>1. \A d \in Devices : pc[<<g, d>>] \in {"done", "raised"} =>
             DueResults(g, d)' = DueResults(g, d)
      BY <1>2, <2>2 DEF DueResults
    <3>2. saving[g] \subseteq Devices
      BY <1>1 DEF GroupTypes
    <3>3. /\ gpc[g] = "idle" => gpc'[g] = "idle"
          /\ gpc'[g] \in BeforeCollection => gpc'[g] = gpc[g]
          /\ gpc'[g] = "write" => gpc[g] = "write"
          /\ gpc[g] = "done" => gpc'[g] = "done"
          /\ Members(g)' = Members(g) /\ Collected(g)
      BY <1>1, <1>2, <2>1 DEF GroupRunning, Finished, Members, GroupHeld, BeforeCollection
    <3>4. \A d \in saving[g] : /\ d \in Devices
                               /\ gpc[g] \notin BeforeCollection /\ gpc'[g] \notin BeforeCollection
      BY <3>2, <3>3 DEF Collected
    <3>5. Busy(g)' = {}
      BY <2>2 DEF Busy
    <3> QED BY <1>2, <2>2, <3>1, <3>3, <3>4, <3>5 DEF Collected
  <2> QED BY <2>3, <2>5, <2>6 DEF GroupHeld
<1> QED BY <1>3, <1>4, <1>5 DEF GroupInv

-----------------------------------------------------------------------------
(* The theorems. *)

LEMMA GroupInvStep == GroupInv /\ [GroupNext]_gvars => GroupInv'
<1> SUFFICES ASSUME GroupInv, [GroupNext]_gvars
             PROVE  GroupInv'
  OBVIOUS
<1>1. ASSUME NEW g \in Groups, NEW r \in GroupRequests, SendToGroup(g, r)
      PROVE  GroupInv'
  BY <1>1, DecisionStep
<1>2. ASSUME NEW g \in Groups, GroupStep(g)
      PROVE  GroupInv'
  <2>1. CASE WriteDenial(g) \/ DenialFails(g) \/ DenialLogged(g)
    BY <2>1, DecisionStep
  <2>2. CASE GroupLookupSucceeds(g) \/ GroupLookupFails(g) \/ GroupReturns(g)
    BY <2>2, CollectStep
  <2>3. ASSUME NEW d \in Devices, CollectFailure(g, d) \/ CollectReply(g, d)
                                  \/ CollectForSave(g, d) \/ GroupSaveFails(g, d)
        PROVE  GroupInv'
    BY <2>3, CollectStep
  <2>4. ASSUME NEW d \in Devices, OpenGroupOutput(g, d) \/ WriteGroupOutput(g, d)
        PROVE  GroupInv'
    BY <2>4, SaveStep
  <2>5. CASE \/ AllSubmitted(g) \/ PoolJoined(g)
             \/ \E d \in Devices : SubmitJob(g, d) \/ SubmitFails(g, d)
    BY <2>5, SubmitStep
  <2> QED BY <1>2, <2>1, <2>2, <2>3, <2>4, <2>5 DEF GroupStep
<1>3. ASSUME NEW g \in Groups, NEW d \in Devices, WorkerStarts(g, d)
      PROVE  GroupInv'
  BY <1>3, WorkerStep
<1>4. ASSUME NEW c \in ToolCalls, NEW d \in Devices, NEW m \in Commands, NEW save \in BOOLEAN,
             SendShowCommand(c, d, m, save), UNCHANGED groupVars
      PROVE  GroupInv'
  BY <1>4, OthersKeepGroups
<1>5. ASSUME NEW c \in Calls, CallStep(c), UNCHANGED groupVars
      PROVE  GroupInv'
  BY <1>5, CallStepKeepsGroups
<1>6. CASE GroupCrash
  BY <1>6, GroupCrashStep
<1>7. CASE (Tick /\ UNCHANGED groupVars) \/ UNCHANGED gvars
  BY <1>7, OthersKeepGroups DEF gvars
<1> QED BY <1>1, <1>2, <1>3, <1>4, <1>5, <1>6, <1>7 DEF GroupNext, GroupQuiet

\* At every point of a group call: which devices are waiting, running, finished
\* or collected, where the results that are collected come from, and which sinks
\* hold the denial of the group.
THEOREM GroupInvariant == GroupSpec => []GroupInv
BY GroupInitHolds, GroupInvStep, PTL DEF GroupSpec

\* Every variable of a group call and of the calls of its pool keeps its type.
THEOREM GroupTypeCorrect == GroupSpec => []GroupTypeOK
<1>1. GroupInv => GroupTypeOK
  BY DEF GroupInv, GroupTypes, PermissionInv, GroupTypeOK
<1> QED BY <1>1, GroupInvariant, PTL

\* With any number of devices and of threads, whatever fails: the answer of a
\* group call has the devices of the group and no other, each with what came of
\* its own call, and no thread of the pool is left behind.
THEOREM EachDeviceItsResultCorrect == GroupSpec => []EachDeviceItsResult
<1>1. ASSUME GroupInv
      PROVE  EachDeviceItsResult
  <2> SUFFICES ASSUME NEW g \in Groups, answer[g] = "results"
               PROVE  /\ Busy(g) = {} /\ waiting[g] = {}
                      /\ \A d \in Devices :
                            IF d \in Members(g) THEN results[g][d] \in DueResults(g, d)
                            ELSE results[g][d] = "none" /\ pc[<<g, d>>] = "idle"
    BY DEF EachDeviceItsResult
  <2>1. /\ GroupHeld(g) /\ gpc[g] = "done" /\ waiting[g] \subseteq Devices
        /\ \A d \in Members(g) : results[g][d] # "none"
    BY <1>1 DEF GroupInv, GroupTypes, GroupHeld, Collected
  <2>2. \A d \in Devices : IF d \in Members(g) THEN /\ pc[<<g, d>>] \in {"done", "raised"}
                                                    /\ results[g][d] \in DueResults(g, d)
                           ELSE results[g][d] = "none" /\ pc[<<g, d>>] = "idle"
    BY <2>1 DEF GroupHeld, Resolved, Collected
  <2>3. Busy(g) = {}
    BY <2>2 DEF Busy, Running, Finished
  <2>4. waiting[g] = {}
    BY <2>1, <2>2 DEF GroupHeld, Resolved
  <2> QED BY <2>2, <2>3, <2>4
<1> QED BY <1>1, GroupInvariant, PTL

\* A denied group call that was answered is in every sink, and no device of a
\* group whose denial is in some sink was called.
THEOREM DenialIsVisibleCorrect == GroupSpec => []DenialIsVisible
<1>1. GroupInv => DenialIsVisible
  BY DEF GroupInv, GroupHeld, DenialHeld, Untouched, DenialIsVisible
<1> QED BY <1>1, GroupInvariant, PTL

\* The calls of a pool keep the promise of CommandGate too, beside tool calls
\* and other group calls: what a group adds to run_show_command, its denial
\* record and its saves, sends nothing and records no permission.
LEMMA GroupGateStep == GroupInv /\ [GroupNext]_gvars => [Gate!Next]_(Gate!gateVars)
<1> SUFFICES ASSUME GroupInv, [GroupNext]_gvars
             PROVE  Gate!Next \/ UNCHANGED Gate!gateVars
  OBVIOUS
<1>1. PermissionInv /\ pc \in [Calls -> Points] /\ AuditTypeOK
  BY DEF GroupInv, PermissionInv, TypeOK
<1>2. ASSUME UNCHANGED <<pc, sends>>,
             \A c \in Calls : \A t \in Sinks : auditLog'[t][c] = auditLog[t][c]
      PROVE  UNCHANGED Gate!gateVars
  <2>1. ASSUME NEW c \in Calls
        PROVE  Recorded(c, ALLOWED)' = Recorded(c, ALLOWED)
    <3>1. \A t \in Sinks : InLog(t, c, ALLOWED)' = InLog(t, c, ALLOWED)
      BY <1>2 DEF InLog
    <3> QED BY <3>1, ConfiguredSinksType DEF Recorded
  <2> QED BY <1>2, <2>1 DEF Gate!gateVars
<1>3. ASSUME NEW g \in Groups, WriteDenial(g) \/ DenialFails(g) \/ DenialLogged(g)
      PROVE  UNCHANGED Gate!gateVars
  <2>1. UNCHANGED <<pc, sends>> /\ DENIED \in Records
        /\ (HandlerWrites(g, DENIED) \/ HandlerRaises(g, DENIED) \/ EmitReturns(g))
    BY <1>3 DEF WriteDenial, DenialFails, DenialLogged, deviceVars, Records, Verdicts
  <2>2. \A c \in Calls : \A t \in Sinks : auditLog'[t][c] = auditLog[t][c]
    BY <1>1, <2>1, EmitStep, GroupCalls
  <2> QED BY <1>2, <2>1, <2>2
<1>4. ASSUME NEW g \in Groups, NEW d \in Devices, WorkerStarts(g, d)
      PROVE  [Gate!Next]_(Gate!gateVars)
  <2>1. PICK r : Start(<<g, d>>, r)
    BY <1>4 DEF WorkerStarts
  <2> QED BY <1>1, <2>1, GroupCalls, GateStart
<1>5. ASSUME NEW c \in Calls, CallStep(c)
      PROVE  Gate!Next
  BY <1>1, <1>5, GateCallStep
<1>6. CASE GroupCrash
  <2>1. CrashCalls
    BY <1>6 DEF GroupCrash
  <2> QED BY <1>1, <2>1, GateCrash
<1>7. CASE UNCHANGED <<auditVars, pc, deviceVars>>
  BY <1>2, <1>7 DEF auditVars, deviceVars
<1>8. ASSUME NEW c \in Calls, NEW r, Start(c, r)
      PROVE  [Gate!Next]_(Gate!gateVars)
  BY <1>1, <1>8, GateStart
<1>9. ASSUME NEW g \in Groups, GroupStep(g), ~WriteDenial(g), ~DenialFails(g), ~DenialLogged(g)
      PROVE  UNCHANGED <<auditVars, pc, deviceVars>>
  BY <1>9 DEF GroupStep, GroupLookupSucceeds, GroupLookupFails, AllSubmitted, PoolJoined,
              SubmitJob, SubmitFails, GroupReturns, CollectFailure,
              CollectReply, CollectForSave, GroupSaveFails, OpenGroupOutput, WriteGroupOutput,
              vars, resultVars
<1>10. ASSUME NEW g \in Groups, NEW r \in GroupRequests, SendToGroup(g, r)
       PROVE  UNCHANGED <<auditVars, pc, deviceVars>>
  BY <1>10 DEF SendToGroup, vars
<1>11. ASSUME Tick \/ UNCHANGED gvars
       PROVE  UNCHANGED <<auditVars, pc, deviceVars>>
  BY <1>11 DEF Tick, gvars, vars
<1> QED BY <1>3, <1>4, <1>5, <1>6, <1>7, <1>8, <1>9, <1>10, <1>11
        DEF GroupNext, GroupQuiet, SendShowCommand, ToolCalls

\* The calls of a pool, next to those of the tool, implement CommandGate: each
\* command is sent at most once to each device, while its call is not over, and
\* after its permission is recorded.
THEOREM GroupGateRefinement == GroupSpec => GateSpec
<1>1. GroupInit => Gate!Init
  BY GateInit DEF GroupInit
<1>2. GroupSpec => Gate!Init /\ [][Gate!Next]_(Gate!gateVars)
  BY <1>1, GroupGateStep, GroupInvariant, PTL DEF GroupSpec
<1> QED BY <1>2 DEF GateSpec, Gate!Spec

-----------------------------------------------------------------------------
(* The results and the audit trails. *)

\* Only a permitted command comes to the pool, and to the calls of the pool.
Decided(g) ==
    /\ gpc[g] \in {"inventory"} \cup Pooling => grequest[g].command \in Permitted
    /\ \A d \in Devices : pc[<<g, d>>] # "idle" =>
          Allowed(<<g, d>>) /\ grequest[g].command \in Permitted

AuditedInv == GroupInv /\ TrailInv /\ \A g \in Groups : Decided(g)

\* A step that starts, moves and answers no call leaves the trails.
LEMMA GroupKeepsTrails ==
    ASSUME TrailInv, PermissionInv', UNCHANGED <<pc, request, outcome, reply>>,
           \A c \in Calls : /\ emitted'[c] = emitted[c]
                            /\ \A t \in Sinks : auditLog'[t][c] = auditLog[t][c]
    PROVE  TrailInv'
BY OthersKeepTrail DEF TrailInv

LEMMA AuditedStep ==
    ASSUME AuditedInv, GroupInv', [GroupNext]_gvars
    PROVE  AuditedInv'
<1>1. /\ GroupInv /\ TrailInv /\ PermissionInv /\ PermissionInv' /\ AuditTypeOK
      /\ GroupTypes /\ \A g \in Groups : GroupHeld(g) /\ Decided(g)
      /\ pc \in [Calls -> Points] /\ request \in [Calls -> Requests \cup {NoRequest}]
  BY DEF AuditedInv, GroupInv, PermissionInv, TypeOK
<1> SUFFICES TrailInv' /\ \A g \in Groups : Decided(g)'
  BY DEF AuditedInv
<1>2. ASSUME UNCHANGED <<pc, request, outcome, reply, gpc, grequest>>,
             \A c \in Calls : /\ emitted'[c] = emitted[c]
                              /\ \A t \in Sinks : auditLog'[t][c] = auditLog[t][c]
      PROVE  TrailInv' /\ \A g \in Groups : Decided(g)'
  BY <1>1, <1>2, GroupKeepsTrails DEF Decided, Allowed
<1>3. ASSUME NEW g \in Groups,
             (\E r \in GroupRequests : SendToGroup(g, r)) \/ GroupStep(g)
      PROVE  TrailInv' /\ \A h \in Groups : Decided(h)'
  <2>1. /\ UNCHANGED <<pc, request, outcome, reply>>
        /\ \A h \in Groups : h # g => gpc'[h] = gpc[h] /\ grequest'[h] = grequest[h]
    BY <1>1, <1>3 DEF SendToGroup, GroupStep, WriteDenial, DenialFails, DenialLogged,
                      GroupLookupSucceeds, GroupLookupFails, AllSubmitted, PoolJoined,
                      SubmitJob, SubmitFails, GroupReturns, CollectFailure,
                      CollectReply, CollectForSave, GroupSaveFails, OpenGroupOutput,
                      WriteGroupOutput, GroupGoto, vars, resultVars, groupVars, GroupTypes
  <2>2. \A c \in Calls : /\ emitted'[c] = emitted[c]
                         /\ \A t \in Sinks : auditLog'[t][c] = auditLog[t][c]
    <3>1. CASE WriteDenial(g) \/ DenialFails(g) \/ DenialLogged(g)
      <4>1. /\ HandlerWrites(g, DENIED) \/ HandlerRaises(g, DENIED) \/ EmitReturns(g)
            /\ DENIED \in Records
        BY <3>1 DEF WriteDenial, DenialFails, DenialLogged, Records, Verdicts
      <4> QED BY <1>1, <4>1, EmitStep, GroupCalls
    <3>2. CASE ~(WriteDenial(g) \/ DenialFails(g) \/ DenialLogged(g))
      <4>1. UNCHANGED auditVars
        BY <1>3, <3>2 DEF SendToGroup, GroupStep, GroupLookupSucceeds, GroupLookupFails,
                          AllSubmitted, PoolJoined, SubmitJob, SubmitFails,
                          GroupReturns, CollectFailure, CollectReply, CollectForSave,
                          GroupSaveFails, OpenGroupOutput, WriteGroupOutput, vars
      <4> QED BY <4>1 DEF auditVars
    <3> QED BY <3>1, <3>2
  <2>3. Decided(g)'
    <3>1. /\ gpc'[g] \in {"inventory"} \cup Pooling => grequest'[g].command \in Permitted
      <4>1. CASE \E r \in GroupRequests : SendToGroup(g, r)
        BY <1>1, <4>1 DEF SendToGroup, GroupGoto, GroupTypes, Pooling
      <4>2. CASE GroupStep(g)
        <5>1. grequest' = grequest /\ (gpc'[g] \in {"inventory"} \cup Pooling =>
                                       gpc[g] \in {"inventory"} \cup Pooling)
          BY <1>1, <4>2 DEF GroupStep, WriteDenial, DenialFails, DenialLogged,
                            GroupLookupSucceeds, GroupLookupFails, AllSubmitted, PoolJoined,
                            SubmitJob, SubmitFails, GroupReturns,
                            CollectFailure, Yields, CollectReply, CollectForSave,
                            GroupSaveFails, OpenGroupOutput, WriteGroupOutput, GroupGoto,
                            groupVars, GroupTypes, Pooling
        <5> QED BY <1>1, <5>1 DEF Decided
      <4> QED BY <1>3, <4>1, <4>2
    <3>2. grequest'[g] = grequest[g] \/ \A d \in Devices : pc[<<g, d>>] = "idle"
      <4>1. CASE \E r \in GroupRequests : SendToGroup(g, r)
        BY <1>1, <4>1 DEF SendToGroup, GroupHeld, DenialHeld, Untouched
      <4>2. CASE GroupStep(g)
        BY <4>2 DEF GroupStep, WriteDenial, DenialFails, DenialLogged, GroupLookupSucceeds,
                    GroupLookupFails, AllSubmitted, PoolJoined, SubmitJob, SubmitFails,
                    GroupReturns, CollectFailure, CollectReply, CollectForSave, GroupSaveFails,
                    OpenGroupOutput, WriteGroupOutput, groupVars
      <4> QED BY <1>3, <4>1, <4>2
    <3> QED BY <1>1, <2>1, <3>1, <3>2 DEF Decided, Allowed
  <2>4. \A h \in Groups : h # g => Decided(h)'
    BY <1>1, <2>1 DEF Decided, Allowed
  <2> QED BY <1>1, <2>1, <2>2, <2>3, <2>4, GroupKeepsTrails
<1>4. ASSUME NEW g \in Groups, NEW d \in Devices, WorkerStarts(g, d)
      PROVE  TrailInv' /\ \A h \in Groups : Decided(h)'
  <2>1. grequest[g].command \in Permitted /\ grequest[g] \in GroupRequests
    BY <1>1, <1>4 DEF WorkerStarts, GroupHeld, Resolved, Pooling, Decided
  <2>2. PICK r \in Requests : Start(<<g, d>>, r) /\ r.command \in Permitted
    <3> DEFINE args == [device |-> d, command |-> grequest[g].command, save_output |-> FALSE,
                        auto_save |-> ~grequest[g].save_output, preloaded |-> TRUE]
    <3>1. args \in Requests /\ args.command \in Permitted
      BY <2>1 DEF Requests, GroupRequests
    <3> QED BY <1>4, <3>1 DEF WorkerStarts
  <2>3. <<g, d>> \in Calls /\ UNCHANGED <<gpc, grequest>>
    BY <1>4, GroupCalls DEF WorkerStarts
  <2>4. /\ \A c \in Calls : c # <<g, d>> => pc'[c] = pc[c] /\ request'[c] = request[c]
        /\ request'[<<g, d>>] = r
    BY <1>1, <2>2, <2>3 DEF Start, Goto
  <2>5. \A h \in Groups : Decided(h)'
    BY <1>1, <2>1, <2>2, <2>3, <2>4, GroupCalls DEF Decided, Allowed
  <2> QED BY <1>1, <2>2, <2>3, <2>5, TrailStart
<1>5. ASSUME NEW c \in ToolCalls, NEW d \in Devices, NEW m \in Commands, NEW save \in BOOLEAN,
             SendShowCommand(c, d, m, save), UNCHANGED groupVars
      PROVE  TrailInv' /\ \A h \in Groups : Decided(h)'
  <2>1. PICK r \in Requests : Start(c, r)
    BY <1>5 DEF SendShowCommand, Requests
  <2>2. c \in Calls /\ \A k \in Groups \X Devices : pc'[k] = pc[k] /\ request'[k] = request[k]
    BY <1>1, <2>1, GroupCalls DEF ToolCalls, Start, Goto
  <2>3. \A h \in Groups : Decided(h)'
    BY <1>1, <1>5, <2>2 DEF Decided, Allowed, groupVars
  <2> QED BY <1>1, <2>1, <2>2, <2>3, TrailStart
<1>6. ASSUME NEW c \in Calls, CallStep(c), UNCHANGED groupVars
      PROVE  TrailInv' /\ \A h \in Groups : Decided(h)'
  <2>1. /\ request' = request /\ Running(c)
        /\ \A k \in Calls : k # c => pc'[k] = pc[k]
    BY <1>1, <1>6, CallStepIsLocal
  <2>2. \A h \in Groups : Decided(h)'
    BY <1>1, <1>6, <2>1, GroupCalls DEF Decided, Allowed, Running, groupVars
  <2> QED BY <1>1, <1>6, <2>2, TrailCallsStep
<1>7. CASE GroupCrash
  <2>1. /\ CrashCalls /\ UNCHANGED <<request, grequest>>
        /\ pc' = [c \in Calls |-> IF Running(c) THEN "crashed" ELSE pc[c]]
        /\ gpc' = [g \in Groups |-> IF GroupRunning(g) THEN "crashed" ELSE gpc[g]]
    BY <1>7 DEF GroupCrash, CrashCalls
  <2>2. \A h \in Groups : Decided(h)'
    BY <1>1, <2>1, GroupCalls DEF Decided, Allowed, Running, GroupRunning, Pooling
  <2> QED BY <1>1, <2>1, <2>2, TrailCrash
<1>8. CASE (Tick /\ UNCHANGED groupVars) \/ UNCHANGED gvars
  BY <1>2, <1>8 DEF Tick, gvars, vars, auditVars, resultVars, groupVars
<1> QED BY <1>3, <1>4, <1>5, <1>6, <1>7, <1>8 DEF GroupNext, GroupQuiet

LEMMA AuditedInvariant == GroupSpec => []AuditedInv
<1>1. ASSUME GroupInit
      PROVE  AuditedInv
  <2>1. \A g \in Groups : gpc[g] = "idle" /\ \A d \in Devices : pc[<<g, d>>] = "idle"
    BY <1>1, GroupCalls DEF GroupInit, Init
  <2> QED BY <1>1, <2>1, GroupInitHolds, TrailInit DEF AuditedInv, Decided, GroupInit, Pooling
<1>2. AuditedInv /\ [GroupNext]_gvars => AuditedInv'
  BY AuditedStep, GroupInvStep DEF AuditedInv
<1> QED BY <1>1, <1>2, PTL DEF GroupSpec

\* A permitted call that answered has its permission first in every sink, and
\* its answer last.
LEMMA AnswersAreRecorded ==
    ASSUME AuditedInv, NEW c \in Calls, pc[c] = "done", Allowed(c), NEW s \in ConfiguredSinks
    PROVE  /\ InLog(s, c, ALLOWED)
           /\ \E o \in Outcomes : InLog(s, c, o)
           /\ reply[c] \in {"output", "saved"} => InLog(s, c, "SUCCESS")
<1> DEFINE trail == auditLog[s][c]
<1>1. /\ trail \in Seq(Records) /\ trail # <<>> /\ Trail(s, c) = trail
      /\ reply[c] \in ReplyKinds(trail[Len(trail)])
  <2>1. s \in Sinks /\ TrailHeld(s, c)
    BY ConfiguredSinksType DEF AuditedInv, TrailInv, CallTrailHeld
  <2>2. trail \in Seq(Records)
    BY <2>1, GroupCalls DEF AuditedInv, TrailInv, PermissionInv, TypeOK, AuditTypeOK
  <2> QED BY <2>1, <2>2 DEF TrailHeld, Trail
<1>2. /\ Len(trail) >= 1 => trail[1] = Verdict(c)
      /\ Len(trail) >= 2 => trail[2] \in Outcomes
  <2>1. OutcomeTrail /\ s \in Sinks
    BY OutcomeTrailHolds, ConfiguredSinksType DEF AuditedInv
  <2> QED BY <1>1, <2>1 DEF OutcomeTrail
<1>3. Verdict(c) = ALLOWED
  BY DEF Verdict
<1>4. Len(trail) \in Nat /\ Len(trail) >= 1
  BY <1>1
<1>5. Len(trail) >= 2
  <2>1. ReplyKinds(ALLOWED) = {}
    BY DEF ReplyKinds, ALLOWED, DENIED
  <2> QED BY <1>1, <1>2, <1>3, <1>4, <2>1
<1>6. reply[c] \in {"output", "saved"} => trail[Len(trail)] = "SUCCESS"
  BY <1>1 DEF ReplyKinds, ErrorReply
<1> QED BY <1>2, <1>3, <1>4, <1>5, <1>6 DEF InLog

\* A result other than an error has the audit trail of its call behind it, in
\* every configured sink.
THEOREM ResultsAreAuditedCorrect == GroupSpec => []ResultsAreAudited
<1>1. ASSUME AuditedInv
      PROVE  ResultsAreAudited
  <2> SUFFICES ASSUME NEW g \in Groups, NEW d \in Devices, results[g][d] \in {"output", "saved"}
               PROVE  /\ Recorded(<<g, d>>, ALLOWED)
                      /\ ~grequest[g].save_output => Recorded(<<g, d>>, "SUCCESS")
                      /\ grequest[g].save_output =>
                            \A s \in ConfiguredSinks : \E o \in Outcomes : InLog(s, <<g, d>>, o)
    BY DEF ResultsAreAudited
  <2> DEFINE c == <<g, d>>
  <2>1. /\ c \in Calls /\ pc[c] = "done" /\ Allowed(c)
        /\ ~grequest[g].save_output => reply[c] \in {"output", "saved"}
    <3>1. c \in Calls /\ Collected(g) /\ Decided(g)
      BY <1>1, GroupCalls DEF AuditedInv, GroupInv, GroupHeld
    <3> QED BY <3>1 DEF Collected, Decided, DueResults
  <2> QED BY <1>1, <2>1, AnswersAreRecorded DEF Recorded
<1> QED BY <1>1, AuditedInvariant, PTL

\* With any number of devices and of threads, and whichever submit fails: a group
\* call that raises waited for every job that was in its pool, collected nothing,
\* and has in the log what it did to a device.
THEOREM RaisedLeavesNothingCorrect == GroupSpec => []RaisedLeavesNothing
<1>1. ASSUME AuditedInv
      PROVE  RaisedLeavesNothing
  <2> SUFFICES ASSUME NEW g \in Groups, gpc[g] = "raised"
               PROVE  /\ waiting[g] = {} /\ Busy(g) = {} /\ saving[g] = {}
                      /\ \A d \in Devices :
                            /\ results[g][d] = "none"
                            /\ pc[<<g, d>>] # "idle" =>
                                  /\ d \in Members(g) /\ grequest[g].command \in Permitted
                                  /\ pc[<<g, d>>] = "done" => Recorded(<<g, d>>, ALLOWED)
    BY DEF RaisedLeavesNothing
  <2>1. /\ Resolved(g) /\ Collected(g) /\ Decided(g) /\ saving[g] \subseteq Devices
        /\ \A d \in Devices : <<g, d>> \in Calls
    BY <1>1, GroupCalls DEF AuditedInv, GroupInv, GroupTypes, GroupHeld
  <2>2. waiting[g] = {} /\ Busy(g) = {} /\ saving[g] = {}
    BY <2>1 DEF Resolved, Collected, BeforeCollection
  <2>3. ASSUME NEW d \in Devices, pc[<<g, d>>] # "idle"
        PROVE  d \in Members(g) /\ grequest[g].command \in Permitted /\ Allowed(<<g, d>>)
    BY <2>1, <2>3 DEF Resolved, Decided
  <2>4. ASSUME NEW d \in Devices, pc[<<g, d>>] = "done"
        PROVE  Recorded(<<g, d>>, ALLOWED)
    BY <1>1, <2>1, <2>3, <2>4, AnswersAreRecorded DEF Recorded
  <2>5. \A d \in Devices : results[g][d] = "none"
    BY <2>1 DEF Collected, BeforeCollection
  <2> QED BY <2>2, <2>3, <2>4, <2>5
<1> QED BY <1>1, AuditedInvariant, PTL

-----------------------------------------------------------------------------
(* The files. *)

\* The file of a call is one of its device and command, from the moment the
\* call, or the calling thread of its group, opens it; an answer that names it
\* comes after the write.
FileHeld(c) ==
    /\ pc[c] \in {"idle", "log_attempt", "lookup", "connect", "send", "save"} => savedAs[c] = <<>>
    /\ pc[c] = "write" => savedAs[c] # <<>> /\ Blank(c)
    /\ pc[c] \in {"transcript", "log_success"} => Safe(c)
    /\ reply[c] = "saved" => savedAs[c] # <<>> /\ Safe(c)
    /\ savedAs[c] # <<>> => savedAs[c] \in DOMAIN outputs /\ BelongsTo(savedAs[c], c)

\* The call of a pool asks for its device, and saves only if the group does not.
Job(g, d) == [device |-> d, command |-> grequest[g].command, save_output |-> FALSE,
              auto_save |-> ~grequest[g].save_output, preloaded |-> TRUE]

\* What the calling thread saves, it saves once, and after the call is over.
SaveHeld(g, d) ==
    /\ pc[<<g, d>>] \notin {"save", "write"} /\ reply[<<g, d>>] # "saved"
    /\ Running(<<g, d>>) => savedAs[<<g, d>>] = <<>>
    /\ gpc[g] \in Pooling /\ results[g][d] = "none" =>
          savedAs[<<g, d>>] = <<>> \/ (gpc[g] = "write" /\ d \in saving[g])
    /\ gpc[g] \in {"save", "write"} /\ d \in saving[g] => results[g][d] = "none"
    /\ gpc[g] = "write" /\ d \in saving[g] => savedAs[<<g, d>>] # <<>> /\ Blank(<<g, d>>)
    /\ results[g][d] = "saved" => savedAs[<<g, d>>] # <<>> /\ Safe(<<g, d>>)

PairHeld(g, d) ==
    /\ pc[<<g, d>>] # "idle" => request[<<g, d>>] = Job(g, d)
    /\ gpc[g] # "idle" /\ grequest[g].save_output => SaveHeld(g, d)

ContentsHeld ==
    \A name \in DOMAIN outputs : \A c \in outputs[name] : pc[c] # "idle" /\ BelongsTo(name, c)

GroupFilesInv ==
    /\ GroupInv /\ ContentsHeld
    /\ \A c \in Calls : FileHeld(c)
    /\ \A g \in Groups, d \in Devices : PairHeld(g, d)

\* What a file holds stays attributed when calls go on, and when one of them
\* truncates or writes the file it chose.
LEMMA ContentsKept ==
    ASSUME ContentsHeld, \A name \in DOMAIN outputs : outputs[name] \subseteq Calls,
           \A c \in Calls : pc[c] # "idle" => pc'[c] # "idle" /\ request'[c] = request[c],
           \/ UNCHANGED outputs
           \/ \E name : outputs' = WithContent(name, {})
           \/ \E c \in Calls : /\ pc[c] # "idle" /\ BelongsTo(savedAs[c], c)
                              /\ savedAs[c] \in DOMAIN outputs /\ WriteFile(savedAs[c], c)
    PROVE  ContentsHeld'
<1>1. \A c \in Calls : \A n :
         pc[c] # "idle" /\ BelongsTo(n, c) => pc'[c] # "idle" /\ BelongsTo(n, c)'
  BY DEF BelongsTo
<1>2. CASE UNCHANGED outputs
  BY <1>1, <1>2 DEF ContentsHeld
<1>3. ASSUME NEW name, outputs' = WithContent(name, {})
      PROVE  ContentsHeld'
  BY <1>1, <1>3 DEF ContentsHeld, WithContent
<1>4. ASSUME NEW c \in Calls, pc[c] # "idle", BelongsTo(savedAs[c], c),
             savedAs[c] \in DOMAIN outputs, WriteFile(savedAs[c], c)
      PROVE  ContentsHeld'
  <2>1. PICK kept \in SUBSET outputs[savedAs[c]] :
             outputs' = WithContent(savedAs[c], kept \cup {c})
    BY <1>4 DEF WriteFile
  <2>2. /\ DOMAIN outputs' = DOMAIN outputs
        /\ \A n \in DOMAIN outputs :
              outputs'[n] = IF n = savedAs[c] THEN kept \cup {c} ELSE outputs[n]
    BY <1>4, <2>1 DEF WithContent
  <2> QED BY <1>1, <1>4, <2>2 DEF ContentsHeld
<1> QED BY <1>2, <1>3, <1>4

\* A call that keeps its place, while others save.
LEMMA OthersKeepFile ==
    ASSUME NEW c \in Calls, FileHeld(c), Linked, OthersSave(c), pc'[c] \in {pc[c], "crashed"},
           reply'[c] = reply[c], savedAs[c] # <<>> => request'[c] = request[c]
    PROVE  FileHeld(c)'
<1>1. (Safe(c) => Safe(c)') /\ (pc[c] = "write" => Blank(c)')
  BY OthersKeepSafe DEF FileHeld, Linked
<1>2. savedAs[c] # <<>> => savedAs[c] \in DOMAIN outputs' /\ BelongsTo(savedAs[c], c)'
  BY DEF FileHeld, BelongsTo, OthersSave, WithContent
<1> QED BY <1>1, <1>2 DEF FileHeld, OthersSave

\* The steps of a call.
LEMMA FileCallStep ==
    ASSUME PermissionInv, NEW c \in Calls, FileHeld(c), CallStep(c)
    PROVE  /\ FileHeld(c)'
           /\ \A d \in Calls : d # c => OthersSave(d)
           /\ ContentsHeld => ContentsHeld'
<1>1. /\ pc \in [Calls -> Points] /\ reply \in [Calls -> Replies] /\ StoreTypeOK /\ Linked
      /\ savedAs \in [Calls -> FileNames \cup {<<>>}] /\ request' = request
  BY CallStepIsLocal DEF PermissionInv, TypeOK
<1>2. \A d \in Calls : d # c => savedAs'[d] = savedAs[d] /\ pc'[d] = pc[d]
  BY CallStepIsLocal
<1>3. /\ pc[c] # "idle"
      /\ \A d \in Calls : pc[d] # "idle" => pc'[d] # "idle" /\ request'[d] = request[d]
  BY <1>1, <1>2, CallStepIsLocal DEF Running
<1>4. ASSUME savedAs[c] # <<>> => savedAs'[c] = savedAs[c],
             \/ UNCHANGED outputs
             \/ \E content : outputs' = WithContent(savedAs'[c], content)
      PROVE  \A d \in Calls : d # c => OthersSave(d)
  BY <1>2, <1>4 DEF OthersSave
<1>5. \A name \in DOMAIN outputs : outputs[name] \subseteq Calls
  BY <1>1 DEF StoreTypeOK
<1>6. \A n : BelongsTo(n, c)' = BelongsTo(n, c)
  BY <1>1 DEF BelongsTo
<1>7. CASE OpenOutput(c)
  <2> DEFINE name == FileNameOf(request[c].device, request[c].command)
  <2>1. /\ pc[c] = "save" /\ pc'[c] = "write" /\ savedAs[c] = <<>> /\ savedAs'[c] = name
        /\ reply'[c] = reply[c] /\ outputs' = WithContent(name, {})
    BY <1>1, <1>7 DEF OpenOutput, Goto, TruncateFile, FileHeld
  <2>2. /\ name # <<>> /\ name \in DOMAIN outputs' /\ outputs'[name] = {} /\ BelongsTo(name, c)
        /\ reply[c] # "saved"
    BY <2>1 DEF FileNameOf, WithContent, BelongsTo, FileHeld
  <2>3. FileHeld(c)'
    BY <1>6, <2>1, <2>2 DEF FileHeld, Blank
  <2> QED BY <1>3, <1>4, <1>5, <2>1, <2>3, ContentsKept
<1>8. CASE WriteOutput(c)
  <2>1. /\ pc[c] = "write" /\ pc'[c] = AfterSave /\ UNCHANGED <<savedAs, reply>>
        /\ savedAs[c] # <<>> /\ savedAs[c] \in DOMAIN outputs /\ Blank(c)
        /\ BelongsTo(savedAs[c], c) /\ WriteFile(savedAs[c], c)
    BY <1>1, <1>8 DEF WriteOutput, Goto, resultVars, FileHeld, Linked
  <2>2. /\ Safe(c)' /\ savedAs[c] \in DOMAIN outputs'
        /\ \E content : outputs' = WithContent(savedAs[c], content)
    BY <2>1, WrittenIsSafe DEF WriteFile, WithContent
  <2>3. FileHeld(c)'
    BY <1>6, <2>1, <2>2 DEF FileHeld, AfterSave
  <2>4. ContentsHeld => ContentsHeld'
    BY <1>3, <1>5, <2>1, ContentsKept
  <2> QED BY <1>4, <2>1, <2>2, <2>3, <2>4
<1>9. ASSUME UNCHANGED <<savedAs, outputs>>,
             \/ reply'[c] # "saved"
             \/ reply[c] = "saved"
             \/ Safe(c) /\ savedAs[c] # <<>>,
             \/ pc'[c] \in {pc[c], "done", "raised", "close", "unwind", "log_inventory",
                           "log_command_error", "log_connection_error"}
             \/ pc'[c] \in {"transcript", "log_success"} /\ Safe(c)
             \/ pc'[c] \in {"lookup", "connect", "send", "save"} /\ savedAs[c] = <<>>
      PROVE  /\ FileHeld(c)'
             /\ \A d \in Calls : d # c => OthersSave(d)
             /\ ContentsHeld => ContentsHeld'
  <2>1. Safe(c)' = Safe(c) /\ Blank(c)' = Blank(c)
    BY <1>9 DEF Safe, Blank, Intact, Twins
  <2>2. FileHeld(c)'
    BY <1>6, <1>9, <2>1 DEF FileHeld
  <2> QED BY <1>3, <1>4, <1>5, <1>9, <2>2, ContentsKept
<1>10. CASE SaveTranscript(c) \/ BodyRaises(c)
  BY <1>1, <1>9, <1>10 DEF SaveTranscript, BodyRaises, Goto, storeVars, resultVars, FileHeld
<1>11. CASE \E long \in BOOLEAN : SendSucceeds(c, long)
  BY <1>1, <1>9, <1>11 DEF SendSucceeds, AfterSave, Goto, storeVars, resultVars, FileHeld, Safe
<1>12. CASE \/ LookupSucceeds(c) \/ LookupFails(c) \/ ConnectSucceeds(c)
            \/ \E e \in Raisable : ConnectFails(c, e) \/ SendFails(c, e) \/ DisconnectRaises(c, e)
            \/ Disconnect(c)
  BY <1>1, <1>9, <1>12
     DEF LookupSucceeds, LookupFails, ConnectSucceeds, ConnectFails, SendFails, DisconnectRaises,
         Disconnect, AfterDisconnect, Goto, storeVars, resultVars, FileHeld
<1>13. CASE WriteRecord(c) \/ AuditFails(c)
  <2>1. UNCHANGED <<savedAs, outputs, reply>> /\ pc'[c] \in {pc[c], "unwind", "raised"}
    BY <1>1, <1>13
       DEF WriteRecord, AuditFails, OnAuditFailure, Goto, storeVars, resultVars
  <2> QED BY <1>9, <2>1
<1>14. CASE AttemptLogged(c)
  BY <1>1, <1>9, <1>14 DEF AttemptLogged, Goto, storeVars, FileHeld
<1>15. CASE FailureLogged(c) \/ OutcomeLogged(c)
  BY <1>1, <1>9, <1>15 DEF FailureLogged, OutcomeLogged, Goto, storeVars, ErrorReply, FileHeld
<1> QED BY <1>7, <1>8, <1>10, <1>11, <1>12, <1>13, <1>14, <1>15 DEF CallStep

\* A call of a pool runs without saving when its group saves.
LEMMA PairCallStep ==
    ASSUME GroupFilesInv, NEW g \in Groups, NEW d \in Devices, CallStep(<<g, d>>),
           UNCHANGED groupVars
    PROVE  PairHeld(g, d)'
<1> DEFINE c == <<g, d>>
<1>1. /\ c \in Calls /\ PermissionInv /\ GroupHeld(g) /\ PairHeld(g, d) /\ FileHeld(c)
      /\ pc \in [Calls -> Points] /\ reply \in [Calls -> Replies]
      /\ savedAs \in [Calls -> FileNames \cup {<<>>}]
  BY GroupCalls DEF GroupFilesInv, GroupInv, PermissionInv, TypeOK
<1>2. Running(c) /\ request' = request /\ pc'[c] # "idle"
  BY <1>1, CallStepIsLocal
<1>3. gpc[g] # "idle" /\ results[g][d] = "none" /\ d \notin saving[g] /\ request[c] = Job(g, d)
  BY <1>1, <1>2 DEF Running, Finished, GroupHeld, DenialHeld, Untouched, Collected, PairHeld
<1>4. request'[c] = Job(g, d)'
  BY <1>2, <1>3 DEF Job, groupVars
<1>5. ASSUME grequest[g].save_output
      PROVE  SaveHeld(g, d)'
  <2>1. /\ savedAs[c] = <<>> /\ pc[c] \notin {"save", "write"} /\ reply[c] # "saved"
        /\ ~request[c].save_output /\ ~request[c].auto_save
    <3>1. SaveHeld(g, d)
      BY <1>1, <1>3, <1>5 DEF PairHeld
    <3>2. ~Job(g, d).save_output /\ ~Job(g, d).auto_save
      BY <1>5 DEF Job
    <3> QED BY <1>2, <1>3, <3>1, <3>2 DEF SaveHeld
  <2>2. \A long \in BOOLEAN : ~MustSave(request[c], long)
    BY <2>1 DEF MustSave
  <2>3. CASE WriteRecord(c) \/ AuditFails(c)
    <3>1. UNCHANGED <<savedAs, reply>> /\ pc'[c] \in {pc[c], "unwind", "raised"}
      BY <1>1, <2>3 DEF WriteRecord, AuditFails, OnAuditFailure, Goto, resultVars
    <3> QED BY <1>3, <2>1, <3>1 DEF SaveHeld, groupVars
  <2>4. CASE AttemptLogged(c) \/ FailureLogged(c) \/ OutcomeLogged(c)
    <3>1. savedAs' = savedAs /\ pc'[c] \in {"lookup", "done", "close"} /\ reply'[c] # "saved"
      BY <1>1, <2>1, <2>4 DEF AttemptLogged, FailureLogged, OutcomeLogged, Goto, ErrorReply
    <3> QED BY <1>3, <2>1, <3>1 DEF SaveHeld, groupVars
  <2>5. CASE OpenOutput(c) \/ WriteOutput(c)
    BY <2>1, <2>5 DEF OpenOutput, WriteOutput
  <2>6. CASE SaveTranscript(c) \/ BodyRaises(c) \/ \E long \in BOOLEAN : SendSucceeds(c, long)
    <3>1. /\ UNCHANGED <<savedAs, reply>>
          /\ pc'[c] \in {"log_success", "unwind", "transcript"}
      BY <1>1, <2>2, <2>6 DEF SaveTranscript, BodyRaises, SendSucceeds, AfterSave, Goto, resultVars
    <3> QED BY <1>3, <2>1, <3>1 DEF SaveHeld, groupVars
  <2>7. CASE \/ LookupSucceeds(c) \/ LookupFails(c) \/ ConnectSucceeds(c)
             \/ \E e \in Raisable : ConnectFails(c, e) \/ SendFails(c, e) \/ DisconnectRaises(c, e)
             \/ Disconnect(c)
    <3>1. UNCHANGED <<savedAs, reply>> /\ pc'[c] \notin {"save", "write"}
      BY <1>1, <2>7
         DEF LookupSucceeds, LookupFails, ConnectSucceeds, ConnectFails, SendFails,
             DisconnectRaises, Disconnect, AfterDisconnect, Goto, resultVars
    <3> QED BY <1>3, <2>1, <3>1 DEF SaveHeld, groupVars
  <2> QED BY <2>3, <2>4, <2>5, <2>6, <2>7 DEF CallStep
<1> QED BY <1>3, <1>4, <1>5 DEF PairHeld, groupVars

\* A pair whose call and whose group keep their places, while others save.
LEMMA OthersKeepPair ==
    ASSUME NEW g \in Groups, NEW d \in Devices, PairHeld(g, d), GroupHeld(g),
           OthersSave(<<g, d>>),
           gpc'[g] = gpc[g] \/ (gpc'[g] = "crashed" /\ gpc[g] # "idle"),
           grequest'[g] = grequest[g], saving'[g] = saving[g], results'[g] = results[g],
           \/ pc'[<<g, d>>] = pc[<<g, d>>]
           \/ pc'[<<g, d>>] = "crashed" /\ Running(<<g, d>>),
           request'[<<g, d>>] = request[<<g, d>>], reply'[<<g, d>>] = reply[<<g, d>>]
    PROVE  PairHeld(g, d)'
<1> DEFINE c == <<g, d>>
<1>1. c \in Calls /\ savedAs'[c] = savedAs[c] /\ (Safe(c) => Safe(c)')
  BY GroupCalls, OthersKeepSafe DEF OthersSave
<1>2. pc'[c] # "idle" => request'[c] = Job(g, d)'
  BY DEF PairHeld, Job, Running
<1>3. ASSUME gpc[g] # "idle", grequest[g].save_output
      PROVE  SaveHeld(g, d)'
  <2>1. SaveHeld(g, d)
    BY <1>3 DEF PairHeld
  <2>2. gpc[g] = "write" /\ d \in saving[g] => savedAs[c] \in DOMAIN outputs
    BY DEF GroupHeld, Collected
  <2>3. gpc'[g] = "write" /\ d \in saving[g] => savedAs'[c] # <<>> /\ Blank(c)'
    BY <1>1, <2>1, <2>2, OthersKeepSafe DEF SaveHeld
  <2>4. Running(c)' => Running(c)
    BY DEF Running, Finished
  <2> QED BY <1>1, <2>1, <2>3, <2>4 DEF SaveHeld, Pooling
<1> QED BY <1>2, <1>3 DEF PairHeld

\* Steps that neither start nor end a call nor touch a file.
LEMMA FilesRest ==
    ASSUME GroupFilesInv, GroupInv', NEW g \in Groups,
           UNCHANGED <<pc, request, reply, savedAs, outputs>>,
           \A h \in Groups : h # g =>
              /\ gpc'[h] = gpc[h] /\ grequest'[h] = grequest[h]
              /\ saving'[h] = saving[h] /\ results'[h] = results[h],
           \A d \in Devices : PairHeld(g, d)'
    PROVE  GroupFilesInv'
<1>1. \A c \in Calls : OthersSave(c)
  BY DEF OthersSave
<1>2. \A c \in Calls : FileHeld(c)'
  BY <1>1, OthersKeepFile DEF GroupFilesInv, GroupInv, PermissionInv
<1>3. ContentsHeld'
  BY DEF GroupFilesInv, ContentsHeld, BelongsTo
<1>4. ASSUME NEW h \in Groups, h # g, NEW d \in Devices
      PROVE  PairHeld(h, d)'
  <2>1. PairHeld(h, d) /\ GroupHeld(h) /\ <<h, d>> \in Calls
    BY GroupCalls DEF GroupFilesInv, GroupInv
  <2> QED BY <1>1, <1>4, <2>1, OthersKeepPair
<1> QED BY <1>2, <1>3, <1>4 DEF GroupFilesInv

\* The steps of a calling thread that touch no file.
LEMMA ThreadKeepsFiles ==
    ASSUME GroupFilesInv, GroupInv', NEW g \in Groups,
           \/ \E r \in GroupRequests : SendToGroup(g, r)
           \/ WriteDenial(g) \/ DenialFails(g) \/ DenialLogged(g)
           \/ GroupLookupSucceeds(g) \/ GroupLookupFails(g) \/ GroupReturns(g)
           \/ AllSubmitted(g) \/ PoolJoined(g)
           \/ \E d \in Devices : \/ SubmitJob(g, d) \/ SubmitFails(g, d)
                                 \/ CollectFailure(g, d) \/ CollectReply(g, d)
                                 \/ CollectForSave(g, d) \/ GroupSaveFails(g, d)
    PROVE  GroupFilesInv'
<1>1. /\ GroupTypes /\ GroupHeld(g) /\ \A d \in Devices : FileHeld(<<g, d>>) /\ PairHeld(g, d)
  BY GroupCalls DEF GroupFilesInv, GroupInv
<1>2. UNCHANGED <<pc, request, reply, savedAs, outputs>>
  BY DEF SendToGroup, WriteDenial, DenialFails, DenialLogged, GroupLookupSucceeds,
         GroupLookupFails, GroupReturns, AllSubmitted, PoolJoined, SubmitJob, SubmitFails,
         CollectFailure, CollectReply, CollectForSave, GroupSaveFails, vars, storeVars, resultVars
<1>3. \A h \in Groups : h # g =>
         /\ gpc'[h] = gpc[h] /\ grequest'[h] = grequest[h]
         /\ saving'[h] = saving[h] /\ results'[h] = results[h]
  BY <1>1 DEF SendToGroup, WriteDenial, DenialFails, DenialLogged, GroupLookupSucceeds,
              GroupLookupFails, GroupReturns, AllSubmitted, PoolJoined, SubmitJob, SubmitFails,
              CollectFailure, CollectReply, CollectForSave, GroupSaveFails, SetResult, GroupGoto, groupVars, GroupTypes
<1>4. ASSUME NEW k \in Devices
      PROVE  /\ Safe(<<g, k>>)' = Safe(<<g, k>>) /\ Blank(<<g, k>>)' = Blank(<<g, k>>)
             /\ Running(<<g, k>>)' = Running(<<g, k>>)
  BY <1>2 DEF Safe, Blank, Intact, Twins, Running
<1>5. CASE \/ \E r \in GroupRequests : SendToGroup(g, r)
           \/ WriteDenial(g) \/ DenialFails(g) \/ DenialLogged(g)
           \/ GroupLookupSucceeds(g) \/ GroupLookupFails(g)
  <2>1. gpc[g] \in {"idle", "log_denied", "inventory"} /\ UNCHANGED <<saving, results>>
    BY <1>5 DEF SendToGroup, WriteDenial, DenialFails, DenialLogged, GroupLookupSucceeds,
                GroupLookupFails, groupVars
  <2>2. Untouched(g) /\ saving[g] = {}
    BY <1>1, <2>1 DEF GroupHeld, DenialHeld, Collected, GroupTypes, BeforeCollection
  <2>3. ASSUME NEW d \in Devices
        PROVE  PairHeld(g, d)'
    <3>1. /\ savedAs[<<g, d>>] = <<>> /\ pc[<<g, d>>] = "idle" /\ results[g][d] = "none"
          /\ reply[<<g, d>>] # "saved"
      BY <1>1, <2>2 DEF FileHeld, Untouched
    <3> QED BY <1>2, <2>1, <2>2, <3>1 DEF PairHeld, SaveHeld, Running
  <2> QED BY <1>2, <1>3, <2>3, FilesRest
<1>6. ASSUME NEW d \in Devices, gpc[g] \in Pooling, grequest'[g] = grequest[g],
             results[g][d] = "none", results'[g][d] # "saved" \/ ~grequest[g].save_output,
             \A k \in Devices \ {d} : results'[g][k] = results[g][k],
             \/ gpc[g] = "pool" /\ gpc'[g] = "pool" /\ saving'[g] = saving[g]
             \/ gpc[g] = "pool" /\ gpc'[g] = "save" /\ saving'[g] = {d} /\ results' = results
             \/ /\ saving[g] = {d} /\ saving'[g] = {}
                /\ gpc'[g] = "pool" /\ results'[g][d] # "none"
      PROVE  GroupFilesInv'
  <2>1. ASSUME NEW k \in Devices
        PROVE  PairHeld(g, k)'
    <3>1. PairHeld(g, k)
      BY <1>1
    <3>2. pc'[<<g, k>>] # "idle" => request'[<<g, k>>] = Job(g, k)'
      BY <1>2, <1>6, <3>1 DEF PairHeld, Job
    <3>3. ASSUME grequest[g].save_output
          PROVE  SaveHeld(g, k)'
      <4>1. SaveHeld(g, k)
        BY <1>6, <3>1, <3>3 DEF PairHeld, Pooling
      <4>2. CASE k = d
        BY <1>2, <1>4, <1>6, <3>3, <4>1, <4>2 DEF SaveHeld, Pooling
      <4>3. CASE k # d
        BY <1>2, <1>4, <1>6, <4>1, <4>3 DEF SaveHeld, Pooling
      <4> QED BY <4>2, <4>3
    <3> QED BY <1>6, <3>2, <3>3 DEF PairHeld
  <2> QED BY <1>2, <1>3, <2>1, FilesRest
<1>7. ASSUME NEW d \in Devices,
             CollectFailure(g, d) \/ CollectReply(g, d) \/ CollectForSave(g, d)
      PROVE  GroupFilesInv'
  BY <1>1, <1>6, <1>7 DEF CollectFailure, CollectReply, CollectForSave, Yields, SetResult,
                          GroupGoto, GroupTypes, Pooling
<1>8. ASSUME NEW d \in Devices, GroupSaveFails(g, d)
      PROVE  GroupFilesInv'
  <2>1. saving[g] = {d} /\ grequest[g].save_output /\ gpc[g] \in {"save", "write"}
    BY <1>1, <1>8 DEF GroupSaveFails, GroupHeld, Collected, GroupTypes
  <2>2. results[g][d] = "none"
    BY <1>1, <2>1 DEF PairHeld, SaveHeld
  <2> QED BY <1>1, <1>6, <1>8, <2>1, <2>2
          DEF GroupSaveFails, SetResult, GroupGoto, GroupTypes, Pooling
<1>9. CASE GroupReturns(g)
  <2>1. gpc[g] = "pool" /\ gpc'[g] = "done" /\ UNCHANGED <<grequest, saving, results>>
    BY <1>1, <1>9 DEF GroupReturns, GroupGoto, GroupTypes
  <2>2. ASSUME NEW k \in Devices
        PROVE  PairHeld(g, k)'
    <3>1. PairHeld(g, k)
      BY <1>1
    <3> QED BY <1>2, <1>4, <2>1, <3>1 DEF PairHeld, SaveHeld, Job, Pooling
  <2> QED BY <1>2, <1>3, <2>2, FilesRest
<1>10. CASE \/ AllSubmitted(g) \/ PoolJoined(g)
             \/ \E d \in Devices : SubmitJob(g, d) \/ SubmitFails(g, d)
  <2>1. /\ gpc[g] \in {"submit", "drain"} /\ gpc'[g] \in {"submit", "drain", "pool", "raised"}
        /\ UNCHANGED <<grequest, saving, results>>
    BY <1>1, <1>10 DEF AllSubmitted, PoolJoined, SubmitJob, SubmitFails, GroupGoto, GroupTypes
  <2>2. ASSUME NEW k \in Devices
        PROVE  PairHeld(g, k)'
    <3>1. PairHeld(g, k)
      BY <1>1
    <3> QED BY <1>2, <1>4, <2>1, <3>1 DEF PairHeld, SaveHeld, Job, Pooling
  <2> QED BY <1>2, <1>3, <2>2, FilesRest
<1> QED BY <1>5, <1>7, <1>8, <1>9, <1>10

\* The calling thread opens the file of a device, then writes it.
LEMMA ThreadSaves ==
    ASSUME GroupFilesInv, GroupInv', NEW g \in Groups, NEW d \in Devices,
           OpenGroupOutput(g, d) \/ WriteGroupOutput(g, d)
    PROVE  GroupFilesInv'
<1> DEFINE c == <<g, d>>
<1>1. /\ GroupTypes /\ GroupHeld(g) /\ FileHeld(c) /\ PairHeld(g, d) /\ c \in Calls
      /\ StoreTypeOK /\ Linked /\ savedAs \in [Calls -> FileNames \cup {<<>>}]
      /\ ContentsHeld /\ \A name \in DOMAIN outputs : outputs[name] \subseteq Calls
  BY GroupCalls DEF GroupFilesInv, GroupInv, PermissionInv, TypeOK, StoreTypeOK
<1>2. /\ UNCHANGED <<pc, request, reply, grequest>>
      /\ d \in saving[g] /\ gpc[g] \in {"save", "write"}
      /\ \A h \in Groups : h # g =>
            /\ gpc'[h] = gpc[h] /\ saving'[h] = saving[h] /\ results'[h] = results[h]
  BY <1>1 DEF OpenGroupOutput, WriteGroupOutput, SetResult, GroupGoto, resultVars, GroupTypes
<1>3. /\ saving[g] = {d} /\ grequest[g].save_output /\ pc[c] = "done"
      /\ gpc[g] = "write" => savedAs[c] \in DOMAIN outputs
  BY <1>1, <1>2 DEF GroupHeld, Collected, GroupTypes
<1>4. SaveHeld(g, d) /\ request[c] = Job(g, d) /\ results[g][d] = "none"
  BY <1>1, <1>2, <1>3 DEF PairHeld, SaveHeld
<1>5. \A n : BelongsTo(n, c)' = BelongsTo(n, c)
  BY <1>2 DEF BelongsTo
<1>6. ASSUME \A k \in Calls : k # c => OthersSave(k), ContentsHeld',
             FileHeld(c)', \A k \in Devices : k # d => PairHeld(g, k)', PairHeld(g, d)'
      PROVE  GroupFilesInv'
  <2>1. \A k \in Calls : FileHeld(k)'
    <3>1. ASSUME NEW k \in Calls, k # c
          PROVE  FileHeld(k)'
      <4>1. FileHeld(k)
        BY DEF GroupFilesInv
      <4> QED BY <1>1, <1>2, <1>6, <3>1, <4>1, OthersKeepFile
    <3> QED BY <1>6, <3>1
  <2>2. ASSUME NEW h \in Groups, h # g, NEW k \in Devices
        PROVE  PairHeld(h, k)'
    <3>1. PairHeld(h, k) /\ GroupHeld(h) /\ <<h, k>> \in Calls /\ <<h, k>> # c
      BY <2>2, GroupCalls DEF GroupFilesInv, GroupInv
    <3> QED BY <1>2, <1>6, <2>2, <3>1, OthersKeepPair
  <2> QED BY <1>6, <2>1, <2>2 DEF GroupFilesInv
<1>7. ASSUME NEW k \in Devices, k # d, OthersSave(<<g, k>>), gpc'[g] \in {"write", "pool"},
             gpc[g] = "write" => gpc'[g] = "pool",
             results'[g][k] = results[g][k], saving'[g] \subseteq {d}
      PROVE  PairHeld(g, k)'
  <2>1. /\ PairHeld(g, k) /\ <<g, k>> \in Calls /\ k \notin saving[g] /\ k \notin saving'[g]
        /\ Safe(<<g, k>>) => Safe(<<g, k>>)'
        /\ savedAs'[<<g, k>>] = savedAs[<<g, k>>]
    BY <1>3, <1>7, GroupCalls, OthersKeepSafe DEF GroupFilesInv, OthersSave
  <2>2. SaveHeld(g, k)
    BY <1>2, <1>3, <2>1 DEF PairHeld
  <2>3. SaveHeld(g, k)'
    BY <1>2, <1>7, <2>1, <2>2 DEF SaveHeld, Pooling, Running
  <2>4. pc'[<<g, k>>] # "idle" => request'[<<g, k>>] = Job(g, k)'
    BY <1>2, <2>1 DEF PairHeld, Job
  <2> QED BY <2>3, <2>4 DEF PairHeld
<1>8. pc'[c] # "idle" => request'[c] = Job(g, d)'
  BY <1>2, <1>4 DEF Job
<1>9. CASE OpenGroupOutput(g, d)
  <2> DEFINE name == FileNameOf(d, grequest[g].command)
  <2>1. /\ gpc[g] = "save" /\ gpc'[g] = "write" /\ UNCHANGED <<saving, results>>
        /\ savedAs'[c] = name /\ \A k \in Calls : k # c => savedAs'[k] = savedAs[k]
        /\ outputs' = WithContent(name, {})
    BY <1>1, <1>9 DEF OpenGroupOutput, GroupGoto, TruncateFile, GroupTypes
  <2>2. savedAs[c] = <<>> /\ name # <<>> /\ outputs'[name] = {} /\ name \in DOMAIN outputs'
    BY <1>3, <1>4, <2>1 DEF SaveHeld, Pooling, FileNameOf, WithContent
  <2>3. BelongsTo(name, c)
    BY <1>4 DEF BelongsTo, Job, FileNameOf
  <2>4. \A k \in Calls : k # c => OthersSave(k)
    BY <1>1, <2>1, <2>2 DEF OthersSave
  <2>5. ContentsHeld'
    BY <1>1, <1>2, <2>1, ContentsKept
  <2>6. FileHeld(c)'
    BY <1>2, <1>3, <1>4, <1>5, <2>1, <2>2, <2>3 DEF FileHeld, SaveHeld
  <2>7. PairHeld(g, d)'
    BY <1>2, <1>3, <1>4, <1>8, <2>1, <2>2 DEF PairHeld, SaveHeld, Blank, Pooling, Running, Finished
  <2>8. \A k \in Devices : k # d => PairHeld(g, k)'
    BY <1>3, <1>7, <2>1, <2>4, GroupCalls
  <2> QED BY <1>6, <2>4, <2>5, <2>6, <2>7, <2>8
<1>10. CASE WriteGroupOutput(g, d)
  <2>1. /\ gpc[g] = "write" /\ gpc'[g] = "pool" /\ saving'[g] = {} /\ results'[g][d] = "saved"
        /\ \A k \in Devices : k # d => results'[g][k] = results[g][k]
        /\ UNCHANGED savedAs /\ WriteFile(savedAs[c], c)
    BY <1>1, <1>10 DEF WriteGroupOutput, SetResult, GroupGoto, resultVars, GroupTypes
  <2>2. savedAs[c] # <<>> /\ Blank(c) /\ savedAs[c] \in DOMAIN outputs /\ BelongsTo(savedAs[c], c)
    BY <1>1, <1>3, <1>4, <2>1 DEF SaveHeld, FileHeld
  <2>3. /\ Safe(c)' /\ savedAs[c] \in DOMAIN outputs'
        /\ \E content : outputs' = WithContent(savedAs[c], content)
    BY <1>1, <2>1, <2>2, WrittenIsSafe DEF WriteFile, WithContent
  <2>4. \A k \in Calls : k # c => OthersSave(k)
    BY <1>1, <2>1, <2>3 DEF OthersSave
  <2>5. ContentsHeld'
    BY <1>1, <1>2, <1>3, <2>1, <2>2, ContentsKept
  <2>6. FileHeld(c)'
    BY <1>2, <1>3, <1>4, <1>5, <2>1, <2>2, <2>3 DEF FileHeld, SaveHeld
  <2>7. PairHeld(g, d)'
    BY <1>2, <1>3, <1>4, <1>8, <2>1, <2>2, <2>3
       DEF PairHeld, SaveHeld, Pooling, Running, Finished
  <2>8. \A k \in Devices : k # d => PairHeld(g, k)'
    BY <1>3, <1>7, <2>1, <2>4, GroupCalls
  <2> QED BY <1>6, <2>4, <2>5, <2>6, <2>7, <2>8
<1> QED BY <1>9, <1>10

\* A call starts: it has no file yet.
LEMMA StartKeepsFiles ==
    ASSUME GroupFilesInv, NEW c \in Calls, NEW r, Start(c, r)
    PROVE  /\ \A k \in Calls : FileHeld(k)' /\ OthersSave(k)
           /\ ContentsHeld'
<1>1. /\ pc \in [Calls -> Points] /\ request \in [Calls -> Requests \cup {NoRequest}]
      /\ Linked /\ \A name \in DOMAIN outputs : outputs[name] \subseteq Calls
      /\ \A k \in Calls : FileHeld(k)
  BY DEF GroupFilesInv, GroupInv, PermissionInv, TypeOK, StoreTypeOK
<1>2. /\ pc[c] = "idle" /\ pc'[c] = "log_attempt" /\ UNCHANGED <<reply, savedAs, outputs>>
      /\ \A k \in Calls : k # c => pc'[k] = pc[k] /\ request'[k] = request[k]
  BY <1>1 DEF Start, Goto, storeVars, resultVars
<1>3. \A k \in Calls : OthersSave(k)
  BY <1>2 DEF OthersSave
<1>4. ContentsHeld'
  BY <1>1, <1>2, ContentsKept DEF GroupFilesInv
<1>5. FileHeld(c)'
  BY <1>1, <1>2 DEF FileHeld
<1>6. \A k \in Calls : k # c => FileHeld(k)'
  BY <1>1, <1>2, <1>3, OthersKeepFile
<1> QED BY <1>3, <1>4, <1>5, <1>6

LEMMA GroupFilesStep == GroupFilesInv /\ [GroupNext]_gvars => GroupFilesInv'
<1> SUFFICES ASSUME GroupFilesInv, [GroupNext]_gvars
             PROVE  GroupFilesInv'
  OBVIOUS
<1>1. /\ GroupInv /\ GroupInv' /\ GroupTypes /\ PermissionInv /\ Linked
      /\ pc \in [Calls -> Points] /\ ContentsHeld /\ \A k \in Calls : FileHeld(k)
      /\ \A g \in Groups, d \in Devices : /\ PairHeld(g, d) /\ GroupHeld(g)
                                          /\ <<g, d>> \in Calls
  BY GroupInvStep, GroupCalls DEF GroupFilesInv, GroupInv, PermissionInv, TypeOK
<1>2. ASSUME NEW g \in Groups, NEW r \in GroupRequests, SendToGroup(g, r)
      PROVE  GroupFilesInv'
  BY <1>1, <1>2, ThreadKeepsFiles
<1>3. ASSUME NEW g \in Groups, GroupStep(g)
      PROVE  GroupFilesInv'
  BY <1>1, <1>3, ThreadKeepsFiles, ThreadSaves DEF GroupStep
<1>4. ASSUME NEW g \in Groups, NEW d \in Devices, WorkerStarts(g, d)
      PROVE  GroupFilesInv'
  <2> DEFINE c == <<g, d>>
  <2>1. /\ Start(c, Job(g, d)) /\ c \in Calls /\ UNCHANGED <<gpc, grequest, saving, results>>
        /\ gpc[g] \in Pooling /\ d \in waiting[g]
    BY <1>1, <1>4 DEF WorkerStarts, Job
  <2>2. /\ \A k \in Calls : FileHeld(k)' /\ OthersSave(k)
        /\ ContentsHeld'
    BY <2>1, StartKeepsFiles
  <2>3. /\ pc[c] = "idle" /\ pc'[c] = "log_attempt" /\ UNCHANGED <<reply, savedAs>>
        /\ \A k \in Calls : k # c => pc'[k] = pc[k] /\ request'[k] = request[k]
        /\ request'[c] = Job(g, d)
    <3>1. request \in [Calls -> Requests \cup {NoRequest}]
      BY <1>1 DEF PermissionInv, TypeOK
    <3> QED BY <1>1, <2>1, <3>1 DEF Start, Goto, resultVars
  <2>4. results[g][d] = "none" /\ d \notin saving[g] /\ savedAs[c] = <<>> /\ reply[c] # "saved"
    BY <1>1, <2>1, <2>3 DEF GroupHeld, Collected, GroupTypes, FileHeld
  <2>5. PairHeld(g, d)'
    <3>1. request'[c] = Job(g, d)'
      BY <2>1, <2>3 DEF Job
    <3> QED BY <2>1, <2>3, <2>4, <3>1 DEF PairHeld, SaveHeld
  <2>6. ASSUME NEW h \in Groups, NEW k \in Devices, <<h, k>> # c
        PROVE  PairHeld(h, k)'
    BY <1>1, <2>1, <2>2, <2>3, <2>6, OthersKeepPair
  <2> QED BY <1>1, <2>2, <2>5, <2>6 DEF GroupFilesInv
<1>5. ASSUME NEW c \in ToolCalls, NEW d \in Devices, NEW m \in Commands, NEW save \in BOOLEAN,
             SendShowCommand(c, d, m, save), UNCHANGED groupVars
      PROVE  GroupFilesInv'
  <2>1. c \in Calls /\ \A g \in Groups, k \in Devices : <<g, k>> # c
    BY DEF ToolCalls
  <2>2. /\ \A k \in Calls : FileHeld(k)' /\ OthersSave(k)
        /\ ContentsHeld'
    BY <1>5, <2>1, StartKeepsFiles DEF SendShowCommand
  <2>3. /\ UNCHANGED reply
        /\ \A k \in Calls : k # c => pc'[k] = pc[k] /\ request'[k] = request[k]
    <3>1. request \in [Calls -> Requests \cup {NoRequest}]
      BY <1>1 DEF PermissionInv, TypeOK
    <3> QED BY <1>1, <1>5, <3>1 DEF SendShowCommand, Start, Goto, resultVars
  <2>4. ASSUME NEW h \in Groups, NEW k \in Devices
        PROVE  PairHeld(h, k)'
    BY <1>1, <1>5, <2>1, <2>2, <2>3, OthersKeepPair DEF groupVars
  <2> QED BY <1>1, <2>2, <2>4 DEF GroupFilesInv
<1>6. ASSUME NEW c \in Calls, CallStep(c), UNCHANGED groupVars
      PROVE  GroupFilesInv'
  <2>1. FileHeld(c)' /\ ContentsHeld' /\ \A k \in Calls : k # c => OthersSave(k)
    BY <1>1, <1>6, FileCallStep
  <2>2. request' = request /\ \A k \in Calls : k # c => pc'[k] = pc[k] /\ reply'[k] = reply[k]
    BY <1>1, <1>6, CallStepIsLocal
  <2>3. \A k \in Calls : FileHeld(k)'
    <3>1. ASSUME NEW k \in Calls, k # c
          PROVE  FileHeld(k)'
      BY <1>1, <2>1, <2>2, <3>1, OthersKeepFile
    <3> QED BY <2>1, <3>1
  <2>4. ASSUME NEW h \in Groups, NEW k \in Devices
        PROVE  PairHeld(h, k)'
    <3>1. CASE <<h, k>> = c
      BY <1>6, <3>1, PairCallStep
    <3>2. CASE <<h, k>> # c
      BY <1>1, <1>6, <2>1, <2>2, <3>2, OthersKeepPair DEF groupVars
    <3> QED BY <3>1, <3>2
  <2> QED BY <1>1, <2>1, <2>3, <2>4 DEF GroupFilesInv
<1>7. ASSUME GroupCrash \/ (Tick /\ UNCHANGED groupVars) \/ UNCHANGED gvars
      PROVE  GroupFilesInv'
  <2>1. /\ UNCHANGED <<request, reply, savedAs, outputs, grequest, saving, results>>
        /\ \A k \in Calls : pc'[k] = pc[k] \/ (pc'[k] = "crashed" /\ Running(k))
        /\ \A g \in Groups : gpc'[g] = gpc[g] \/ (gpc'[g] = "crashed" /\ gpc[g] # "idle")
    <3>1. CASE GroupCrash
      BY <1>1, <3>1 DEF GroupCrash, CrashCalls, GroupRunning, storeVars, resultVars
    <3>2. CASE Tick /\ UNCHANGED groupVars
      BY <3>2 DEF Tick, ClockTicks, resultVars, groupVars
    <3>3. CASE UNCHANGED gvars
      BY <3>3 DEF gvars, vars, storeVars, resultVars, groupVars
    <3> QED BY <1>7, <3>1, <3>2, <3>3
  <2>2. \A k \in Calls : OthersSave(k)
    BY <2>1 DEF OthersSave
  <2>3. \A k \in Calls : FileHeld(k)'
    BY <1>1, <2>1, <2>2, OthersKeepFile
  <2>4. ContentsHeld'
    BY <1>1, <2>1 DEF ContentsHeld, BelongsTo, PermissionInv, TypeOK, StoreTypeOK
  <2>5. ASSUME NEW h \in Groups, NEW k \in Devices
        PROVE  PairHeld(h, k)'
    BY <1>1, <2>1, <2>2, OthersKeepPair
  <2> QED BY <1>1, <2>3, <2>4, <2>5 DEF GroupFilesInv
<1> QED BY <1>2, <1>3, <1>4, <1>5, <1>6, <1>7 DEF GroupNext, GroupQuiet

LEMMA GroupFilesInvariant == GroupSpec => []GroupFilesInv
<1>1. GroupInit => GroupFilesInv
  <2> SUFFICES ASSUME GroupInit PROVE GroupFilesInv
    OBVIOUS
  <2>1. GroupInv /\ Init /\ outputs = [name \in {} |-> {}]
    BY GroupInitHolds DEF GroupInit, Init, StoreInit
  <2>2. ASSUME NEW c \in Calls
        PROVE  pc[c] = "idle" /\ FileHeld(c)
    BY <2>1 DEF Init, FileHeld
  <2>3. ASSUME NEW g \in Groups, NEW d \in Devices
        PROVE  PairHeld(g, d)
    BY <2>2, GroupCalls DEF GroupInit, PairHeld
  <2> QED BY <2>1, <2>2, <2>3 DEF GroupFilesInv, ContentsHeld
<1> QED BY <1>1, GroupFilesStep, PTL DEF GroupSpec

\* A file that a group answer names holds what its device answered, for every
\* interleaving of the pools, of the calling threads that save and of the tool
\* calls beside them, unless another call chose the same file; and no file holds
\* the bytes of another device.
THEOREM GroupFilesIntactCorrect == GroupSpec => []GroupFilesIntact
<1>1. GroupFilesInv => GroupFilesIntact
  <2> SUFFICES ASSUME GroupFilesInv PROVE GroupFilesIntact
    OBVIOUS
  <2>1. \A name \in DOMAIN outputs : \A c \in outputs[name] : BelongsTo(name, c)
    BY DEF GroupFilesInv, ContentsHeld
  <2>2. ASSUME NEW g \in Groups, NEW d \in Devices, results[g][d] = "saved"
        PROVE  /\ savedAs[<<g, d>>] \in DOMAIN outputs
               /\ \/ Intact(savedAs[<<g, d>>], <<g, d>>)
                  \/ \E c \in Calls : Twins(<<g, d>>, c)
    <3>1. GroupHeld(g) /\ PairHeld(g, d) /\ FileHeld(<<g, d>>)
      BY GroupCalls DEF GroupFilesInv, GroupInv
    <3>2. gpc[g] # "idle" /\ "saved" \in DueResults(g, d)
      BY <2>2, <3>1 DEF GroupHeld, DenialHeld, Untouched, Collected
    <3>3. savedAs[<<g, d>>] # <<>> /\ Safe(<<g, d>>)
      <4>1. CASE grequest[g].save_output
        BY <2>2, <3>1, <3>2, <4>1 DEF PairHeld, SaveHeld
      <4>2. CASE ~grequest[g].save_output
        BY <3>1, <3>2, <4>2 DEF DueResults, FileHeld
      <4> QED BY <4>1, <4>2
    <3> QED BY <3>1, <3>3 DEF Safe, FileHeld
  <2> QED BY <2>1, <2>2 DEF GroupFilesIntact
<1> QED BY <1>1, GroupFilesInvariant, PTL

-----------------------------------------------------------------------------
(* A group call takes a bounded number of steps. *)

\* How far the calling thread is from the end of run_show_command_on_group.  A
\* save returns to the pool, with one device less to collect.
GroupHeight(point) ==
    CASE point = "idle" -> 9
      [] point = "log_denied" -> 8
      [] point = "inventory" -> 5
      [] point = "submit" -> 4
      [] point = "pool" -> 3
      [] point = "save" -> 2
      [] point \in {"write", "drain"} -> 1
      [] OTHER -> 0

Uncollected(g) == {d \in Devices : results[g][d] = "none"}

\* The devices whose jobs the calling thread may still submit.
ToSubmit(g) ==
    CASE gpc[g] \in {"idle", "log_denied", "inventory"} -> Devices
      [] gpc[g] = "submit" -> Unsubmitted(g)
      [] OTHER -> {}

\* For each device a submit, and if it has no result yet, at most a collection,
\* two steps of a save and the return to the pool.
GroupStepsLeft(g) ==
    Cardinality(ToSubmit(g)) + 4 * Cardinality(Uncollected(g)) + GroupHeight(gpc[g]) - emitted[g]

GroupDescends(g) ==
    /\ GroupStepsLeft(g)' \in 0..GroupStepsLeft(g)
    /\ GroupStep(g) => GroupStepsLeft(g)' < GroupStepsLeft(g)

\* The safety part of GroupTerminates: every step of a calling thread leaves it
\* fewer to take, and so does every step of a call of its pool.
GroupsDescend == [][/\ \A g \in Groups : GroupDescends(g)
                    /\ \A c \in Calls : Descends(c)]_gvars

\* A call that returns has an answer, and so the result of its device counts.
Answered(c) == pc[c] \in {"close", "done"} => reply[c] # "none"

\* What a step of a group call is for the calls.
LEMMA GroupStepOfCalls ==
    ASSUME GroupInv, [GroupNext]_gvars
    PROVE  \/ \E c \in Calls : CallStep(c)
           \/ \E c \in Calls : \E r : Start(c, r)
           \/ CrashCalls
           \/ /\ UNCHANGED <<pc, reply>>
              /\ \A c \in Calls : emitted'[c] = emitted[c]
<1>1. AuditTypeOK
  BY DEF GroupInv, PermissionInv, TypeOK
<1>2. ASSUME NEW g \in Groups, GroupStep(g)
      PROVE  UNCHANGED <<pc, reply>> /\ \A c \in Calls : emitted'[c] = emitted[c]
  <2>1. UNCHANGED <<pc, reply>>
    BY <1>2 DEF GroupStep, WriteDenial, DenialFails, DenialLogged, GroupLookupSucceeds,
                AllSubmitted, PoolJoined, SubmitJob, SubmitFails,
                GroupLookupFails, CollectFailure, CollectReply, CollectForSave, OpenGroupOutput,
                WriteGroupOutput, GroupSaveFails, GroupReturns, vars, resultVars
  <2>2. CASE WriteDenial(g) \/ DenialFails(g) \/ DenialLogged(g)
    <3>1. /\ HandlerWrites(g, DENIED) \/ HandlerRaises(g, DENIED) \/ EmitReturns(g)
          /\ DENIED \in Records /\ g \in Ids
      BY <2>2, GroupCalls DEF WriteDenial, DenialFails, DenialLogged, Records, Verdicts
    <3>2. \A d \in Ids : d # g => emitted'[d] = emitted[d]
      BY <1>1, <3>1, EmitStep
    <3> QED BY <2>1, <3>2, GroupCalls
  <2>3. CASE ~(WriteDenial(g) \/ DenialFails(g) \/ DenialLogged(g))
    <3>1. emitted' = emitted
      BY <1>2, <2>3 DEF GroupStep, GroupLookupSucceeds, GroupLookupFails, AllSubmitted,
              PoolJoined, SubmitJob, SubmitFails, CollectFailure,
              CollectReply, CollectForSave, OpenGroupOutput, WriteGroupOutput, GroupSaveFails,
              GroupReturns, vars, auditVars
    <3> QED BY <2>1, <3>1
  <2> QED BY <2>2, <2>3
<1>3. ASSUME NEW g \in Groups, NEW d \in Devices, WorkerStarts(g, d)
      PROVE  \E c \in Calls : \E r : Start(c, r)
  BY <1>3, GroupCalls DEF WorkerStarts
<1>4. ASSUME NEW c \in ToolCalls, NEW d \in Devices, NEW m \in Commands, NEW save \in BOOLEAN,
             SendShowCommand(c, d, m, save)
      PROVE  \E k \in Calls : \E r : Start(k, r)
  BY <1>4 DEF SendShowCommand, ToolCalls
<1>5. ASSUME NEW g \in Groups, NEW r \in GroupRequests, SendToGroup(g, r)
      PROVE  UNCHANGED <<pc, reply, emitted>>
  BY <1>5 DEF SendToGroup, vars, resultVars, auditVars
<1>6. GroupCrash => CrashCalls
  BY DEF GroupCrash
<1>7. Tick \/ UNCHANGED gvars => UNCHANGED <<pc, reply, emitted>>
  BY DEF Tick, gvars, vars, resultVars, auditVars
<1> QED BY <1>2, <1>3, <1>4, <1>5, <1>6, <1>7 DEF GroupNext, GroupQuiet

LEMMA AnsweredStep ==
    ASSUME GroupInv, \A c \in Calls : Answered(c), [GroupNext]_gvars, NEW c \in Calls
    PROVE  Answered(c)'
<1>1. /\ pc \in [Calls -> Points] /\ reply \in [Calls -> Replies] /\ Answered(c)
      /\ PermissionInv
  BY DEF GroupInv, PermissionInv, TypeOK
<1>2. ASSUME NEW d \in Calls, d # c, CallStep(d)
      PROVE  Answered(c)'
  BY <1>1, <1>2, CallStepIsLocal DEF Answered
<1>3. CASE CallStep(c)
  <2>1. CASE AttemptLogged(c) \/ FailureLogged(c) \/ OutcomeLogged(c)
    BY <1>1, <2>1 DEF AttemptLogged, FailureLogged, OutcomeLogged, Goto, ErrorReply, Answered
  <2>2. CASE Disconnect(c) \/ \E e \in Raisable : DisconnectRaises(c, e)
    BY <1>1, <2>2 DEF Disconnect, DisconnectRaises, AfterDisconnect, Goto, resultVars, Answered
  <2>3. CASE WriteRecord(c)
    BY <1>1, <2>3 DEF WriteRecord, resultVars, Answered
  <2>4. CASE ~(\/ AttemptLogged(c) \/ FailureLogged(c) \/ OutcomeLogged(c) \/ Disconnect(c)
               \/ WriteRecord(c) \/ \E e \in Raisable : DisconnectRaises(c, e))
    <3>1. pc'[c] \notin {"close", "done"}
      BY <1>1, <1>3, <2>4 DEF CallStep, AuditFails, OnAuditFailure, LookupSucceeds, LookupFails,
              ConnectSucceeds, ConnectFails, SendSucceeds, SendFails, OpenOutput, WriteOutput,
              SaveTranscript, BodyRaises, AfterSave, Goto
    <3> QED BY <3>1 DEF Answered
  <2> QED BY <2>1, <2>2, <2>3, <2>4
<1>4. ASSUME NEW d \in Calls, NEW r, Start(d, r)
      PROVE  Answered(c)'
  BY <1>1, <1>4 DEF Start, Goto, resultVars, Answered
<1>5. CASE CrashCalls
  BY <1>1, <1>5 DEF CrashCalls, resultVars, Answered
<1>6. CASE UNCHANGED <<pc, reply>>
  BY <1>1, <1>6 DEF Answered
<1>7. ASSUME NEW d \in Calls, CallStep(d)
      PROVE  Answered(c)'
  BY <1>2, <1>3, <1>7
<1> QED BY <1>4, <1>5, <1>6, <1>7, GroupStepOfCalls

LEMMA GroupStepsLeftRange ==
    ASSUME IsFiniteSet(Devices), GroupInv, NEW g \in Groups
    PROVE  /\ Cardinality(Uncollected(g)) \in Nat /\ IsFiniteSet(Uncollected(g))
           /\ Cardinality(ToSubmit(g)) \in Nat /\ IsFiniteSet(ToSubmit(g))
           /\ GroupHeight(gpc[g]) \in 0..9 /\ emitted[g] \in 0..2
           /\ gpc[g] # "log_denied" => emitted[g] = 0
           /\ GroupStepsLeft(g) \in Nat
<1>1. /\ gpc[g] \in GroupPoints /\ emitted[g] \in 0..Len(Handlers)
      /\ gpc[g] # "log_denied" => emitted[g] = 0
  BY GroupCalls DEF GroupInv, GroupTypes, GroupHeld, DenialHeld, PermissionInv, TypeOK, AuditTypeOK
<1>2. emitted[g] \in 0..2
  <2> DEFINE n == Len(Handlers)
  <2>1. n \in 0..2 /\ emitted[g] \in 0..n
    BY <1>1, HandlersType
  <2> HIDE DEF n
  <2> QED BY <2>1
<1>3. IsFiniteSet(Uncollected(g)) /\ Cardinality(Uncollected(g)) \in Nat
  <2>1. Uncollected(g) \in SUBSET Devices
    BY DEF Uncollected
  <2>2. IsFiniteSet(Uncollected(g))
    BY <2>1, FS_Subset
  <2> QED BY <2>2, FS_CardinalityType
<1>4. IsFiniteSet(ToSubmit(g)) /\ Cardinality(ToSubmit(g)) \in Nat
  <2>1. ToSubmit(g) \in SUBSET Devices
    <3>1. gpc[g] = "submit" => Members(g) \subseteq Devices
      BY DEF GroupInv, GroupHeld, Resolved, GroupRequests, Members
    <3> QED BY <3>1 DEF ToSubmit, Unsubmitted
  <2>2. IsFiniteSet(ToSubmit(g))
    BY <2>1, FS_Subset
  <2> QED BY <2>2, FS_CardinalityType
<1>5. GroupHeight(gpc[g]) \in 0..9 /\ (gpc[g] = "log_denied" => GroupHeight(gpc[g]) = 8)
  BY <1>1 DEF GroupHeight, GroupPoints, Finished
<1> DEFINE k == Cardinality(Uncollected(g))
           j == Cardinality(ToSubmit(g))
<1>6. j \in Nat /\ k \in Nat /\ GroupStepsLeft(g) = j + 4 * k + GroupHeight(gpc[g]) - emitted[g]
  BY <1>3, <1>4 DEF GroupStepsLeft
<1> HIDE DEF k, j
<1>7. GroupStepsLeft(g) \in Nat
  BY <1>1, <1>2, <1>5, <1>6
<1> QED BY <1>1, <1>2, <1>3, <1>4, <1>5, <1>7

\* A step of the calling thread feeds one more handler, goes down, submits one
\* job, or has the result of a device that had none.
LEMMA GroupStepDescends ==
    ASSUME GroupFilesInv, \A c \in Calls : Answered(c), NEW g \in Groups, GroupStep(g),
           emitted[g] \in 0..2
    PROVE  \/ /\ results'[g] = results[g] /\ gpc[g] = "log_denied" /\ ToSubmit(g)' = ToSubmit(g)
              /\ gpc'[g] = gpc[g] /\ emitted'[g] = emitted[g] + 1
           \/ /\ results'[g] = results[g] /\ emitted'[g] = 0
              /\ ToSubmit(g)' \subseteq ToSubmit(g)
              /\ GroupHeight(gpc'[g]) < GroupHeight(gpc[g]) - emitted[g]
           \/ /\ results'[g] = results[g] /\ emitted'[g] = 0 /\ gpc'[g] = gpc[g]
              /\ emitted[g] = 0
              /\ \E d \in ToSubmit(g) : ToSubmit(g)' = ToSubmit(g) \ {d}
           \/ /\ emitted'[g] = 0 /\ gpc'[g] = "pool" /\ emitted[g] = 0
              /\ ToSubmit(g)' \subseteq ToSubmit(g)
              /\ \E d \in Uncollected(g) : Uncollected(g)' = Uncollected(g) \ {d}
<1>1. /\ gpc \in [Groups -> GroupPoints] /\ results \in [Groups -> [Devices -> Replies]]
      /\ g \in Ids /\ emitted \in [Ids -> 0..Len(Handlers)]
      /\ GroupHeld(g) /\ (gpc[g] # "log_denied" => emitted[g] = 0)
  BY GroupCalls DEF GroupFilesInv, GroupInv, GroupTypes, GroupHeld, DenialHeld,
                    PermissionInv, TypeOK, AuditTypeOK
<1>2. CASE WriteDenial(g)
  BY <1>1, <1>2 DEF WriteDenial, HandlerWrites, groupVars, ToSubmit
<1>3. CASE DenialFails(g) \/ DenialLogged(g)
  <2>1. /\ gpc[g] = "log_denied" /\ gpc'[g] \in {"raised", "done"} /\ results' = results
        /\ emitted'[g] = 0
    BY <1>1, <1>3 DEF DenialFails, DenialLogged, HandlerRaises, EmitReturns, GroupGoto
  <2> QED BY <2>1 DEF GroupHeight, ToSubmit
<1>4. CASE \/ GroupLookupSucceeds(g) \/ GroupLookupFails(g) \/ GroupReturns(g)
           \/ AllSubmitted(g) \/ PoolJoined(g) \/ \E d \in Devices : SubmitFails(g, d)
  <2>1. /\ \/ gpc[g] = "inventory" /\ gpc'[g] \in {"submit", "raised", "done"}
           \/ gpc[g] = "submit" /\ gpc'[g] \in {"pool", "drain"}
           \/ gpc[g] = "drain" /\ gpc'[g] = "raised"
           \/ gpc[g] = "pool" /\ gpc'[g] = "done"
        /\ results' = results /\ emitted' = emitted /\ grequest' = grequest
    BY <1>1, <1>4 DEF GroupLookupSucceeds, GroupLookupFails, GroupReturns, AllSubmitted,
                      PoolJoined, SubmitFails, GroupGoto, vars, auditVars
  <2>2. gpc'[g] = "submit" => Unsubmitted(g)' \subseteq Devices
    BY <1>1, <2>1 DEF GroupHeld, Resolved, GroupRequests, Unsubmitted, Members
  <2>3. ToSubmit(g)' \subseteq ToSubmit(g)
    BY <2>1, <2>2 DEF ToSubmit
  <2> QED BY <1>1, <2>1, <2>3 DEF GroupHeight
<1>5. ASSUME NEW d \in Devices, CollectForSave(g, d) \/ OpenGroupOutput(g, d)
      PROVE  /\ results'[g] = results[g] /\ emitted'[g] = 0
             /\ ToSubmit(g)' \subseteq ToSubmit(g)
             /\ GroupHeight(gpc'[g]) < GroupHeight(gpc[g]) - emitted[g]
  <2>1. /\ \/ gpc[g] = "pool" /\ gpc'[g] = "save"
           \/ gpc[g] = "save" /\ gpc'[g] = "write"
        /\ results' = results /\ emitted' = emitted
    BY <1>1, <1>5 DEF CollectForSave, Yields, OpenGroupOutput, GroupGoto, vars, auditVars
  <2> QED BY <1>1, <2>1 DEF GroupHeight, ToSubmit
<1>6. ASSUME NEW d \in Devices,
             \/ CollectFailure(g, d) \/ CollectReply(g, d)
             \/ WriteGroupOutput(g, d) \/ GroupSaveFails(g, d)
      PROVE  /\ emitted'[g] = 0 /\ gpc'[g] = "pool" /\ emitted[g] = 0
             /\ ToSubmit(g)' \subseteq ToSubmit(g)
             /\ \E e \in Uncollected(g) : Uncollected(g)' = Uncollected(g) \ {e}
  <2>1. /\ gpc[g] \in Pooling /\ gpc'[g] = "pool" /\ emitted' = emitted
    BY <1>1, <1>6 DEF CollectFailure, CollectReply, Yields, WriteGroupOutput, GroupSaveFails,
                      GroupGoto, vars, auditVars, groupVars, Pooling
  <2>2. results[g][d] = "none"
    <3>1. CASE CollectFailure(g, d) \/ CollectReply(g, d)
      BY <3>1 DEF CollectFailure, CollectReply, Yields
    <3>2. CASE WriteGroupOutput(g, d) \/ GroupSaveFails(g, d)
      <4>1. gpc[g] \in {"save", "write"} /\ d \in saving[g]
        BY <3>2 DEF WriteGroupOutput, GroupSaveFails
      <4>2. grequest[g].save_output /\ PairHeld(g, d)
        BY <1>1, <4>1 DEF GroupHeld, Collected, GroupFilesInv
      <4> QED BY <4>1, <4>2 DEF PairHeld, SaveHeld
    <3> QED BY <1>6, <3>1, <3>2
  <2>3. PICK kind : results' = [results EXCEPT ![g][d] = kind] /\ kind # "none"
    <3>1. CASE CollectReply(g, d)
      <4>1. <<g, d>> \in Calls /\ pc[<<g, d>>] = "done"
        BY <3>1, GroupCalls DEF CollectReply
      <4>2. reply[<<g, d>>] # "none"
        BY <4>1 DEF Answered
      <4> QED BY <3>1, <4>2 DEF CollectReply, SetResult
    <3>2. CASE CollectFailure(g, d) \/ WriteGroupOutput(g, d) \/ GroupSaveFails(g, d)
      BY <3>2 DEF CollectFailure, WriteGroupOutput, GroupSaveFails, SetResult
    <3> QED BY <1>6, <3>1, <3>2
  <2>4. results'[g] = [results[g] EXCEPT ![d] = kind]
    BY <1>1, <2>3
  <2>5. Uncollected(g)' = Uncollected(g) \ {d}
    BY <1>1, <2>3, <2>4 DEF Uncollected
  <2> QED BY <1>1, <2>1, <2>2, <2>5 DEF Uncollected, Pooling, ToSubmit
<1>7. ASSUME NEW d \in Devices, SubmitJob(g, d)
      PROVE  /\ results'[g] = results[g] /\ emitted'[g] = 0 /\ gpc'[g] = gpc[g]
             /\ emitted[g] = 0
             /\ d \in ToSubmit(g) /\ ToSubmit(g)' = ToSubmit(g) \ {d}
  <2>1. /\ gpc[g] = "submit" /\ d \in Unsubmitted(g) /\ waiting'[g] = waiting[g] \cup {d}
        /\ UNCHANGED <<results, emitted, gpc, grequest, pc>>
    BY <1>1, <1>7 DEF SubmitJob, GroupFilesInv, GroupInv, GroupTypes, vars, auditVars
  <2>2. Unsubmitted(g)' = Unsubmitted(g) \ {d}
    BY <2>1 DEF Unsubmitted, Members
  <2> QED BY <1>1, <2>1, <2>2 DEF ToSubmit
<1> QED BY <1>2, <1>3, <1>4, <1>5, <1>6, <1>7 DEF GroupStep

\* The other group calls, the workers, the calls and a dying process.
LEMMA OthersLeaveSteps ==
    ASSUME GroupInv, [GroupNext]_gvars, NEW g \in Groups
    PROVE  \/ GroupStep(g)
           \/ /\ results'[g] = results[g] /\ ToSubmit(g)' \subseteq ToSubmit(g)
              /\ \/ gpc'[g] = gpc[g] /\ emitted'[g] = emitted[g]
                 \/ gpc[g] = "idle" /\ gpc'[g] \in {"log_denied", "inventory"} /\ emitted'[g] = 0
                 \/ gpc[g] # "idle" /\ gpc'[g] \in Finished /\ emitted'[g] = 0
<1>1. /\ gpc \in [Groups -> GroupPoints] /\ results \in [Groups -> [Devices -> Replies]]
      /\ emitted \in [Ids -> 0..Len(Handlers)] /\ AuditTypeOK /\ PermissionInv /\ g \in Ids
      /\ gpc[g] # "log_denied" => emitted[g] = 0
      /\ pc \in [Calls -> Points]
  BY GroupCalls DEF GroupInv, GroupTypes, GroupHeld, DenialHeld, PermissionInv, TypeOK, AuditTypeOK
\* No job of g is submitted by another.
<1> DEFINE Waits == /\ gpc'[g] = gpc[g] /\ grequest'[g] = grequest[g] /\ waiting'[g] = waiting[g]
                    /\ \A d \in Devices : pc[<<g, d>>] # "idle" => pc'[<<g, d>>] # "idle"
<1>2. ASSUME gpc'[g] = gpc[g], grequest'[g] = grequest[g],
             \A d \in Devices : d \in Unsubmitted(g)' => d \in Unsubmitted(g)
      PROVE  ToSubmit(g)' \subseteq ToSubmit(g)
  <2>1. gpc[g] = "submit" => Members(g)' \subseteq Devices
    BY <1>2 DEF GroupInv, GroupHeld, Resolved, GroupRequests, Members
  <2> QED BY <1>2, <2>1 DEF ToSubmit, Unsubmitted
<1>3. ASSUME Waits
      PROVE  ToSubmit(g)' \subseteq ToSubmit(g)
  BY <1>2, <1>3 DEF Unsubmitted, Members
<1>4. ASSUME NEW h \in Groups, h # g, GroupStep(h)
      PROVE  results'[g] = results[g] /\ emitted'[g] = emitted[g] /\ Waits
  <2>1. /\ gpc'[g] = gpc[g] /\ results'[g] = results[g]
        /\ UNCHANGED pc /\ grequest'[g] = grequest[g] /\ waiting'[g] = waiting[g]
    <3>1. waiting \in [Groups -> SUBSET Devices]
      BY DEF GroupInv, GroupTypes
    <3> QED BY <1>1, <1>4, <3>1 DEF GroupStep, WriteDenial, DenialFails, DenialLogged,
              GroupLookupSucceeds, GroupLookupFails, AllSubmitted, PoolJoined, SubmitJob,
              SubmitFails, CollectFailure, CollectReply, CollectForSave, OpenGroupOutput,
              WriteGroupOutput, GroupSaveFails, GroupReturns, SetResult, GroupGoto, groupVars, vars,
              resultVars
  <2>2. CASE WriteDenial(h) \/ DenialFails(h) \/ DenialLogged(h)
    <3>1. /\ HandlerWrites(h, DENIED) \/ HandlerRaises(h, DENIED) \/ EmitReturns(h)
          /\ DENIED \in Records /\ h \in Ids
      BY <2>2, GroupCalls DEF WriteDenial, DenialFails, DenialLogged, Records, Verdicts
    <3>2. \A d \in Ids : d # h => emitted'[d] = emitted[d]
      BY <1>1, <3>1, EmitStep
    <3> QED BY <1>1, <1>4, <2>1, <3>2
  <2>3. CASE ~(WriteDenial(h) \/ DenialFails(h) \/ DenialLogged(h))
    <3>1. emitted' = emitted
      BY <1>4, <2>3 DEF GroupStep, GroupLookupSucceeds, GroupLookupFails, AllSubmitted,
              PoolJoined, SubmitJob, SubmitFails, CollectFailure,
              CollectReply, CollectForSave, OpenGroupOutput, WriteGroupOutput, GroupSaveFails,
              GroupReturns, vars, auditVars
    <3> QED BY <2>1, <3>1
  <2> QED BY <2>2, <2>3
<1>5. ASSUME NEW h \in Groups, NEW r \in GroupRequests, SendToGroup(h, r)
      PROVE  /\ results' = results /\ emitted' = emitted
             /\ \/ Waits
                \/ /\ gpc[g] = "idle" /\ gpc'[g] \in {"log_denied", "inventory"}
                   /\ ToSubmit(g)' = ToSubmit(g)
  <2>1. results' = results /\ emitted' = emitted /\ UNCHANGED <<pc, waiting>>
    BY <1>5 DEF SendToGroup, vars, auditVars
  <2>2. h # g => gpc'[g] = gpc[g] /\ grequest'[g] = grequest[g]
    BY <1>1, <1>5 DEF SendToGroup, GroupGoto, GroupInv, GroupTypes
  <2>3. h = g => gpc[g] = "idle" /\ gpc'[g] \in {"log_denied", "inventory"}
    BY <1>1, <1>5 DEF SendToGroup, GroupGoto
  <2> QED BY <2>1, <2>2, <2>3 DEF ToSubmit
<1>6. ASSUME NEW h \in Groups, NEW d \in Devices, WorkerStarts(h, d)
      PROVE  UNCHANGED <<results, gpc, emitted>> /\ ToSubmit(g)' \subseteq ToSubmit(g)
  <2>1. /\ UNCHANGED <<results, gpc, emitted, grequest>>
        /\ waiting' = [waiting EXCEPT ![h] = @ \ {d}]
        /\ pc' = [pc EXCEPT ![<<h, d>>] = "log_attempt"] /\ <<h, d>> \in Calls
    BY <1>6, GroupCalls DEF WorkerStarts, Start, Goto, auditVars
  <2>2. waiting \in [Groups -> SUBSET Devices]
    BY DEF GroupInv, GroupTypes
  <2>3. ASSUME NEW k \in Devices, k \in Unsubmitted(g)'
        PROVE  k \in Unsubmitted(g)
    <3>1. /\ <<g, k>> \in Calls /\ k \in Members(g) /\ k \notin waiting'[g]
          /\ pc'[<<g, k>>] = "idle"
      BY <2>1, <2>3, GroupCalls DEF Unsubmitted, Members
    <3>2. <<g, k>> # <<h, d>> /\ pc[<<g, k>>] = "idle"
      BY <1>1, <2>1, <3>1
    <3>3. k \notin waiting[g]
      BY <2>1, <2>2, <3>1, <3>2
    <3> QED BY <3>1, <3>2, <3>3 DEF Unsubmitted
  <2> QED BY <1>2, <2>1, <2>3
<1>7. ASSUME NEW c \in ToolCalls, NEW d \in Devices, NEW m \in Commands, NEW save \in BOOLEAN,
             SendShowCommand(c, d, m, save), UNCHANGED groupVars
      PROVE  UNCHANGED <<results, gpc, emitted>> /\ Waits
  <2>1. c \in Calls /\ UNCHANGED emitted /\ pc' = [pc EXCEPT ![c] = "log_attempt"]
    BY <1>7 DEF SendShowCommand, Start, Goto, auditVars, ToolCalls
  <2> QED BY <1>1, <1>7, <2>1, GroupCalls DEF groupVars
<1>8. ASSUME NEW c \in Calls, CallStep(c), UNCHANGED groupVars
      PROVE  UNCHANGED <<results, gpc>> /\ emitted'[g] = emitted[g] /\ Waits
  <2>1. c # g
    BY GroupCalls
  <2>2. \A k \in Calls : pc[k] # "idle" => pc'[k] # "idle"
    BY <1>1, <1>8, CallStepIsLocal
  <2> QED BY <1>1, <1>8, <2>1, <2>2, CallStepIsLocal, GroupCalls DEF groupVars
<1>9. CASE GroupCrash
  <2>1. /\ results' = results /\ emitted'[g] = 0
        /\ \/ gpc'[g] = gpc[g] /\ gpc[g] \in {"idle"} \cup Finished
           \/ gpc[g] # "idle" /\ gpc'[g] = "crashed"
    BY <1>1, <1>9 DEF GroupCrash, CrashCalls, EmitsCrash, GroupRunning, Finished
  <2>2. emitted[g] = 0 \/ gpc'[g] = "crashed"
    BY <1>1, <2>1 DEF Finished
  <2>3. ToSubmit(g)' \subseteq ToSubmit(g)
    BY <2>1 DEF ToSubmit, Finished
  <2> QED BY <2>1, <2>2, <2>3 DEF Finished
<1>10. CASE (Tick /\ UNCHANGED groupVars) \/ UNCHANGED gvars
  <2>1. UNCHANGED <<results, gpc, emitted, pc, grequest, waiting>>
    BY <1>10 DEF Tick, auditVars, gvars, vars, groupVars
  <2> QED BY <1>3, <2>1
<1> DEFINE Left == /\ results'[g] = results[g] /\ ToSubmit(g)' \subseteq ToSubmit(g)
                   /\ \/ gpc'[g] = gpc[g] /\ emitted'[g] = emitted[g]
                      \/ gpc[g] = "idle" /\ gpc'[g] \in {"log_denied", "inventory"} /\ emitted'[g] = 0
                      \/ gpc[g] # "idle" /\ gpc'[g] \in Finished /\ emitted'[g] = 0
<1>11. ASSUME results'[g] = results[g], emitted'[g] = emitted[g], Waits
       PROVE  Left
  BY <1>3, <1>11
<1>12. (\E h \in Groups, r \in GroupRequests : SendToGroup(h, r)) => Left
  BY <1>1, <1>5, <1>11
<1>13. (\E h \in Groups, d \in Devices : WorkerStarts(h, d)) => Left
  BY <1>6
<1> HIDE DEF Waits, Left
<1>14. GroupStep(g) \/ Left
  BY <1>4, <1>7, <1>8, <1>9, <1>10, <1>11, <1>12, <1>13 DEF GroupNext, GroupQuiet, Left
<1> QED BY <1>14 DEF Left

LEMMA GroupsStepDescend ==
    ASSUME IsFiniteSet(Devices)
    PROVE  /\ GroupFilesInv /\ GroupInv' /\ (\A c \in Calls : Answered(c))
           /\ [GroupNext]_gvars
           => \A g \in Groups : GroupDescends(g)
<1> DEFINE n(g) == Cardinality(Uncollected(g))
           o(g) == Cardinality(ToSubmit(g))
           Bounded(g) == /\ n(g) \in Nat /\ IsFiniteSet(Uncollected(g))
                         /\ o(g) \in Nat /\ IsFiniteSet(ToSubmit(g))
                         /\ GroupHeight(gpc[g]) \in 0..9 /\ emitted[g] \in 0..2
                         /\ gpc[g] # "log_denied" => emitted[g] = 0
                         /\ GroupStepsLeft(g) \in Nat
           AllBounded == GroupInv => \A g \in Groups : Bounded(g)
<1>1. AllBounded
  BY GroupStepsLeftRange
<1>2. AllBounded'
  BY <1>1, PTL
<1>3. ASSUME GroupFilesInv, GroupInv', \A c \in Calls : Answered(c), [GroupNext]_gvars,
             NEW g \in Groups
      PROVE  GroupDescends(g)
  <2>1. Bounded(g) /\ Bounded(g)' /\ GroupInv
    BY <1>1, <1>2, <1>3 DEF GroupFilesInv
  <2>2. results'[g] = results[g] => n(g)' = n(g)
    BY DEF Uncollected
  <2> DEFINE k == n(g)
             m == n(g)'
             i == o(g)
             j == o(g)'
  <2>3. /\ GroupStepsLeft(g) = i + 4 * k + GroupHeight(gpc[g]) - emitted[g]
        /\ GroupStepsLeft(g)' = j + 4 * m + GroupHeight(gpc'[g]) - emitted'[g]
        /\ k \in Nat /\ m \in Nat /\ i \in Nat /\ j \in Nat
    BY <2>1 DEF GroupStepsLeft
  <2>4. ASSUME NEW d \in Uncollected(g), Uncollected(g)' = Uncollected(g) \ {d}
        PROVE  m = k - 1
    BY <2>1, <2>4, FS_RemoveElement
  <2>5. ASSUME NEW d \in ToSubmit(g), ToSubmit(g)' = ToSubmit(g) \ {d}
        PROVE  j = i - 1
    BY <2>1, <2>5, FS_RemoveElement
  <2>6. ToSubmit(g)' \subseteq ToSubmit(g) => j <= i
    BY <2>1, FS_Subset
  <2>7. /\ GroupHeight(gpc[g]) \in 0..9 /\ emitted[g] \in 0..2
        /\ GroupHeight(gpc'[g]) \in 0..9 /\ emitted'[g] \in 0..2
        /\ GroupStepsLeft(g) \in Nat /\ GroupStepsLeft(g)' \in Nat
        /\ gpc[g] # "log_denied" => emitted[g] = 0
    BY <2>1
  <2> HIDE DEF k, m, n, i, j, o
  <2>8. ASSUME GroupStep(g)
        PROVE  GroupStepsLeft(g)' < GroupStepsLeft(g)
    <3>1. CASE /\ results'[g] = results[g] /\ gpc'[g] = gpc[g] /\ emitted'[g] = emitted[g] + 1
               /\ ToSubmit(g)' = ToSubmit(g)
      <4>1. m = k /\ j <= i
        BY <2>2, <2>6, <3>1 DEF k, m
      <4> QED BY <2>3, <2>7, <3>1, <4>1
    <3>2. CASE /\ results'[g] = results[g] /\ emitted'[g] = 0
               /\ ToSubmit(g)' \subseteq ToSubmit(g)
               /\ GroupHeight(gpc'[g]) < GroupHeight(gpc[g]) - emitted[g]
      <4>1. m = k /\ j <= i
        BY <2>2, <2>6, <3>2 DEF k, m
      <4> QED BY <2>3, <2>7, <3>2, <4>1
    <3>3. CASE /\ results'[g] = results[g] /\ emitted'[g] = 0 /\ gpc'[g] = gpc[g]
               /\ emitted[g] = 0
               /\ \E d \in ToSubmit(g) : ToSubmit(g)' = ToSubmit(g) \ {d}
      <4>1. m = k /\ j = i - 1
        BY <2>2, <2>5, <3>3 DEF k, m
      <4> QED BY <2>3, <2>7, <3>3, <4>1
    <3>4. CASE /\ emitted'[g] = 0 /\ gpc'[g] = "pool" /\ emitted[g] = 0
               /\ ToSubmit(g)' \subseteq ToSubmit(g)
               /\ \E d \in Uncollected(g) : Uncollected(g)' = Uncollected(g) \ {d}
      <4>1. m = k - 1 /\ j <= i
        BY <2>4, <2>6, <3>4
      <4>2. GroupHeight(gpc'[g]) = 3
        BY <3>4 DEF GroupHeight
      <4> QED BY <2>3, <2>7, <3>4, <4>1, <4>2
    <3> QED BY <1>3, <2>7, <2>8, <3>1, <3>2, <3>3, <3>4, GroupStepDescends
  <2>9. ASSUME results'[g] = results[g], ToSubmit(g)' \subseteq ToSubmit(g),
               \/ gpc'[g] = gpc[g] /\ emitted'[g] = emitted[g]
               \/ gpc[g] = "idle" /\ gpc'[g] \in {"log_denied", "inventory"} /\ emitted'[g] = 0
               \/ gpc[g] # "idle" /\ gpc'[g] \in Finished /\ emitted'[g] = 0
        PROVE  GroupStepsLeft(g)' <= GroupStepsLeft(g)
    <3>1. m = k /\ j <= i
      BY <2>2, <2>6, <2>9 DEF k, m
    <3>2. CASE gpc'[g] = gpc[g] /\ emitted'[g] = emitted[g]
      BY <2>3, <2>7, <3>1, <3>2
    <3>3. CASE gpc[g] = "idle" /\ gpc'[g] \in {"log_denied", "inventory"} /\ emitted'[g] = 0
      <4>1. GroupHeight(gpc[g]) = 9 /\ GroupHeight(gpc'[g]) <= 8 /\ emitted[g] = 0
        BY <2>7, <3>3 DEF GroupHeight
      <4> QED BY <2>3, <2>7, <3>1, <3>3, <4>1
    <3>4. CASE gpc[g] # "idle" /\ gpc'[g] \in Finished /\ emitted'[g] = 0
      <4>1. GroupHeight(gpc'[g]) = 0 /\ (gpc[g] = "log_denied" => GroupHeight(gpc[g]) = 8)
        BY <3>4 DEF GroupHeight, Finished
      <4> QED BY <2>3, <2>7, <3>1, <3>4, <4>1
    <3> QED BY <2>9, <3>2, <3>3, <3>4
  <2>10. GroupStepsLeft(g)' <= GroupStepsLeft(g)
    BY <1>3, <2>1, <2>7, <2>8, <2>9, OthersLeaveSteps
  <2> QED BY <2>7, <2>8, <2>10 DEF GroupDescends
<1> QED BY <1>3

\* A group call takes at most 5 * N + 9 steps of its own for N devices, and each
\* call of its pool at most 36: nothing is collected or saved twice, whatever
\* fails and in whatever order the threads finish.
THEOREM GroupsDescendCorrect ==
    ASSUME IsFiniteSet(Devices)
    PROVE  GroupSpec => GroupsDescend
<1>1. GroupInit => \A c \in Calls : Answered(c)
  BY DEF GroupInit, Init, Answered
<1>2. GroupInv /\ (\A c \in Calls : Answered(c)) /\ [GroupNext]_gvars
         => (\A c \in Calls : Answered(c))'
  BY AnsweredStep
<1>3. GroupFilesInv /\ GroupInv' /\ (\A c \in Calls : Answered(c)) /\ [GroupNext]_gvars
         => /\ \A g \in Groups : GroupDescends(g)
            /\ \A c \in Calls : Descends(c)
  <2> SUFFICES ASSUME GroupFilesInv, GroupInv', \A c \in Calls : Answered(c), [GroupNext]_gvars
               PROVE  /\ \A g \in Groups : GroupDescends(g)
                      /\ \A c \in Calls : Descends(c)
    OBVIOUS
  <2>1. \A g \in Groups : GroupDescends(g)
    BY GroupsStepDescend
  <2>2. PermissionInv /\ PermissionInv'
    BY DEF GroupFilesInv, GroupInv
  <2>3. \/ \E c \in Calls : CallStep(c)
        \/ \E c \in Calls : \E r : Start(c, r)
        \/ CrashCalls
        \/ \A c \in Calls : pc'[c] = pc[c] /\ emitted'[c] = emitted[c]
    <3>1. GroupInv
      BY DEF GroupFilesInv
    <3> QED BY <3>1, GroupStepOfCalls
  <2> QED BY <2>1, <2>2, <2>3, StepsDescend
<1> QED BY <1>1, <1>2, <1>3, GroupInvariant, GroupFilesInvariant, PTL DEF GroupSpec, GroupsDescend

=============================================================================
