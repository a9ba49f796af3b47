---------------------------- MODULE AuditLogProofs ----------------------------
(***************************************************************************)
(* What the steps of an emit do to the audit log: lemmas for the proofs    *)
(* about the modules that write to it.                                     *)
(***************************************************************************)
EXTENDS AuditLog, TLAPS

\* There are at most two handlers, and each feeds a sink.
LEMMA HandlersType == Handlers \in Seq(Sinks) /\ Len(Handlers) \in 0..2
<1>1. CASE ~AuditEnabled
  BY <1>1 DEF Handlers
<1>2. CASE AuditEnabled /\ Destination = "both"
  <2>1. Handlers = <<"file", "syslog">>
    BY <1>2 DEF Handlers
  <2> QED BY <2>1 DEF Sinks
<1>3. CASE AuditEnabled /\ Destination # "both"
  <2>1. Handlers = <<Destination>> /\ Destination \in Sinks
    BY <1>3, DestinationAssumption DEF Handlers, Sinks
  <2> QED BY <2>1
<1> QED BY <1>1, <1>2, <1>3

\* The sink that takes the next record is a sink of the configuration.
LEMMA NextSinkType ==
    ASSUME NEW id \in Ids, AuditTypeOK, emitted[id] < Len(Handlers)
    PROVE  NextSink(id) \in Sinks
BY HandlersType DEF NextSink, AuditTypeOK

\* Appending a record keeps the log well-formed, keeps every record that is
\* in it, adds the record, and touches no other correlation id.
LEMMA AppendedGrows ==
    ASSUME AuditTypeOK, NEW s \in Sinks, NEW id \in Ids, NEW rec \in Records,
           auditLog' = Appended(s, id, rec)
    PROVE  /\ auditLog' \in [Sinks -> [Ids -> Seq(Records)]]
           /\ \A t \in Sinks, d \in Ids : \A r : InLog(t, d, r) => InLog(t, d, r)'
           /\ InLog(s, id, rec)'
           /\ \A t \in Sinks, d \in Ids : d # id => auditLog'[t][d] = auditLog[t][d]
<1>1. auditLog \in [Sinks -> [Ids -> Seq(Records)]]
  BY DEF AuditTypeOK
<1>2. /\ DOMAIN auditLog' = Sinks
      /\ \A t \in Sinks : DOMAIN auditLog'[t] = Ids
      /\ auditLog'[s][id] = Append(auditLog[s][id], rec)
      /\ \A t \in Sinks, d \in Ids :
            t # s \/ d # id => auditLog'[t][d] = auditLog[t][d]
  BY <1>1 DEF Appended
<1>3. auditLog' \in [Sinks -> [Ids -> Seq(Records)]]
  <2>1. auditLog[s][id] \in Seq(Records)
    BY <1>1
  <2>2. Append(auditLog[s][id], rec) \in Seq(Records)
    BY <2>1
  <2> QED BY <1>1, <2>2 DEF Appended
<1>4. ASSUME NEW t \in Sinks, NEW d \in Ids, NEW r, InLog(t, d, r)
      PROVE  InLog(t, d, r)'
  <2>1. PICK i \in 1..Len(auditLog[t][d]) : auditLog[t][d][i] = r
    BY <1>4 DEF InLog
  <2>2. auditLog[t][d] \in Seq(Records)
    BY <1>1
  <2>3. CASE t = s /\ d = id
    <3>1. auditLog'[t][d] = Append(auditLog[t][d], rec)
      BY <1>2, <2>3
    <3>2. i \in 1..Len(auditLog'[t][d]) /\ auditLog'[t][d][i] = r
      BY <2>1, <2>2, <3>1
    <3> QED BY <3>2 DEF InLog
  <2>4. CASE t # s \/ d # id
    <3>1. auditLog'[t][d] = auditLog[t][d]
      BY <1>2, <2>4
    <3> QED BY <2>1, <3>1 DEF InLog
  <2> QED BY <2>3, <2>4
<1>5. InLog(s, id, rec)'
  <2>1. auditLog[s][id] \in Seq(Records)
    BY <1>1
  <2>2. auditLog'[s][id] = Append(auditLog[s][id], rec)
    BY <1>2
  <2>3. Len(auditLog'[s][id]) \in 1..Len(auditLog'[s][id])
        /\ auditLog'[s][id][Len(auditLog'[s][id])] = rec
    BY <2>1, <2>2
  <2> QED BY <2>3 DEF InLog
<1> QED BY <1>2, <1>3, <1>4, <1>5

\* The three ways an emit goes on keep the audit log well-formed and lose no
\* record of any call.
LEMMA EmitStep ==
    ASSUME AuditTypeOK, NEW id \in Ids, NEW rec \in Records,
           HandlerWrites(id, rec) \/ HandlerRaises(id, rec) \/ EmitReturns(id)
    PROVE  /\ AuditTypeOK'
           /\ \A t \in Sinks, d \in Ids : \A r : InLog(t, d, r) => InLog(t, d, r)'
           /\ \A d \in Ids : d # id => /\ emitted'[d] = emitted[d]
                                       /\ \A t \in Sinks : auditLog'[t][d] = auditLog[t][d]
<1>1. Len(Handlers) \in Nat
  BY HandlersType
<1>2. CASE HandlerWrites(id, rec)
  <2>1. NextSink(id) \in Sinks
    BY <1>2, NextSinkType DEF HandlerWrites
  <2>2. auditLog' = Appended(NextSink(id), id, rec)
    BY <1>2 DEF HandlerWrites
  <2>3. emitted' \in [Ids -> 0..Len(Handlers)]
        /\ \A d \in Ids : d # id => emitted'[d] = emitted[d]
    BY <1>1, <1>2 DEF HandlerWrites, AuditTypeOK
  <2> QED BY <2>1, <2>2, <2>3, AppendedGrows DEF AuditTypeOK
<1>3. ASSUME emitted' = [emitted EXCEPT ![id] = 0]
      PROVE  /\ emitted' \in [Ids -> 0..Len(Handlers)]
             /\ \A d \in Ids : d # id => emitted'[d] = emitted[d]
  BY <1>1, <1>3 DEF AuditTypeOK
<1>4. CASE HandlerRaises(id, rec)
  <2>1. emitted' = [emitted EXCEPT ![id] = 0]
    BY <1>4 DEF HandlerRaises
  <2>2. CASE UNCHANGED auditLog
    BY <1>3, <2>1, <2>2 DEF AuditTypeOK, InLog
  <2>3. CASE auditLog' = Appended("file", id, rec)
    <3>1. "file" \in Sinks
      BY DEF Sinks
    <3> QED BY <1>3, <2>1, <2>3, <3>1, AppendedGrows DEF AuditTypeOK
  <2> QED BY <1>4, <2>2, <2>3 DEF HandlerRaises
<1>5. CASE EmitReturns(id)
  BY <1>3, <1>5 DEF EmitReturns, AuditTypeOK, InLog
<1> QED BY <1>2, <1>4, <1>5

\* The configured sinks are sinks, and each is fed by one of the handlers.
LEMMA ConfiguredSinksType == ConfiguredSinks \subseteq Sinks
BY HandlersType DEF ConfiguredSinks

=============================================================================
