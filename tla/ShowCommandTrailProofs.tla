------------------------ MODULE ShowCommandTrailProofs ------------------------
(***************************************************************************)
(* Proofs of what the audit log tells of a call: the records a sink can    *)
(* hold under one correlation id, their agreement with the answer, and     *)
(* what an outcome vouches for.                                            *)
(***************************************************************************)
EXTENDS ShowCommandProofs, SequenceTheorems

-----------------------------------------------------------------------------
(* The inductive invariant. *)

\* The outcomes logged inside the with block, and before it.
InnerOutcomes == {"SUCCESS"} \cup CommandOutcomes

\* The sink has the record that c is emitting.
Fed(s, c) == \E i \in 1..emitted[c] : Handlers[i] = s

\* What a sink holds once the with block was left, or never entered.
AfterBlock == {<<ALLOWED>>} \cup {<<ALLOWED, o>> : o \in InnerOutcomes}

\* What it holds of a call that is over.
FinalTrails ==
    {<<>>, <<ALLOWED>>, <<DENIED>>}
    \cup {<<ALLOWED, o>> : o \in Outcomes}
    \cup {<<ALLOWED, o, e>> : o \in InnerOutcomes, e \in ConnectionOutcomes}

\* The records of c in a configured sink, at each point.
TrailHeld(s, c) ==
    /\ pc[c] = "idle" => Trail(s, c) = <<>>
    /\ pc[c] = "log_attempt" => Trail(s, c) = IF Fed(s, c) THEN <<Verdict(c)>> ELSE <<>>
    /\ pc[c] \in {"lookup", "connect", "send", "save", "write", "transcript"} =>
           Trail(s, c) = <<ALLOWED>>
    /\ pc[c] \in {"log_inventory", "log_success", "log_command_error"} =>
           Trail(s, c) = IF Fed(s, c) THEN <<ALLOWED, Pending(c)>> ELSE <<ALLOWED>>
    /\ pc[c] = "close" => \E o \in InnerOutcomes :
           Trail(s, c) = <<ALLOWED, o>> /\ reply[c] \in ReplyKinds(o)
    /\ pc[c] = "unwind" => Trail(s, c) \in AfterBlock
    /\ pc[c] = "log_connection_error" =>
           IF Fed(s, c) THEN \E base \in AfterBlock : Trail(s, c) = Append(base, outcome[c])
           ELSE Trail(s, c) \in AfterBlock
    /\ pc[c] \in Finished => /\ Trail(s, c) \in FinalTrails
                             /\ Trail(s, c) # <<>> => Trail(s, c)[1] = Verdict(c)
    /\ pc[c] = "done" => /\ Trail(s, c) # <<>>
                         /\ reply[c] \in ReplyKinds(Trail(s, c)[Len(Trail(s, c))])

\* The outcome that an except clause is going to log.
OutcomeHeld(c) ==
    /\ pc[c] = "log_command_error" => outcome[c] \in CommandOutcomes
    /\ pc[c] \in {"unwind", "log_connection_error"} => outcome[c] \in ConnectionOutcomes

CallTrailHeld(c) ==
    /\ OutcomeHeld(c)
    /\ \A s \in ConfiguredSinks : TrailHeld(s, c)
    /\ \A s \in Sinks \ ConfiguredSinks : Trail(s, c) = <<>>

TrailInv == PermissionInv /\ \A c \in Calls : CallTrailHeld(c)

-----------------------------------------------------------------------------
(* One emit. *)

\* Short trails, record by record.
LEMMA AppendShort ==
    ASSUME NEW a, NEW b, NEW e
    PROVE  /\ Append(<<>>, a) = <<a>> /\ Append(<<a>>, b) = <<a, b>>
           /\ Append(<<a, b>>, e) = <<a, b, e>>
<1> DEFINE S == {a, b, e}
<1>1. /\ <<>> \in Seq(S) /\ <<a>> \in Seq(S) /\ <<a, b>> \in Seq(S) /\ <<a, b, e>> \in Seq(S)
      /\ a \in S /\ b \in S /\ e \in S
  OBVIOUS
<1> HIDE DEF S
<1>2. Append(<<>>, a) = <<a>>
  BY <1>1
<1>3. Append(<<a>>, b) = <<a, b>>
  <2> DEFINE x == Append(<<a>>, b)
             y == <<a, b>>
  <2>1. x \in Seq(S) /\ Len(x) = 2 /\ x[1] = a /\ x[2] = b
    BY <1>1
  <2>2. y \in Seq(S) /\ Len(y) = 2 /\ y[1] = a /\ y[2] = b
    BY <1>1
  <2> HIDE DEF x, y
  <2>3. x = y
    BY <2>1, <2>2, SeqEqual
  <2> QED BY <2>3 DEF x, y
<1>4. Append(<<a, b>>, e) = <<a, b, e>>
  <2> DEFINE x == Append(<<a, b>>, e)
             y == <<a, b, e>>
  <2>1. x \in Seq(S) /\ Len(x) = 3 /\ x[1] = a /\ x[2] = b /\ x[3] = e
    BY <1>1
  <2>2. y \in Seq(S) /\ Len(y) = 3 /\ y[1] = a /\ y[2] = b /\ y[3] = e
    BY <1>1
  <2> HIDE DEF x, y
  <2>3. x = y
    BY <2>1, <2>2, SeqEqual
  <2> QED BY <2>3 DEF x, y
<1> QED BY <1>2, <1>3, <1>4

\* No two handlers feed one sink.
LEMMA HandlersDiffer ==
    \A i, j \in 1..Len(Handlers) : Handlers[i] = Handlers[j] => i = j
<1>1. CASE ~AuditEnabled
  BY <1>1 DEF Handlers
<1>2. CASE AuditEnabled /\ Destination = "both"
  BY <1>2 DEF Handlers
<1>3. CASE AuditEnabled /\ Destination # "both"
  BY <1>3 DEF Handlers
<1> QED BY <1>1, <1>2, <1>3

\* What a sink holds once it has the record that c is emitting.
Full(s, c) == IF Fed(s, c) THEN Trail(s, c) ELSE Append(Trail(s, c), Pending(c))

\* The ways an emit goes on, as one sink sees them.
LEMMA EmitTrail ==
    ASSUME AuditTypeOK, NEW c \in Ids, NEW s \in Sinks,
           \/ HandlerWrites(c, Pending(c)) \/ HandlerRaises(c, Pending(c)) \/ EmitReturns(c)
    PROVE  /\ s \notin ConfiguredSinks => Trail(s, c)' = Trail(s, c)
           /\ HandlerWrites(c, Pending(c)) =>
                 /\ Trail(s, c)' = IF Fed(s, c)' THEN Full(s, c) ELSE Trail(s, c)
                 /\ Fed(s, c) => Fed(s, c)'
           /\ HandlerRaises(c, Pending(c)) => Trail(s, c)' \in {Trail(s, c), Full(s, c)}
           /\ EmitReturns(c) /\ s \in ConfiguredSinks => Trail(s, c)' = Full(s, c)
<1>1. /\ emitted[c] \in Nat /\ Len(Handlers) \in Nat /\ emitted[c] <= Len(Handlers)
      /\ auditLog \in [Sinks -> [Ids -> Seq(Records)]]
      /\ DOMAIN emitted = Ids
  BY HandlersType DEF AuditTypeOK
<1>2. ASSUME emitted[c] < Len(Handlers), NEW rec, auditLog' = Appended(NextSink(c), c, rec)
      PROVE  /\ NextSink(c) \in ConfiguredSinks /\ ~Fed(NextSink(c), c)
             /\ s = NextSink(c) => Trail(s, c)' = Append(Trail(s, c), rec)
             /\ s # NextSink(c) => Trail(s, c)' = Trail(s, c)
  <2>1. emitted[c] + 1 \in 1..Len(Handlers)
    BY <1>1, <1>2
  <2>2. NextSink(c) \in ConfiguredSinks /\ NextSink(c) \in Sinks
    BY <2>1, ConfiguredSinksType DEF NextSink, ConfiguredSinks
  <2>3. ~Fed(NextSink(c), c)
    <3> SUFFICES ASSUME NEW i \in 1..emitted[c], Handlers[i] = NextSink(c)
                 PROVE  FALSE
      BY DEF Fed
    <3>1. i \in 1..Len(Handlers) /\ i # emitted[c] + 1
      BY <1>1
    <3> QED BY <2>1, <3>1, HandlersDiffer DEF NextSink
  <2> QED BY <1>1, <1>2, <2>2, <2>3 DEF Appended, Trail
<1>3. CASE HandlerWrites(c, Pending(c))
  <2>1. /\ emitted[c] < Len(Handlers) /\ auditLog' = Appended(NextSink(c), c, Pending(c))
        /\ emitted'[c] = emitted[c] + 1
    BY <1>1, <1>3 DEF HandlerWrites
  <2>2. Fed(s, c)' <=> (Fed(s, c) \/ s = NextSink(c))
    <3>1. \A i : i \in 1..(emitted[c] + 1) <=> (i \in 1..emitted[c] \/ i = emitted[c] + 1)
      BY <1>1
    <3>2. Fed(s, c)' <=> \E i \in 1..(emitted[c] + 1) : Handlers[i] = s
      BY <2>1 DEF Fed
    <3> QED BY <3>1, <3>2 DEF Fed, NextSink
  <2>3. Trail(s, c)' = IF Fed(s, c)' THEN Full(s, c) ELSE Trail(s, c)
    BY <1>2, <2>1, <2>2 DEF Full
  <2>4. s \notin ConfiguredSinks => Trail(s, c)' = Trail(s, c)
    BY <1>2, <2>1
  <2>5. ~HandlerRaises(c, Pending(c)) /\ ~EmitReturns(c)
    BY <1>1, <2>1 DEF HandlerRaises, EmitReturns
  <2> QED BY <2>2, <2>3, <2>4, <2>5
<1>4. CASE HandlerRaises(c, Pending(c))
  <2>1. emitted[c] < Len(Handlers) /\ emitted'[c] = 0
    BY <1>1, <1>4 DEF HandlerRaises
  <2>2. UNCHANGED auditLog \/ auditLog' = Appended(NextSink(c), c, Pending(c))
    BY <1>4 DEF HandlerRaises
  <2>3. Trail(s, c)' \in {Trail(s, c), Full(s, c)}
    BY <1>2, <2>1, <2>2 DEF Full, Trail
  <2>4. s \notin ConfiguredSinks => Trail(s, c)' = Trail(s, c)
    BY <1>2, <2>1, <2>2 DEF Trail
  <2>5. ~HandlerWrites(c, Pending(c)) /\ ~EmitReturns(c)
    BY <1>1, <2>1 DEF HandlerWrites, EmitReturns
  <2> QED BY <2>3, <2>4, <2>5
<1>5. CASE EmitReturns(c)
  <2>1. emitted[c] = Len(Handlers) /\ UNCHANGED auditLog
    BY <1>5 DEF EmitReturns
  <2>2. s \in ConfiguredSinks => Fed(s, c)
    BY <2>1 DEF ConfiguredSinks, Fed
  <2>3. ~HandlerWrites(c, Pending(c)) /\ ~HandlerRaises(c, Pending(c))
    BY <1>1, <2>1 DEF HandlerWrites, HandlerRaises
  <2> QED BY <2>1, <2>2, <2>3 DEF Full, Trail
<1> QED BY <1>3, <1>4, <1>5

\* What the record that c is emitting makes of the trail of a sink.
LEMMA FullTrail ==
    ASSUME NEW c \in Calls, NEW s, TrailHeld(s, c), pc[c] \in Logging
    PROVE  /\ pc[c] = "log_attempt" =>
                 Full(s, c) = <<Verdict(c)>> /\ Trail(s, c) \in {<<>>, <<Verdict(c)>>}
           /\ pc[c] \in {"log_inventory", "log_success", "log_command_error"} =>
                 /\ Full(s, c) = <<ALLOWED, Pending(c)>>
                 /\ Trail(s, c) \in {<<ALLOWED>>, <<ALLOWED, Pending(c)>>}
           /\ pc[c] = "log_connection_error" =>
                 \E base \in AfterBlock : /\ Full(s, c) = Append(base, outcome[c])
                                          /\ Trail(s, c) \in {base, Append(base, outcome[c])}
<1>1. Append(<<>>, Pending(c)) = <<Pending(c)>>
      /\ Append(<<ALLOWED>>, Pending(c)) = <<ALLOWED, Pending(c)>>
  BY AppendShort
<1>2. CASE pc[c] = "log_attempt"
  BY <1>1, <1>2 DEF TrailHeld, Full, Pending
<1>3. CASE pc[c] \in {"log_inventory", "log_success", "log_command_error"}
  BY <1>1, <1>3 DEF TrailHeld, Full
<1>4. CASE pc[c] = "log_connection_error"
  BY <1>4 DEF TrailHeld, Full, Pending
<1> QED BY <1>2, <1>3, <1>4

-----------------------------------------------------------------------------
(* The steps. *)

\* A call whose records, place and answer stay as they are.
LEMMA OthersKeepTrail ==
    ASSUME NEW d \in Calls, CallTrailHeld(d), emitted'[d] = emitted[d],
           \A t \in Sinks : auditLog'[t][d] = auditLog[t][d],
           pc'[d] = pc[d], request'[d] = request[d], outcome'[d] = outcome[d],
           reply'[d] = reply[d]
    PROVE  CallTrailHeld(d)'
<1>1. Verdict(d)' = Verdict(d) /\ Pending(d)' = Pending(d)
  BY DEF Verdict, Allowed, Pending
<1>2. \A t \in Sinks : Trail(t, d)' = Trail(t, d) /\ Fed(t, d)' = Fed(t, d)
  BY DEF Trail, Fed
<1>3. ASSUME NEW t \in ConfiguredSinks
      PROVE  TrailHeld(t, d)'
  <2>1. t \in Sinks /\ TrailHeld(t, d)
    BY ConfiguredSinksType DEF CallTrailHeld
  <2> QED BY <1>1, <1>2, <2>1 DEF TrailHeld
<1> QED BY <1>2, <1>3 DEF CallTrailHeld, OutcomeHeld

\* A trail that ends with the record of an except clause, or without it.
LEMMA FinalTrail ==
    ASSUME NEW base \in AfterBlock, NEW e \in ConnectionOutcomes
    PROVE  /\ base \in FinalTrails /\ base # <<>> /\ base[1] = ALLOWED
           /\ Append(base, e) \in FinalTrails /\ Append(base, e) # <<>>
           /\ Append(base, e)[1] = ALLOWED /\ Append(base, e)[Len(Append(base, e))] = e
<1>1. e \in Outcomes /\ InnerOutcomes \subseteq Outcomes
  BY OutcomeTypes DEF InnerOutcomes, CommandOutcomes, ConnectionOutcomes, Outcomes
<1>2. CASE base = <<ALLOWED>>
  <2>1. Append(base, e) = <<ALLOWED, e>>
    BY <1>2, AppendShort
  <2> QED BY <1>1, <1>2, <2>1 DEF FinalTrails
<1>3. ASSUME NEW o \in InnerOutcomes, base = <<ALLOWED, o>>
      PROVE  /\ base \in FinalTrails /\ base # <<>> /\ base[1] = ALLOWED
             /\ Append(base, e) \in FinalTrails /\ Append(base, e) # <<>>
             /\ Append(base, e)[1] = ALLOWED /\ Append(base, e)[Len(Append(base, e))] = e
  <2>1. Append(base, e) = <<ALLOWED, o, e>>
    BY <1>3, AppendShort
  <2> QED BY <1>1, <1>3, <2>1 DEF FinalTrails
<1> QED BY <1>2, <1>3 DEF AfterBlock

\* The answer an error outcome gives is the one its record stands for.
LEMMA ErrorReplyKinds ==
    ASSUME NEW o \in CommandOutcomes \cup ConnectionOutcomes
    PROVE  ErrorReply(o) \in ReplyKinds(o)
BY DEF CommandOutcomes, ConnectionOutcomes, CommandOutcome, ConnectionOutcome, ReplyKinds,
       ALLOWED, DENIED

\* The steps of a call that log nothing: where they lead, no sink has more
\* than it had, and the outcome that will be logged is one of its clause.
LEMMA QuietTrailStep ==
    ASSUME PermissionInv, NEW c \in Calls, CallTrailHeld(c), UNCHANGED auditVars,
           request'[c] = request[c], pc[c] \notin Logging,
           \/ /\ pc[c] \in {"lookup", "connect", "send", "save", "write", "transcript"}
              /\ pc'[c] \in {"lookup", "connect", "send", "save", "write", "transcript",
                             "log_inventory", "log_success", "log_command_error",
                             "log_connection_error", "unwind", "raised"}
              /\ OutcomeHeld(c)'
           \/ /\ pc[c] = "close" /\ pc'[c] = "done" /\ reply'[c] = reply[c]
           \/ /\ pc[c] \in {"close", "unwind"} /\ pc'[c] = "log_connection_error"
              /\ OutcomeHeld(c)'
    PROVE  CallTrailHeld(c)'
<1>1. /\ emitted'[c] = 0 /\ \A s : Trail(s, c)' = Trail(s, c) /\ ~Fed(s, c)'
      /\ Verdict(c)' = Verdict(c)
  <2>1. emitted'[c] = 0
    BY DEF PermissionInv, PermissionHeld, auditVars
  <2> QED BY <2>1 DEF Trail, Fed, Verdict, Allowed, auditVars
<1>2. Verdict(c) = ALLOWED
  <2>1. pc[c] \in PastDecision
    BY DEF PastDecision, WithBlock
  <2> QED BY <2>1 DEF PermissionInv, PermissionHeld, Verdict
<1>3. OutcomeHeld(c)'
  BY DEF OutcomeHeld
<1>4. ASSUME NEW s \in ConfiguredSinks
      PROVE  TrailHeld(s, c)'
  <2>1. TrailHeld(s, c)
    BY DEF CallTrailHeld
  <2>2. CASE pc[c] \in {"lookup", "connect", "send", "save", "write", "transcript"}
    <3>1. Trail(s, c)' = <<ALLOWED>> /\ <<ALLOWED>>[1] = ALLOWED
      BY <1>1, <2>1, <2>2 DEF TrailHeld
    <3> QED BY <1>1, <1>2, <2>2, <3>1 DEF TrailHeld, AfterBlock, FinalTrails, Finished
  <2>3. CASE pc[c] = "close" /\ pc'[c] = "done" /\ reply'[c] = reply[c]
    <3>1. PICK o \in InnerOutcomes : Trail(s, c) = <<ALLOWED, o>> /\ reply[c] \in ReplyKinds(o)
      BY <2>1, <2>3 DEF TrailHeld
    <3>2. /\ <<ALLOWED, o>>[1] = ALLOWED /\ <<ALLOWED, o>> # <<>>
          /\ <<ALLOWED, o>>[Len(<<ALLOWED, o>>)] = o
      OBVIOUS
    <3>3. <<ALLOWED, o>> \in FinalTrails
      BY OutcomeTypes DEF FinalTrails, InnerOutcomes, CommandOutcomes, Outcomes
    <3> QED BY <1>1, <1>2, <2>3, <3>1, <3>2, <3>3 DEF TrailHeld, Finished
  <2>4. CASE pc[c] \in {"close", "unwind"} /\ pc'[c] = "log_connection_error"
    <3>1. Trail(s, c) \in AfterBlock
      BY <2>1, <2>4 DEF TrailHeld, AfterBlock
    <3> QED BY <1>1, <2>4, <3>1 DEF TrailHeld, Finished
  <2> QED BY <2>2, <2>3, <2>4
<1>5. \A s \in Sinks \ ConfiguredSinks : Trail(s, c)' = <<>>
  BY <1>1 DEF CallTrailHeld
<1> QED BY <1>3, <1>4, <1>5 DEF CallTrailHeld

\* The steps of an emit.
LEMMA LoggingTrailStep ==
    ASSUME PermissionInv, NEW c \in Calls, CallTrailHeld(c),
           \/ WriteRecord(c) \/ AuditFails(c) \/ AttemptLogged(c) \/ FailureLogged(c)
           \/ OutcomeLogged(c)
    PROVE  CallTrailHeld(c)'
<1>1. /\ c \in Ids /\ AuditTypeOK /\ pc \in [Calls -> Points] /\ pc[c] \in Logging
      /\ outcome \in [Calls -> Outcomes] /\ reply \in [Calls -> Replies]
      /\ request' = request
      /\ HandlerWrites(c, Pending(c)) \/ HandlerRaises(c, Pending(c)) \/ EmitReturns(c)
  BY PendingType DEF PermissionInv, TypeOK, WriteRecord, AuditFails, AttemptLogged,
                     FailureLogged, OutcomeLogged, Logging
<1>2. /\ Verdict(c)' = Verdict(c) /\ Verdict(c) \in {ALLOWED, DENIED}
      /\ pc[c] # "log_attempt" => Verdict(c) = ALLOWED
  BY <1>1 DEF PermissionInv, PermissionHeld, PastDecision, Verdict, Allowed
<1>3. ASSUME NEW s \in Sinks \ ConfiguredSinks
      PROVE  Trail(s, c)' = <<>>
  <2>1. Trail(s, c)' = Trail(s, c)
    BY <1>1, EmitTrail
  <2> QED BY <2>1 DEF CallTrailHeld
<1>4. \A s : emitted'[c] = 0 => ~Fed(s, c)'
  BY DEF Fed
<1>5. ASSUME NEW s \in ConfiguredSinks
      PROVE  s \in Sinks /\ TrailHeld(s, c)
  BY <1>5, ConfiguredSinksType DEF CallTrailHeld
<1>6. CASE WriteRecord(c)
  <2>1. UNCHANGED <<pc, outcome, reply>> /\ HandlerWrites(c, Pending(c)) /\ Pending(c)' = Pending(c)
    BY <1>2, <1>6 DEF WriteRecord, resultVars, Pending
  <2>2. ASSUME NEW s \in ConfiguredSinks
        PROVE  TrailHeld(s, c)'
    <3>1. /\ Trail(s, c)' = IF Fed(s, c)' THEN Full(s, c) ELSE Trail(s, c)
          /\ Fed(s, c) => Fed(s, c)'
      BY <1>1, <1>5, <2>1, EmitTrail
    <3>2. pc[c] = "log_attempt" => TrailHeld(s, c)'
      BY <1>2, <1>5, <2>1, <3>1, FullTrail DEF TrailHeld, Logging, Finished
    <3>3. pc[c] \in {"log_inventory", "log_success", "log_command_error"} => TrailHeld(s, c)'
      BY <1>5, <2>1, <3>1, FullTrail DEF TrailHeld, Logging, Finished
    <3>4. pc[c] = "log_connection_error" => TrailHeld(s, c)'
      BY <1>5, <2>1, <3>1, FullTrail DEF TrailHeld, Logging, Finished
    <3> QED BY <1>1, <3>2, <3>3, <3>4 DEF Logging
  <2>3. OutcomeHeld(c)'
    BY <2>1 DEF CallTrailHeld, OutcomeHeld
  <2> QED BY <1>3, <2>2, <2>3 DEF CallTrailHeld
<1>7. CASE AuditFails(c)
  <2>1. /\ HandlerRaises(c, Pending(c)) /\ emitted'[c] = 0
        /\ pc'[c] = OnAuditFailure(pc[c]) /\ outcome'[c] = ConnectionOutcome("Exception")
    BY <1>1, <1>7 DEF AuditFails, HandlerRaises, Goto, AuditTypeOK
  <2>2. /\ pc[c] \in {"log_success", "log_command_error"} => pc'[c] = "unwind"
        /\ pc[c] \notin {"log_success", "log_command_error"} => pc'[c] = "raised"
    BY <1>1, <2>1 DEF OnAuditFailure, WithBlock, Logging
  <2>3. OutcomeHeld(c)'
    BY <2>1, <2>2 DEF OutcomeHeld, ConnectionOutcomes, Exceptions
  <2>4. ASSUME NEW s \in ConfiguredSinks
        PROVE  TrailHeld(s, c)'
    <3>1. Trail(s, c)' \in {Trail(s, c), Full(s, c)}
      BY <1>1, <1>5, <2>1, EmitTrail
    <3>2. CASE pc[c] = "log_attempt"
      <4>1. Trail(s, c)' \in {<<>>, <<Verdict(c)>>} /\ <<Verdict(c)>>[1] = Verdict(c)
        BY <1>5, <3>1, <3>2, FullTrail DEF Logging
      <4> QED BY <1>2, <2>2, <3>2, <4>1 DEF TrailHeld, FinalTrails, Finished
    <3>3. CASE pc[c] = "log_inventory"
      <4>1. /\ Trail(s, c)' \in {<<ALLOWED>>, <<ALLOWED, "INVENTORY_ERROR">>}
            /\ <<ALLOWED>>[1] = ALLOWED /\ <<ALLOWED, "INVENTORY_ERROR">>[1] = ALLOWED
        BY <1>5, <3>1, <3>3, FullTrail DEF Logging, Pending
      <4> QED BY <1>2, <2>2, <3>3, <4>1 DEF TrailHeld, FinalTrails, Finished, Outcomes
    <3>4. CASE pc[c] \in {"log_success", "log_command_error"}
      <4>1. /\ Trail(s, c)' \in {<<ALLOWED>>, <<ALLOWED, Pending(c)>>}
            /\ Pending(c) \in InnerOutcomes
        BY <1>5, <3>1, <3>4, FullTrail DEF Logging, Pending, CallTrailHeld, OutcomeHeld, InnerOutcomes
      <4> QED BY <2>2, <3>4, <4>1 DEF TrailHeld, AfterBlock, Finished
    <3>5. CASE pc[c] = "log_connection_error"
      <4>1. PICK base \in AfterBlock : Trail(s, c)' \in {base, Append(base, outcome[c])}
        BY <1>5, <3>1, <3>5, FullTrail DEF Logging
      <4>2. outcome[c] \in ConnectionOutcomes
        BY <3>5 DEF CallTrailHeld, OutcomeHeld
      <4> QED BY <1>2, <2>2, <3>5, <4>1, <4>2, FinalTrail DEF TrailHeld, Finished
    <3> QED BY <1>1, <3>2, <3>3, <3>4, <3>5 DEF Logging
  <2> QED BY <1>3, <2>3, <2>4 DEF CallTrailHeld
<1>8. ASSUME EmitReturns(c), NEW s \in ConfiguredSinks
      PROVE  Trail(s, c)' = Full(s, c) /\ ~Fed(s, c)'
  <2>1. emitted'[c] = 0
    BY <1>1, <1>8 DEF EmitReturns, AuditTypeOK
  <2> QED BY <1>1, <1>4, <1>5, <1>8, <2>1, EmitTrail
<1>9. CASE AttemptLogged(c)
  <2>1. /\ EmitReturns(c) /\ pc[c] = "log_attempt"
        /\ pc'[c] = IF Allowed(c) THEN "lookup" ELSE "done"
        /\ ~Allowed(c) => reply'[c] = "security_error"
    BY <1>1, <1>9 DEF AttemptLogged, Goto
  <2>2. ASSUME NEW s \in ConfiguredSinks
        PROVE  TrailHeld(s, c)'
    <3>1. Trail(s, c)' = <<Verdict(c)>>
      BY <1>5, <1>8, <2>1, FullTrail DEF Logging
    <3>2. CASE Allowed(c)
      BY <2>1, <3>1, <3>2 DEF TrailHeld, Verdict, Finished
    <3>3. CASE ~Allowed(c)
      <4>1. Trail(s, c)' = <<DENIED>> /\ Verdict(c) = DENIED
        BY <3>1, <3>3 DEF Verdict
      <4>2. <<DENIED>> # <<>> /\ <<DENIED>>[1] = DENIED /\ <<DENIED>>[Len(<<DENIED>>)] = DENIED
        OBVIOUS
      <4>3. "security_error" \in ReplyKinds(DENIED)
        BY DEF ReplyKinds, ALLOWED, DENIED
      <4> QED BY <1>2, <2>1, <3>3, <4>1, <4>2, <4>3 DEF TrailHeld, FinalTrails, Finished
    <3> QED BY <3>2, <3>3
  <2>3. OutcomeHeld(c)'
    BY <2>1 DEF OutcomeHeld
  <2> QED BY <1>3, <2>2, <2>3 DEF CallTrailHeld
<1>10. CASE FailureLogged(c)
  <2>1. /\ EmitReturns(c) /\ pc[c] \in {"log_inventory", "log_connection_error"}
        /\ pc'[c] = "done"
        /\ reply'[c] = IF pc[c] = "log_inventory" THEN "inventory_error"
                       ELSE ErrorReply(outcome[c])
    BY <1>1, <1>10 DEF FailureLogged, Goto
  <2>2. ASSUME NEW s \in ConfiguredSinks
        PROVE  TrailHeld(s, c)'
    <3>1. CASE pc[c] = "log_inventory"
      <4>1. Trail(s, c)' = <<ALLOWED, "INVENTORY_ERROR">>
        BY <1>5, <1>8, <2>1, <3>1, FullTrail DEF Logging, Pending
      <4>2. /\ <<ALLOWED, "INVENTORY_ERROR">> # <<>> /\ <<ALLOWED, "INVENTORY_ERROR">>[1] = ALLOWED
            /\ <<ALLOWED, "INVENTORY_ERROR">>[Len(<<ALLOWED, "INVENTORY_ERROR">>)]
               = "INVENTORY_ERROR"
        OBVIOUS
      <4>3. "inventory_error" \in ReplyKinds("INVENTORY_ERROR")
        BY DEF ReplyKinds, ALLOWED, DENIED
      <4> QED BY <1>2, <2>1, <3>1, <4>1, <4>2, <4>3 DEF TrailHeld, FinalTrails, Finished, Outcomes
    <3>2. CASE pc[c] = "log_connection_error"
      <4>1. PICK base \in AfterBlock : Trail(s, c)' = Append(base, outcome[c])
        BY <1>5, <1>8, <2>1, <3>2, FullTrail DEF Logging
      <4>2. outcome[c] \in ConnectionOutcomes
        BY <3>2 DEF CallTrailHeld, OutcomeHeld
      <4>3. ErrorReply(outcome[c]) \in ReplyKinds(outcome[c])
        BY <4>2, ErrorReplyKinds
      <4> QED BY <1>2, <2>1, <3>2, <4>1, <4>2, <4>3, FinalTrail DEF TrailHeld, Finished
    <3> QED BY <2>1, <3>1, <3>2
  <2>3. OutcomeHeld(c)'
    BY <2>1 DEF OutcomeHeld
  <2> QED BY <1>3, <2>2, <2>3 DEF CallTrailHeld
<1>11. CASE OutcomeLogged(c)
  <2>1. /\ EmitReturns(c) /\ pc[c] \in {"log_success", "log_command_error"}
        /\ pc'[c] = "close"
        /\ reply'[c] = IF pc[c] = "log_command_error" THEN ErrorReply(outcome[c])
                       ELSE IF savedAs[c] = <<>> THEN "output" ELSE "saved"
    BY <1>1, <1>11 DEF OutcomeLogged, Goto
  <2>2. Pending(c) \in InnerOutcomes /\ reply'[c] \in ReplyKinds(Pending(c))
    <3>1. CASE pc[c] = "log_success"
      BY <2>1, <3>1 DEF Pending, InnerOutcomes, ReplyKinds, ALLOWED, DENIED
    <3>2. CASE pc[c] = "log_command_error"
      <4>1. outcome[c] \in CommandOutcomes /\ Pending(c) = outcome[c]
        BY <3>2 DEF CallTrailHeld, OutcomeHeld, Pending
      <4> QED BY <2>1, <3>2, <4>1, ErrorReplyKinds DEF InnerOutcomes
    <3> QED BY <2>1, <3>1, <3>2
  <2>3. ASSUME NEW s \in ConfiguredSinks
        PROVE  TrailHeld(s, c)'
    <3>1. Trail(s, c)' = <<ALLOWED, Pending(c)>>
      BY <1>5, <1>8, <2>1, FullTrail DEF Logging
    <3> QED BY <2>1, <2>2, <3>1 DEF TrailHeld, Finished
  <2>4. OutcomeHeld(c)'
    BY <2>1 DEF OutcomeHeld
  <2> QED BY <1>3, <2>3, <2>4 DEF CallTrailHeld
<1> QED BY <1>6, <1>7, <1>9, <1>10, <1>11

LEMMA TrailCallStep ==
    ASSUME PermissionInv, NEW c \in Calls, CallTrailHeld(c), CallStep(c)
    PROVE  CallTrailHeld(c)'
<1>1. /\ pc \in [Calls -> Points] /\ outcome \in [Calls -> Outcomes]
      /\ emitted[c] = 0 \/ pc[c] \in Logging
  BY DEF PermissionInv, PermissionHeld, TypeOK
<1>2. CASE \/ WriteRecord(c) \/ AuditFails(c) \/ AttemptLogged(c) \/ FailureLogged(c)
           \/ OutcomeLogged(c)
  BY <1>2, LoggingTrailStep
<1>3. \A e \in Exceptions : CommandOutcome(e) \in CommandOutcomes
                            /\ ConnectionOutcome(e) \in ConnectionOutcomes
  BY DEF CommandOutcomes, ConnectionOutcomes
<1>4. Raisable \subseteq Exceptions /\ "Exception" \in Exceptions
  BY RaisableAssumption DEF Exceptions
<1>5. CASE LookupSucceeds(c) \/ LookupFails(c) \/ ConnectSucceeds(c)
  BY <1>1, <1>5, QuietTrailStep
     DEF LookupSucceeds, LookupFails, ConnectSucceeds, Goto, Logging, OutcomeHeld
<1>6. ASSUME NEW e \in Raisable, ConnectFails(c, e)
      PROVE  CallTrailHeld(c)'
  BY <1>1, <1>3, <1>4, <1>6, QuietTrailStep DEF ConnectFails, Goto, Logging, OutcomeHeld
<1>7. ASSUME NEW long \in BOOLEAN, SendSucceeds(c, long)
      PROVE  CallTrailHeld(c)'
  BY <1>1, <1>7, QuietTrailStep DEF SendSucceeds, AfterSave, Goto, Logging, OutcomeHeld
<1>8. ASSUME NEW e \in Raisable, SendFails(c, e)
      PROVE  CallTrailHeld(c)'
  BY <1>1, <1>3, <1>4, <1>8, QuietTrailStep DEF SendFails, Goto, Logging, OutcomeHeld
<1>9. CASE OpenOutput(c) \/ WriteOutput(c) \/ SaveTranscript(c)
  BY <1>1, <1>9, QuietTrailStep
     DEF OpenOutput, WriteOutput, SaveTranscript, AfterSave, Goto, Logging, OutcomeHeld
<1>10. CASE BodyRaises(c)
  BY <1>1, <1>3, <1>4, <1>10, QuietTrailStep DEF BodyRaises, Goto, Logging, OutcomeHeld
<1>11. CASE Disconnect(c)
  <2>1. CASE pc[c] = "close"
    BY <1>1, <1>11, <2>1, QuietTrailStep
       DEF Disconnect, AfterDisconnect, Goto, Logging, resultVars
  <2>2. CASE pc[c] = "unwind"
    BY <1>1, <1>11, <2>2, QuietTrailStep
       DEF Disconnect, AfterDisconnect, Goto, Logging, CallTrailHeld, OutcomeHeld
  <2> QED BY <1>11, <2>1, <2>2 DEF Disconnect
<1>12. ASSUME NEW e \in Raisable, DisconnectRaises(c, e)
       PROVE  CallTrailHeld(c)'
  BY <1>1, <1>3, <1>4, <1>12, QuietTrailStep DEF DisconnectRaises, Goto, Logging, OutcomeHeld
<1> QED BY <1>2, <1>5, <1>6, <1>7, <1>8, <1>9, <1>10, <1>11, <1>12 DEF CallStep

\* A step of one call leaves the trails of the others.
LEMMA TrailCallsStep ==
    ASSUME TrailInv, NEW c \in Calls, CallStep(c)
    PROVE  TrailInv'
<1>1. PermissionInv /\ PermissionInv'
  BY TypeCallStep, PermissionCallStep DEF TrailInv, PermissionInv
<1>2. ASSUME NEW d \in Calls, d # c
      PROVE  CallTrailHeld(d)'
  <2>1. /\ pc'[d] = pc[d] /\ reply'[d] = reply[d] /\ emitted'[d] = emitted[d]
        /\ \A t \in Sinks : auditLog'[t][d] = auditLog[t][d]
        /\ request'[d] = request[d] /\ outcome'[d] = outcome[d]
    BY <1>1, <1>2, CallStepIsLocal, CallsAssumption
  <2> QED BY <2>1, OthersKeepTrail DEF TrailInv
<1> QED BY <1>1, <1>2, TrailCallStep DEF TrailInv

\* What a configured sink holds of a call, wherever the call is.
LEMMA TrailShape ==
    ASSUME PermissionInv, NEW c \in Calls, CallTrailHeld(c), NEW s \in ConfiguredSinks
    PROVE  Trail(s, c) \in FinalTrails /\ (Trail(s, c) # <<>> => Trail(s, c)[1] = Verdict(c))
<1>1. TrailHeld(s, c) /\ pc[c] \in Points /\ outcome[c] \in Outcomes
  BY DEF CallTrailHeld, PermissionInv, TypeOK
<1>2. pc[c] \in PastDecision => Verdict(c) = ALLOWED
  BY DEF PermissionInv, PermissionHeld, Verdict
<1>3. CASE pc[c] \in {"idle", "log_attempt"}
  <2>1. Trail(s, c) \in {<<>>, <<Verdict(c)>>} /\ <<Verdict(c)>>[1] = Verdict(c)
    BY <1>1, <1>3 DEF TrailHeld
  <2> QED BY <2>1 DEF FinalTrails, Verdict
<1>4. CASE pc[c] \in {"lookup", "connect", "send", "save", "write", "transcript"}
  <2>1. Trail(s, c) = <<ALLOWED>> /\ <<ALLOWED>>[1] = ALLOWED
    BY <1>1, <1>4 DEF TrailHeld
  <2> QED BY <1>2, <1>4, <2>1 DEF FinalTrails, PastDecision, WithBlock
<1>5. CASE pc[c] \in {"log_inventory", "log_success", "log_command_error"}
  <2>1. /\ Trail(s, c) \in {<<ALLOWED>>, <<ALLOWED, Pending(c)>>}
        /\ <<ALLOWED>>[1] = ALLOWED /\ <<ALLOWED, Pending(c)>>[1] = ALLOWED
    BY <1>1, <1>5 DEF TrailHeld
  <2>2. Pending(c) \in Outcomes
    BY <1>1, <1>5 DEF Pending, Outcomes
  <2> QED BY <1>2, <1>5, <2>1, <2>2 DEF FinalTrails, PastDecision, Logging
<1>6. CASE pc[c] \in {"close", "unwind"}
  <2>1. Trail(s, c) \in AfterBlock
    BY <1>1, <1>6 DEF TrailHeld, AfterBlock
  <2> QED BY <1>2, <1>6, <2>1, FinalTrail
          DEF ConnectionOutcomes, Exceptions, PastDecision, WithBlock
<1>7. CASE pc[c] = "log_connection_error"
  <2>1. PICK base \in AfterBlock : Trail(s, c) \in {base, Append(base, outcome[c])}
    BY <1>1, <1>7 DEF TrailHeld
  <2>2. outcome[c] \in ConnectionOutcomes
    BY <1>7 DEF CallTrailHeld, OutcomeHeld
  <2> QED BY <1>2, <1>7, <2>1, <2>2, FinalTrail DEF PastDecision, Logging
<1>8. CASE pc[c] \in Finished
  BY <1>1, <1>8 DEF TrailHeld
<1> QED BY <1>1, <1>3, <1>4, <1>5, <1>6, <1>7, <1>8 DEF Points, Logging, WithBlock

\* The start of a call and the death of the process log nothing.
LEMMA TrailStart ==
    ASSUME TrailInv, NEW c \in Calls, NEW r \in Requests, Start(c, r)
    PROVE  TrailInv'
<1>1. /\ PermissionInv' /\ pc \in [Calls -> Points] /\ emitted[c] = 0
      /\ request \in [Calls -> Requests \cup {NoRequest}]
  BY StartKeepsPermission DEF TrailInv, PermissionInv, PermissionHeld, TypeOK, Start, Logging
<1>2. ASSUME NEW d \in Calls, d # c
      PROVE  CallTrailHeld(d)'
  BY <1>1, <1>2, OthersKeepTrail DEF TrailInv, Start, Goto, auditVars, resultVars
<1>3. CallTrailHeld(c)'
  <2>1. /\ pc[c] = "idle" /\ pc'[c] = "log_attempt" /\ emitted'[c] = 0
        /\ \A s : Trail(s, c)' = Trail(s, c)
    BY <1>1 DEF Start, Goto, auditVars, Trail
  <2>2. \A s : ~Fed(s, c)'
    BY <2>1 DEF Fed
  <2> QED BY <2>1, <2>2 DEF TrailInv, CallTrailHeld, OutcomeHeld, TrailHeld, Finished
<1> QED BY <1>1, <1>2, <1>3 DEF TrailInv

LEMMA TrailCrash ==
    ASSUME TrailInv, CrashCalls
    PROVE  TrailInv'
<1>1. /\ PermissionInv' /\ PermissionInv /\ pc \in [Calls -> Points]
      /\ auditLog' = auditLog /\ emitted' = [id \in Ids |-> 0]
      /\ request' = request /\ outcome' = outcome /\ reply' = reply
      /\ pc' = [c \in Calls |-> IF Running(c) THEN "crashed" ELSE pc[c]]
  BY CrashKeepsPermission
     DEF TrailInv, PermissionInv, TypeOK, CrashCalls, EmitsCrash, resultVars
<1>2. ASSUME NEW d \in Calls, ~Running(d)
      PROVE  CallTrailHeld(d)'
  <2>1. emitted[d] = 0 /\ emitted'[d] = 0 /\ pc'[d] = pc[d]
    BY <1>1, <1>2, CallsAssumption DEF PermissionInv, PermissionHeld, Running, Logging, Finished
  <2> QED BY <1>1, <2>1, OthersKeepTrail DEF TrailInv
<1>3. ASSUME NEW d \in Calls, Running(d)
      PROVE  CallTrailHeld(d)'
  <2>1. /\ pc'[d] = "crashed" /\ Verdict(d)' = Verdict(d) /\ \A s : Trail(s, d)' = Trail(s, d)
        /\ CallTrailHeld(d)
    BY <1>1, <1>3 DEF Trail, Verdict, Allowed, TrailInv
  <2>2. ASSUME NEW s \in ConfiguredSinks
        PROVE  TrailHeld(s, d)'
    BY <1>1, <2>1, TrailShape DEF TrailHeld, Finished
  <2> QED BY <2>1, <2>2 DEF CallTrailHeld, OutcomeHeld
<1> QED BY <1>1, <1>2, <1>3 DEF TrailInv

-----------------------------------------------------------------------------
(* The theorems. *)

LEMMA TrailInit == Init => TrailInv
<1> SUFFICES ASSUME Init PROVE TrailInv
  OBVIOUS
<1>1. ASSUME NEW c \in Calls
      PROVE  CallTrailHeld(c)
  <2>1. pc[c] = "idle" /\ \A s \in Sinks : Trail(s, c) = <<>>
    BY CallsAssumption DEF Init, AuditInit, Trail
  <2> QED BY <2>1, ConfiguredSinksType DEF CallTrailHeld, OutcomeHeld, TrailHeld, Finished
<1> QED BY <1>1, PermissionInit DEF TrailInv

LEMMA TrailStep == TrailInv /\ [Next]_vars => TrailInv'
<1> SUFFICES ASSUME TrailInv, [Next]_vars
             PROVE  TrailInv'
  OBVIOUS
<1>1. ASSUME NEW c \in Calls, NEW d \in Devices, NEW m \in Commands, NEW save \in BOOLEAN,
             SendShowCommand(c, d, m, save)
      PROVE  TrailInv'
  <2>1. PICK r \in Requests : Start(c, r)
    BY <1>1 DEF SendShowCommand, Requests
  <2> QED BY <2>1, TrailStart
<1>2. CASE Tick \/ UNCHANGED vars
  <2>1. UNCHANGED <<auditVars, pc, request, outcome, reply>>
    BY <1>2 DEF Tick, vars, resultVars
  <2>2. \A d \in Calls : CallTrailHeld(d)'
    BY <2>1, OthersKeepTrail DEF TrailInv, auditVars
  <2> QED BY <2>2, PermissionStep DEF TrailInv
<1> QED BY <1>1, <1>2, TrailCallsStep, TrailCrash DEF Next, Crash, Quiet

\* At every point of a call: the records that each configured sink holds of it,
\* and what is about to be added.
THEOREM TrailInvariant == Spec => []TrailInv
BY TrailInit, TrailStep, PTL DEF Spec

\* What TrailInv says of the order of the records.
LEMMA OutcomeTrailHolds == TrailInv => OutcomeTrail
<1> SUFFICES ASSUME TrailInv, NEW s \in Sinks, NEW c \in Calls
             PROVE  /\ Len(Trail(s, c)) <= 3
                    /\ Len(Trail(s, c)) >= 1 => Trail(s, c)[1] = Verdict(c)
                    /\ Len(Trail(s, c)) >= 2 => Allowed(c) /\ Trail(s, c)[2] \in Outcomes
                    /\ Len(Trail(s, c)) = 3 =>
                          /\ Trail(s, c)[2] \in {"SUCCESS"} \cup CommandOutcomes
                          /\ Trail(s, c)[3] \in ConnectionOutcomes
  BY DEF OutcomeTrail
<1>1. Trail(s, c) \in FinalTrails /\ (Trail(s, c) # <<>> => Trail(s, c)[1] = Verdict(c))
  <2>1. s \in ConfiguredSinks \/ Trail(s, c) = <<>>
    BY DEF TrailInv, CallTrailHeld
  <2> QED BY <2>1, TrailShape DEF TrailInv, FinalTrails
<1>2. Verdict(c) = ALLOWED => Allowed(c)
  BY DEF Verdict, ALLOWED, DENIED
<1>3. CASE Trail(s, c) \in {<<>>, <<ALLOWED>>, <<DENIED>>}
  <2>1. Len(<<ALLOWED>>) = 1 /\ Len(<<DENIED>>) = 1 /\ Len(<<>>) = 0
    OBVIOUS
  <2>2. \/ Len(Trail(s, c)) = 0
        \/ Len(Trail(s, c)) = 1 /\ Trail(s, c) # <<>>
    BY <1>3, <2>1
  <2>3. Trail(s, c) # <<>> => Trail(s, c)[1] = Verdict(c)
    BY <1>1
  <2>4. CASE Len(Trail(s, c)) = 0
    BY <2>4
  <2>5. CASE Len(Trail(s, c)) = 1 /\ Trail(s, c)[1] = Verdict(c)
    BY <2>5
  <2> QED BY <2>2, <2>3, <2>4, <2>5
<1>4. ASSUME NEW o \in Outcomes, Trail(s, c) = <<ALLOWED, o>>
      PROVE  Len(Trail(s, c)) = 2 /\ Trail(s, c)[1] = Verdict(c) /\ Allowed(c)
             /\ Trail(s, c)[2] \in Outcomes
  <2>1. <<ALLOWED, o>>[1] = ALLOWED /\ <<ALLOWED, o>>[2] = o /\ <<ALLOWED, o>> # <<>>
        /\ Len(<<ALLOWED, o>>) = 2
    OBVIOUS
  <2> QED BY <1>1, <1>2, <1>4, <2>1
<1>5. ASSUME NEW o \in InnerOutcomes, NEW e \in ConnectionOutcomes,
             Trail(s, c) = <<ALLOWED, o, e>>
      PROVE  Len(Trail(s, c)) = 3 /\ Trail(s, c)[1] = Verdict(c) /\ Allowed(c)
             /\ Trail(s, c)[2] = o /\ Trail(s, c)[3] = e
  <2>1. /\ <<ALLOWED, o, e>>[1] = ALLOWED /\ <<ALLOWED, o, e>>[2] = o
        /\ <<ALLOWED, o, e>>[3] = e /\ <<ALLOWED, o, e>> # <<>> /\ Len(<<ALLOWED, o, e>>) = 3
    OBVIOUS
  <2> QED BY <1>1, <1>2, <1>5, <2>1
<1>6. InnerOutcomes \subseteq Outcomes
  BY OutcomeTypes DEF InnerOutcomes, CommandOutcomes, Outcomes
<1>7. CASE \E o \in Outcomes : Trail(s, c) = <<ALLOWED, o>>
  BY <1>4, <1>7
<1>8. CASE \E o \in InnerOutcomes, e \in ConnectionOutcomes : Trail(s, c) = <<ALLOWED, o, e>>
  <2>1. PICK o \in InnerOutcomes, e \in ConnectionOutcomes : Trail(s, c) = <<ALLOWED, o, e>>
    BY <1>8
  <2>2. o \in Outcomes /\ o \in {"SUCCESS"} \cup CommandOutcomes
    BY <1>6 DEF InnerOutcomes
  <2> HIDE DEF InnerOutcomes
  <2> QED BY <1>5, <2>1, <2>2
<1> QED BY <1>1, <1>3, <1>7, <1>8 DEF FinalTrails

\* Whatever fails, a sink tells the story of a call in order: the verdict
\* first, nothing after a denial, one outcome, and at most one more, of an
\* outer except clause, after one of the with block.
THEOREM OutcomeTrailCorrect == Spec => []OutcomeTrail
BY OutcomeTrailHolds, TrailInvariant, PTL

\* No answer without its record: when a call returned, the last record of
\* every configured sink is the one its answer stands for.
THEOREM ReplyAgreesWithAuditCorrect == Spec => []ReplyAgreesWithAudit
<1>1. TrailInv => ReplyAgreesWithAudit
  BY DEF TrailInv, CallTrailHeld, TrailHeld, ReplyAgreesWithAudit
<1> QED BY <1>1, TrailInvariant, PTL


-----------------------------------------------------------------------------
(* What an outcome vouches for: whether the device was asked, and, for a    *)
(* success, that the files of the call are on disk.                         *)

-----------------------------------------------------------------------------
(* What a step adds to the log. *)

\* An emit adds to what is seen of an id nothing but its record.
LEMMA EmitSees ==
    ASSUME AuditTypeOK, NEW id \in Ids, NEW rec \in Records,
           HandlerWrites(id, rec) \/ HandlerRaises(id, rec) \/ EmitReturns(id)
    PROVE  \A r : Seen(id, r)' => Seen(id, r) \/ r = rec
<1>1. \/ UNCHANGED auditLog
      \/ \E s \in Sinks : auditLog' = Appended(s, id, rec)
  BY NextSinkType DEF HandlerWrites, HandlerRaises, EmitReturns, Sinks
<1>2. ASSUME NEW s \in Sinks, auditLog' = Appended(s, id, rec), NEW t \in Sinks, NEW r,
             InLog(t, id, r)'
      PROVE  InLog(t, id, r) \/ r = rec
  <2>1. /\ auditLog \in [Sinks -> [Ids -> Seq(Records)]]
        /\ auditLog'[s][id] = Append(auditLog[s][id], rec)
        /\ t # s => auditLog'[t][id] = auditLog[t][id]
    BY <1>2 DEF AuditTypeOK, Appended
  <2> DEFINE before == auditLog[s][id]
  <2>2. before \in Seq(Records) /\ Len(before) \in Nat
    BY <2>1
  <2>3. \A i \in 1..Len(Append(before, rec)) :
           \/ i \in 1..Len(before) /\ Append(before, rec)[i] = before[i]
           \/ Append(before, rec)[i] = rec
    BY <2>2
  <2> QED BY <1>2, <2>1, <2>3 DEF InLog
<1> QED BY <1>1, <1>2 DEF Seen, InLog

\* A step of a call adds the record it is emitting, and to other calls nothing.
LEMMA CallSees ==
    ASSUME PermissionInv, NEW c \in Calls, CallStep(c)
    PROVE  /\ \A r : Seen(c, r)' => Seen(c, r) \/ (pc[c] \in Logging /\ r = Pending(c))
           /\ \A d \in Calls : d # c => \A r : Seen(d, r)' = Seen(d, r)
<1>1. c \in Ids /\ Pending(c) \in Records /\ AuditTypeOK
  BY PendingType DEF PermissionInv, TypeOK
<1>2. \A d \in Calls : d # c => \A r : Seen(d, r)' = Seen(d, r)
  BY CallStepIsLocal, CallsAssumption DEF Seen, InLog
<1>3. CASE WriteRecord(c) \/ AuditFails(c) \/ AttemptLogged(c) \/ FailureLogged(c)
           \/ OutcomeLogged(c)
  <2>1. /\ pc[c] \in Logging
        /\ HandlerWrites(c, Pending(c)) \/ HandlerRaises(c, Pending(c)) \/ EmitReturns(c)
    BY <1>3 DEF WriteRecord, AuditFails, AttemptLogged, FailureLogged, OutcomeLogged, Logging
  <2> QED BY <1>1, <1>2, <2>1, EmitSees
<1>4. CASE UNCHANGED auditVars
  BY <1>2, <1>4 DEF auditVars, Seen, InLog
<1> QED BY <1>3, <1>4
        DEF CallStep, LookupSucceeds, LookupFails, ConnectSucceeds, ConnectFails, SendSucceeds,
            SendFails, OpenOutput, WriteOutput, SaveTranscript, BodyRaises, Disconnect,
            DisconnectRaises

\* Before its first outcome, no sink has more of a call than its permission.
LEMMA NothingSeenYet ==
    ASSUME TrailInv, NEW c \in Calls,
           pc[c] \in {"idle", "lookup", "connect", "send", "save", "write", "transcript"},
           NEW o \in Outcomes \cup {DENIED}
    PROVE  ~Seen(c, o)
<1> SUFFICES ASSUME NEW s \in Sinks, InLog(s, c, o)
             PROVE  FALSE
  BY DEF Seen
<1>1. Trail(s, c) \in {<<>>, <<ALLOWED>>}
  BY DEF TrailInv, CallTrailHeld, TrailHeld
<1>2. Len(<<>>) = 0 /\ Len(<<ALLOWED>>) = 1 /\ <<ALLOWED>>[1] = ALLOWED
  OBVIOUS
<1>3. \A i \in 1..Len(Trail(s, c)) : Trail(s, c)[i] = ALLOWED
  BY <1>1, <1>2
<1>4. o # ALLOWED
  BY DEF Outcomes, ALLOWED, DENIED
<1> QED BY <1>3, <1>4 DEF InLog, Trail

-----------------------------------------------------------------------------
(* Whether the device was asked. *)

\* The record does not contradict what was sent.
Fits(c, o) ==
    /\ o \in {DENIED, "INVENTORY_ERROR", "AUTH_FAILURE", "TIMEOUT", "SSH_ERROR"} => sends[c] = 0
    /\ o \in {"SUCCESS", "READ_TIMEOUT", "READ_ERROR", "WRITE_ERROR"} => sends[c] = 1

\* An exception that leaves the with block is one of the audit log or of the
\* file system, and is logged as ERROR.
SendsHeld(c) ==
    /\ pc[c] \in {"save", "write", "transcript", "log_success", "log_command_error",
                  "close", "unwind"} => sends[c] = 1
    /\ pc[c] = "unwind" => outcome[c] = "ERROR"
    /\ pc[c] = "log_connection_error" => sends[c] = 0 \/ outcome[c] = "ERROR"
    /\ \A o \in Outcomes \cup {DENIED} : Seen(c, o) => Fits(c, o)

SendsInv == \A c \in Calls : SendsHeld(c)

\* What is being emitted does not.
LEMMA PendingFits ==
    ASSUME TrailInv, NEW c \in Calls, SendsHeld(c), pc[c] \in Logging
    PROVE  Fits(c, Pending(c))
<1>1. /\ pc[c] \in {"log_attempt", "log_inventory"} => sends[c] = 0
      /\ pc[c] = "log_command_error" => outcome[c] \in CommandOutcomes
      /\ pc[c] = "log_connection_error" => outcome[c] \in ConnectionOutcomes
  BY DEF TrailInv, CallTrailHeld, OutcomeHeld, PermissionInv, PermissionHeld, BeforeSend
<1>2. CASE pc[c] \in {"log_attempt", "log_inventory"}
  BY <1>1, <1>2 DEF Pending, Verdict, Fits, ALLOWED, DENIED
<1>3. CASE pc[c] \in {"log_success", "log_command_error"}
  BY <1>1, <1>3 DEF SendsHeld, Pending, Fits, CommandOutcomes, CommandOutcome, DENIED
<1>4. CASE pc[c] = "log_connection_error"
  BY <1>1, <1>4 DEF SendsHeld, Pending, Fits, ConnectionOutcomes, ConnectionOutcome, DENIED
<1> QED BY <1>2, <1>3, <1>4 DEF Logging

\* A call that does not move, and of which nothing more is seen.
LEMMA OthersKeepSends ==
    ASSUME NEW d \in Calls, SendsHeld(d), pc'[d] \in {pc[d], "crashed", "log_attempt"},
           outcome'[d] = outcome[d], sends'[d] = sends[d],
           \A r : Seen(d, r)' => Seen(d, r)
    PROVE  SendsHeld(d)'
<1>1. \A o : Fits(d, o)' = Fits(d, o)
  BY DEF Fits
<1> QED BY <1>1 DEF SendsHeld

LEMMA SendsCallStep ==
    ASSUME ~DisconnectMayRaise, TrailInv, SendsInv, NEW c \in Calls, CallStep(c)
    PROVE  SendsInv'
<1>1. /\ PermissionInv /\ TypeOK /\ SendsHeld(c)
      /\ pc \in [Calls -> Points] /\ sends \in [Calls -> Nat] /\ outcome \in [Calls -> Outcomes]
      /\ pc[c] \in BeforeSend => sends[c] = 0
  BY DEF TrailInv, PermissionInv, PermissionHeld, TypeOK, SendsInv
<1>2. ASSUME NEW d \in Calls, d # c
      PROVE  SendsHeld(d)'
  <2>1. sends'[d] = sends[d]
    BY <1>1, <1>2
       DEF CallStep, WriteRecord, AuditFails, AttemptLogged, FailureLogged, OutcomeLogged,
           LookupSucceeds, LookupFails, ConnectSucceeds, ConnectFails, SendSucceeds, SendFails,
           OpenOutput, WriteOutput, SaveTranscript, BodyRaises, Disconnect, DisconnectRaises,
           deviceVars
  <2>2. pc'[d] = pc[d] /\ outcome'[d] = outcome[d] /\ \A r : Seen(d, r)' = Seen(d, r)
    BY <1>1, <1>2, CallSees, CallStepIsLocal
  <2> QED BY <2>1, <2>2, OthersKeepSends DEF SendsInv
<1>3. ASSUME sends'[c] = sends[c]
      PROVE  \A o \in Outcomes \cup {DENIED} : Seen(c, o)' => Fits(c, o)'
  <2>1. \A o : Fits(c, o)' = Fits(c, o)
    BY <1>3 DEF Fits
  <2> QED BY <1>1, <2>1, CallSees, PendingFits DEF SendsHeld
<1>4. CASE \/ \E long \in BOOLEAN : SendSucceeds(c, long)
           \/ \E e \in Raisable : SendFails(c, e)
  <2>1. /\ pc[c] = "send" /\ pc'[c] \in {"save", "transcript", "log_success", "log_command_error"}
        /\ sends'[c] = 1 /\ UNCHANGED auditVars
    BY <1>1, <1>4 DEF SendSucceeds, SendFails, AfterSave, Goto, BeforeSend
  <2>2. \A o \in Outcomes \cup {DENIED} : ~Seen(c, o)'
    BY <2>1, NothingSeenYet DEF Seen, InLog, auditVars
  <2> QED BY <1>2, <2>1, <2>2 DEF SendsInv, SendsHeld
<1>5. CASE AuditFails(c)
  BY <1>1, <1>2, <1>3, <1>5
     DEF AuditFails, Goto, OnAuditFailure, ConnectionOutcome, WithBlock, Logging, SendsInv,
         SendsHeld, deviceVars
<1>6. CASE WriteRecord(c)
  BY <1>1, <1>2, <1>3, <1>6 DEF WriteRecord, SendsInv, SendsHeld, deviceVars
<1>7. CASE AttemptLogged(c) \/ FailureLogged(c) \/ OutcomeLogged(c)
  BY <1>1, <1>2, <1>3, <1>7
     DEF AttemptLogged, FailureLogged, OutcomeLogged, Goto, SendsInv, SendsHeld, deviceVars
<1>8. CASE LookupSucceeds(c) \/ LookupFails(c) \/ ConnectSucceeds(c)
           \/ \E e \in Raisable : ConnectFails(c, e)
  BY <1>1, <1>2, <1>3, <1>8
     DEF LookupSucceeds, LookupFails, ConnectSucceeds, ConnectFails, Goto, SendsInv, SendsHeld,
         BeforeSend, deviceVars
<1>9. CASE OpenOutput(c) \/ WriteOutput(c) \/ SaveTranscript(c)
  BY <1>1, <1>2, <1>3, <1>9
     DEF OpenOutput, WriteOutput, SaveTranscript, AfterSave, Goto, SendsInv, SendsHeld, deviceVars
<1>10. CASE BodyRaises(c)
  BY <1>1, <1>2, <1>3, <1>10
     DEF BodyRaises, Goto, ConnectionOutcome, SendsInv, SendsHeld, deviceVars
<1>11. CASE Disconnect(c)
  BY <1>1, <1>2, <1>3, <1>11
     DEF Disconnect, AfterDisconnect, Goto, SendsInv, SendsHeld
<1> QED BY <1>4, <1>5, <1>6, <1>7, <1>8, <1>9, <1>10, <1>11 DEF CallStep, DisconnectRaises

LEMMA SendsStep == ~DisconnectMayRaise /\ TrailInv /\ SendsInv /\ [Next]_vars => SendsInv'
<1> SUFFICES ASSUME ~DisconnectMayRaise, TrailInv, SendsInv, [Next]_vars
             PROVE  SendsInv'
  OBVIOUS
<1>1. pc \in [Calls -> Points]
  BY DEF TrailInv, PermissionInv, TypeOK
<1>2. ASSUME NEW c \in Calls, NEW r, Start(c, r)
      PROVE  SendsInv'
  <2>1. /\ UNCHANGED <<auditLog, outcome, sends>>
        /\ \A d \in Calls : pc'[d] \in {pc[d], "log_attempt"}
    BY <1>1, <1>2 DEF Start, Goto, auditVars, deviceVars
  <2> QED BY <2>1, OthersKeepSends DEF SendsInv, Seen, InLog
<1>3. ASSUME NEW c \in Calls, CallStep(c)
      PROVE  SendsInv'
  BY <1>3, SendsCallStep
<1>4. CASE Crash
  <2>1. /\ UNCHANGED <<auditLog, outcome, sends>>
        /\ \A d \in Calls : pc'[d] \in {pc[d], "crashed"}
    BY <1>4 DEF Crash, CrashCalls, EmitsCrash
  <2> QED BY <2>1, OthersKeepSends DEF SendsInv, Seen, InLog
<1>5. CASE Tick \/ UNCHANGED vars
  <2>1. UNCHANGED <<auditLog, outcome, sends, pc>>
    BY <1>5 DEF Tick, vars, auditVars, deviceVars
  <2> QED BY <2>1, OthersKeepSends DEF SendsInv, Seen, InLog
<1> QED BY <1>2, <1>3, <1>4, <1>5 DEF Next, Quiet, SendShowCommand

\* While disconnect() does not raise, whatever else does: an outcome of a
\* connection means that the command was not sent, and one of a command that
\* it was, whoever reads the log and whenever.
THEOREM OutcomeTellsWhetherSentCorrect ==
    ASSUME ~DisconnectMayRaise
    PROVE  Spec => []OutcomeTellsWhetherSent
<1>1. Init => SendsInv
  <2> SUFFICES ASSUME Init, NEW c \in Calls
               PROVE  SendsHeld(c)
    BY DEF SendsInv
  <2>1. pc[c] = "idle"
    BY DEF Init
  <2>2. \A o \in Outcomes \cup {DENIED} : ~Seen(c, o)
    BY <2>1, TrailInit, NothingSeenYet
  <2> QED BY <2>1, <2>2 DEF SendsHeld
<1>2. TrailInv /\ SendsInv /\ [Next]_vars => SendsInv'
  BY SendsStep
<1>3. Spec => []SendsInv
  BY <1>1, <1>2, TrailInvariant, PTL DEF Spec
<1>4. SendsInv => OutcomeTellsWhetherSent
  BY DEF SendsInv, SendsHeld, Fits, OutcomeTellsWhetherSent
<1> QED BY <1>3, <1>4, PTL

-----------------------------------------------------------------------------
(* What a success vouches for. *)

\* The output of c is in its file, or another call chose that file.
Safe(c) == savedAs[c] # <<>> => Intact(savedAs[c], c) \/ \E d \in Calls : Twins(c, d)

\* The file of c is as empty as when c opened it, or another call chose it.
Blank(c) == outputs[savedAs[c]] = {} \/ \E d \in Calls : Twins(c, d)

\* What was to be saved is on disk.
Durable(c) ==
    /\ ReadTranscript => c \in transcripts
    /\ request[c].save_output => savedAs[c] # <<>>
    /\ Safe(c)

\* A call has no file before it opens one.  The one it opened stays empty until
\* it writes, and is not opened again, unless by a call that chose it too.
DurableHeld(c) ==
    /\ pc[c] \in {"idle", "log_attempt", "lookup", "connect", "send", "save"} => savedAs[c] = <<>>
    /\ pc[c] = "write" => savedAs[c] # <<>> /\ Blank(c)
    /\ pc[c] = "transcript" => Safe(c) /\ (request[c].save_output => savedAs[c] # <<>>)
    /\ pc[c] = "log_success" => Durable(c)
    /\ Seen(c, "SUCCESS") => Durable(c)

DurableInv == \A c \in Calls : DurableHeld(c)

\* Files are chosen once, and what d chose is touched only by those that chose
\* it too.
OthersSave(d) ==
    /\ savedAs'[d] = savedAs[d]
    /\ \A e \in Calls : savedAs[e] # <<>> => savedAs'[e] = savedAs[e]
    /\ \/ UNCHANGED outputs
       \/ \E e \in Calls : \E name, content :
             /\ e # d /\ savedAs'[e] = name
             /\ outputs' = WithContent(name, content)

LEMMA OthersKeepSafe ==
    ASSUME NEW d \in Calls, OthersSave(d)
    PROVE  /\ Safe(d) => Safe(d)'
           /\ savedAs[d] # <<>> /\ savedAs[d] \in DOMAIN outputs /\ Blank(d) => Blank(d)'
<1>1. (\E e \in Calls : Twins(d, e)) /\ savedAs[d] # <<>> => (\E e \in Calls : Twins(d, e))'
  BY DEF OthersSave, Twins
<1>2. \/ (\E e \in Calls : Twins(d, e))'
      \/ UNCHANGED outputs
      \/ \E name, content : name # savedAs[d] /\ outputs' = WithContent(name, content)
  BY DEF OthersSave, Twins
<1>3. savedAs[d] \in DOMAIN outputs =>
         \/ (\E e \in Calls : Twins(d, e))'
         \/ savedAs[d] \in DOMAIN outputs' /\ outputs'[savedAs[d]] = outputs[savedAs[d]]
  BY <1>2 DEF WithContent
<1>4. Safe(d) => Safe(d)'
  BY <1>1, <1>3 DEF OthersSave, Safe, Intact
<1>5. savedAs[d] # <<>> /\ savedAs[d] \in DOMAIN outputs /\ Blank(d) => Blank(d)'
  BY <1>1, <1>3 DEF OthersSave, Blank
<1> QED BY <1>4, <1>5

\* What is written to a blank file is safe there.
LEMMA WrittenIsSafe ==
    ASSUME NEW c \in Calls, savedAs[c] \in DOMAIN outputs, Blank(c), UNCHANGED savedAs,
           WriteFile(savedAs[c], c)
    PROVE  Safe(c)'
<1>1. PICK kept \in SUBSET outputs[savedAs[c]] :
           outputs' = WithContent(savedAs[c], kept \cup {c})
  BY DEF WriteFile
<1>2. CASE outputs[savedAs[c]] = {}
  BY <1>1, <1>2 DEF Safe, Intact, WithContent
<1>3. CASE \E d \in Calls : Twins(c, d)
  BY <1>3 DEF Safe, Twins
<1> QED BY <1>2, <1>3 DEF Blank

\* A call that keeps its place and its files, while others open and write
\* theirs.
LEMMA OthersKeepDurable ==
    ASSUME NEW d \in Calls, DurableHeld(d), Linked, OthersSave(d),
           pc'[d] \in {pc[d], "crashed"}, request'[d] = request[d],
           transcripts \subseteq transcripts', Seen(d, "SUCCESS")' => Seen(d, "SUCCESS")
    PROVE  DurableHeld(d)'
<1>1. (Safe(d) => Safe(d)') /\ (pc[d] = "write" => Blank(d)')
  BY OthersKeepSafe DEF DurableHeld, Linked
<1>2. Durable(d) => Durable(d)'
  BY <1>1 DEF OthersSave, Durable
<1> QED BY <1>1, <1>2 DEF DurableHeld, OthersSave

LEMMA DurableCallStep ==
    ASSUME TrailInv, DurableInv, NEW c \in Calls, CallStep(c)
    PROVE  DurableInv'
<1>1. /\ PermissionInv /\ TypeOK /\ Linked /\ DurableHeld(c) /\ StoreTypeOK
      /\ pc \in [Calls -> Points] /\ savedAs \in [Calls -> FileNames \cup {<<>>}]
      /\ request' = request
  BY CallStepIsLocal DEF TrailInv, PermissionInv, TypeOK, DurableInv
<1>2. \A d \in Calls : d # c => /\ pc'[d] = pc[d] /\ savedAs'[d] = savedAs[d]
                                /\ \A r : Seen(d, r)' = Seen(d, r)
  BY <1>1, CallSees, CallStepIsLocal
<1>3. transcripts \subseteq transcripts'
  BY DEF CallStep, WriteRecord, AuditFails, AttemptLogged, FailureLogged, OutcomeLogged,
         LookupSucceeds, LookupFails, ConnectSucceeds, ConnectFails, SendSucceeds, SendFails,
         OpenOutput, WriteOutput, SaveTranscript, BodyRaises, Disconnect, DisconnectRaises,
         resultVars
<1>4. ASSUME savedAs[c] # <<>> => savedAs'[c] = savedAs[c],
             \/ UNCHANGED outputs
             \/ \E content : outputs' = WithContent(savedAs'[c], content),
             NEW d \in Calls, d # c
      PROVE  DurableHeld(d)'
  <2>1. OthersSave(d)
    BY <1>2, <1>4 DEF OthersSave
  <2> QED BY <1>1, <1>2, <1>3, <1>4, <2>1, OthersKeepDurable DEF DurableInv
<1>5. pc[c] \notin Logging => (Seen(c, "SUCCESS")' => Seen(c, "SUCCESS"))
  BY <1>1, CallSees
<1>6. pc[c] \in {"lookup", "connect", "send", "save", "write", "transcript"} =>
         ~Seen(c, "SUCCESS")
  BY NothingSeenYet DEF Outcomes
<1>7. ASSUME UNCHANGED <<outputs, savedAs>>
      PROVE  Safe(c)' = Safe(c)
  BY <1>7 DEF Safe, Intact, Twins
<1>8. ASSUME UNCHANGED <<outputs, savedAs, transcripts>>
      PROVE  Durable(c)' = Durable(c)
  BY <1>1, <1>7, <1>8 DEF Durable
<1>9. CASE OpenOutput(c)
  <2> DEFINE name == FileNameOf(request[c].device, request[c].command)
  <2>1. /\ pc[c] = "save" /\ pc'[c] = "write" /\ savedAs[c] = <<>> /\ savedAs'[c] = name
        /\ outputs' = WithContent(name, {})
    BY <1>1, <1>9 DEF OpenOutput, Goto, TruncateFile, DurableHeld
  <2>2. name # <<>> /\ outputs'[name] = {}
    BY <2>1 DEF FileNameOf, WithContent
  <2>3. DurableHeld(c)'
    BY <1>5, <1>6, <2>1, <2>2 DEF DurableHeld, Blank, Logging
  <2> QED BY <1>4, <2>1, <2>3 DEF DurableInv
<1>10. CASE WriteOutput(c)
  <2>1. /\ pc[c] = "write" /\ pc'[c] = AfterSave /\ UNCHANGED <<savedAs, transcripts>>
        /\ savedAs[c] # <<>> /\ savedAs[c] \in DOMAIN outputs
    BY <1>1, <1>10 DEF WriteOutput, Goto, resultVars, DurableHeld, Linked
  <2>2. WriteFile(savedAs[c], c) /\ Blank(c)
    BY <1>1, <1>10, <2>1 DEF WriteOutput, DurableHeld
  <2>3. \E content : outputs' = WithContent(savedAs[c], content)
    BY <2>2 DEF WriteFile
  <2>4. Safe(c)'
    BY <2>1, <2>2, WrittenIsSafe
  <2>5. DurableHeld(c)'
    BY <1>5, <1>6, <2>1, <2>4 DEF DurableHeld, Durable, AfterSave, Logging
  <2> QED BY <1>4, <2>1, <2>3, <2>5 DEF DurableInv
<1>11. CASE SaveTranscript(c)
  <2>1. /\ pc[c] = "transcript" /\ pc'[c] = "log_success" /\ UNCHANGED <<savedAs, outputs>>
        /\ c \in transcripts'
    BY <1>1, <1>11 DEF SaveTranscript, Goto, storeVars
  <2>2. DurableHeld(c)'
    BY <1>1, <1>5, <1>6, <1>7, <2>1 DEF DurableHeld, Durable, Logging
  <2> QED BY <1>4, <2>1, <2>2 DEF DurableInv
<1>12. CASE \E long \in BOOLEAN : SendSucceeds(c, long)
  <2>1. PICK long \in BOOLEAN : SendSucceeds(c, long)
    BY <1>12
  <2>2. /\ pc[c] = "send" /\ UNCHANGED <<savedAs, outputs, transcripts>> /\ savedAs[c] = <<>>
        /\ pc'[c] = IF MustSave(request[c], long) THEN "save" ELSE AfterSave
    BY <1>1, <2>1 DEF SendSucceeds, Goto, storeVars, resultVars, DurableHeld
  <2>3. DurableHeld(c)'
    BY <1>1, <1>5, <1>6, <2>2 DEF DurableHeld, Durable, Safe, MustSave, AfterSave, Logging
  <2> QED BY <1>4, <2>2, <2>3 DEF DurableInv
<1>13. CASE \/ WriteRecord(c) \/ AuditFails(c) \/ AttemptLogged(c) \/ FailureLogged(c)
            \/ OutcomeLogged(c)
  <2>1. /\ UNCHANGED <<savedAs, outputs, transcripts>> /\ pc[c] \in Logging
        /\ pc'[c] = pc[c] \/ pc'[c] \in {"unwind", "raised", "done", "close"}
           \/ (pc[c] = "log_attempt" /\ pc'[c] = "lookup")
    BY <1>1, <1>13
       DEF WriteRecord, AuditFails, AttemptLogged, FailureLogged, OutcomeLogged, Goto,
           OnAuditFailure, Logging, storeVars, resultVars
  <2>2. Seen(c, "SUCCESS")' => Durable(c)
    <3>1. Seen(c, "SUCCESS")' => Seen(c, "SUCCESS") \/ Pending(c) = "SUCCESS"
      BY <1>1, CallSees
    <3>2. Pending(c) = "SUCCESS" => pc[c] = "log_success"
      BY <2>1 DEF Pending, Verdict, Logging, ALLOWED, DENIED, TrailInv, CallTrailHeld,
             OutcomeHeld, CommandOutcomes, CommandOutcome, ConnectionOutcomes, ConnectionOutcome
    <3> QED BY <1>1, <3>1, <3>2 DEF DurableHeld
  <2>3. DurableHeld(c)'
    BY <1>1, <1>7, <1>8, <2>1, <2>2 DEF DurableHeld, Logging
  <2> QED BY <1>4, <2>1, <2>3 DEF DurableInv
<1>14. CASE \/ LookupSucceeds(c) \/ LookupFails(c) \/ ConnectSucceeds(c)
            \/ \E e \in Raisable : ConnectFails(c, e)
            \/ \E e \in Raisable : SendFails(c, e)
            \/ BodyRaises(c) \/ Disconnect(c)
            \/ \E e \in Raisable : DisconnectRaises(c, e)
  <2>1. /\ UNCHANGED <<savedAs, outputs, transcripts>> /\ pc[c] \notin Logging
        /\ \/ pc'[c] \in {"log_inventory", "raised", "log_connection_error", "log_command_error",
                          "unwind", "done"}
           \/ (pc[c] \in {"lookup", "connect"} /\ pc'[c] \in {"connect", "send"})
    BY <1>1, <1>14
       DEF LookupSucceeds, LookupFails, ConnectSucceeds, ConnectFails, SendFails, BodyRaises,
           Disconnect, DisconnectRaises, AfterDisconnect, Goto, Logging, storeVars, resultVars
  <2>2. DurableHeld(c)'
    BY <1>1, <1>5, <1>8, <2>1 DEF DurableHeld
  <2> QED BY <1>4, <2>1, <2>2 DEF DurableInv
<1> QED BY <1>9, <1>10, <1>11, <1>12, <1>13, <1>14 DEF CallStep

LEMMA DurableStep == TrailInv /\ DurableInv /\ [Next]_vars => DurableInv'
<1> SUFFICES ASSUME TrailInv, DurableInv, [Next]_vars
             PROVE  DurableInv'
  OBVIOUS
<1>1. /\ pc \in [Calls -> Points] /\ Linked
      /\ request \in [Calls -> Requests \cup {NoRequest}]
  BY DEF TrailInv, PermissionInv, TypeOK
<1>2. ASSUME NEW c \in Calls, NEW r, Start(c, r)
      PROVE  DurableInv'
  <2>1. /\ UNCHANGED <<auditLog, outputs, savedAs, transcripts>>
        /\ pc[c] = "idle" /\ pc'[c] = "log_attempt"
        /\ \A d \in Calls : d # c => pc'[d] = pc[d] /\ request'[d] = request[d]
    BY <1>1, <1>2 DEF Start, Goto, auditVars, storeVars, resultVars
  <2>2. \A d, r2 : Seen(d, r2)' = Seen(d, r2)
    BY <2>1 DEF Seen, InLog
  <2>3. ASSUME NEW d \in Calls, d # c
        PROVE  DurableHeld(d)'
    BY <1>1, <2>1, <2>2, <2>3, OthersKeepDurable DEF DurableInv, OthersSave
  <2>4. ~Seen(c, "SUCCESS")
    BY <2>1, NothingSeenYet DEF Outcomes
  <2>5. DurableHeld(c)'
    BY <2>1, <2>2, <2>4 DEF DurableInv, DurableHeld
  <2> QED BY <2>3, <2>5 DEF DurableInv
<1>3. ASSUME NEW c \in Calls, CallStep(c)
      PROVE  DurableInv'
  BY <1>3, DurableCallStep
<1>4. CASE Crash \/ Tick \/ UNCHANGED vars
  <2>1. /\ UNCHANGED <<auditLog, request, savedAs, transcripts, outputs>>
        /\ \A d \in Calls : pc'[d] \in {pc[d], "crashed"}
    BY <1>4 DEF Crash, CrashCalls, EmitsCrash, Tick, ClockTicks, vars, auditVars, storeVars,
                resultVars
  <2>2. \A d, r : Seen(d, r)' = Seen(d, r)
    BY <2>1 DEF Seen, InLog
  <2> QED BY <1>1, <2>1, <2>2, OthersKeepDurable DEF DurableInv, OthersSave
<1> QED BY <1>2, <1>3, <1>4 DEF Next, Quiet, SendShowCommand

\* A success in some sink vouches for the transcript and for the saved output,
\* wherever the process died after it, and however many calls save at once; only
\* a call that chose the same file can have touched it.
THEOREM SuccessIsDurableCorrect == Spec => []SuccessIsDurable
<1>1. Init => DurableInv
  <2> SUFFICES ASSUME Init, NEW c \in Calls
               PROVE  DurableHeld(c)
    BY DEF DurableInv
  <2>1. pc[c] = "idle" /\ savedAs[c] = <<>>
    BY DEF Init
  <2>2. ~Seen(c, "SUCCESS")
    BY <2>1, TrailInit, NothingSeenYet DEF Outcomes
  <2> QED BY <2>1, <2>2 DEF DurableHeld
<1>2. Spec => []DurableInv
  BY <1>1, DurableStep, TrailInvariant, PTL DEF Spec
<1>3. DurableInv => SuccessIsDurable
  BY DEF DurableInv, DurableHeld, Durable, Safe, SuccessIsDurable
<1> QED BY <1>2, <1>3, PTL

=============================================================================
