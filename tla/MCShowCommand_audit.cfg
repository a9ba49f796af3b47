SPECIFICATION FairSpec
CONSTANTS
    Calls = {c1}
    Ids = {c1}
    Devices = {"sw1"}
    Commands <- MCCommands
    Permitted <- MCPermitted
    SafeName <- MCSafeName
    MaxClock = 0
    AuditEnabled = TRUE
    Destination = "both"
    ReadTranscript = TRUE
    Raisable <- Exceptions
    DisconnectMayRaise = TRUE
    NoRequest = NoRequest
    MaxCrashes = 1
INVARIANTS
    TypeOK
    NoUnauditedExecution
    OutcomeTrail
    ReplyAgreesWithAudit
    SessionReleased
PROPERTIES
    GateSpec
    CallTerminates
