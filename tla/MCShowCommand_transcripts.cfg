SPECIFICATION Spec
CONSTANTS
    Calls = {c1}
    Ids = {c1}
    Devices = {"sw1"}
    Commands <- OneCommand
    Permitted <- OneCommand
    SafeName <- OneSafeName
    MaxClock = 0
    AuditEnabled = TRUE
    Destination = "file"
    ReadTranscript = TRUE
    Raisable <- Exceptions
    DisconnectMayRaise = FALSE
    NoRequest = NoRequest
    MaxCrashes = 0
INVARIANTS
    EverySessionTranscribed
