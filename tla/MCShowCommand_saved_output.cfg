SPECIFICATION Spec
CONSTANTS
    Calls = {c1, c2}
    Ids = {c1, c2}
    Devices = {"sw1"}
    Commands <- MCCommands
    Permitted <- MCPermitted
    SafeName <- MCSafeName
    MaxClock = 0
    AuditEnabled = TRUE
    Destination = "file"
    ReadTranscript = FALSE
    Raisable <- MCRaisable
    DisconnectMayRaise = FALSE
    NoRequest = NoRequest
    MaxCrashes = 0
SYMMETRY CallSymmetry
INVARIANTS
    SavedOutputIntact
