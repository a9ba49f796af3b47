SPECIFICATION Spec
CONSTANTS
    Calls = {c1, c2}
    Ids = {c1, c2}
    Devices = {"sw1", "sw2"}
    Commands <- MCCommands
    Permitted <- MCPermitted
    SafeName <- MCSafeName
    MaxClock = 1
    AuditEnabled = TRUE
    Destination = "file"
    ReadTranscript = TRUE
    Raisable <- MCRaisable
    DisconnectMayRaise = FALSE
    NoRequest = NoRequest
    MaxCrashes = 1
SYMMETRY CallSymmetry
INVARIANTS
    OutcomeTellsWhetherSent
    SuccessIsDurable
    FilesHoldTheirOutput
