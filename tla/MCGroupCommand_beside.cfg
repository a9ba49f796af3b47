SPECIFICATION GroupSpec
CONSTANTS
    MCDevices = {"sw1"}
    MCGroups = {g1}
    Singles = {c1}
    Devices <- MCDevices
    Groups <- MCGroups
    Calls <- MCCalls
    Ids <- MCIds
    Commands = {"show version", "reload"}
    Permitted = {"show version"}
    SafeName <- MCSafeName
    MaxClock = 1
    WorkerSettings = {0, 1}
    AuditEnabled = TRUE
    Destination = "file"
    ReadTranscript = FALSE
    Raisable = {"SSHException"}
    DisconnectMayRaise = FALSE
    NoRequest = NoRequest
    MaxCrashes = 1
INVARIANTS
    GroupFilesIntact
PROPERTIES
    GateSpec
