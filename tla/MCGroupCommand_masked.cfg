SPECIFICATION GroupSpec
CONSTANTS
    MCDevices = {"sw1", "sw2"}
    MCGroups = {g1}
    Singles = {}
    Devices <- MCDevices
    Groups <- MCGroups
    Calls <- MCCalls
    Ids <- MCIds
    Commands = {"show version", "reload"}
    Permitted = {"show version"}
    SafeName <- MCSafeName
    MaxClock = 0
    WorkerSettings = {1}
    AuditEnabled = TRUE
    Destination = "file"
    ReadTranscript = FALSE
    Raisable = {"SSHException"}
    DisconnectMayRaise = FALSE
    NoRequest = NoRequest
    MaxCrashes = 0
INVARIANTS
    SaveNeverMasksError
