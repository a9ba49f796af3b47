SPECIFICATION GroupFairSpec
CONSTANTS
    MCDevices = {"sw1", "sw2"}
    MCGroups = {g1}
    Singles = {}
    Devices <- MCDevices
    Groups <- MCGroups
    Calls <- MCCalls
    Ids <- MCIds
    Commands = {"show version", "reload"}
    Permitted = {"show version"}
    SafeName <- MCSafeName
    MaxClock = 0
    WorkerSettings = {0, 1, 2}
    AuditEnabled = TRUE
    Destination = "both"
    ReadTranscript = FALSE
    Raisable = {"SSHException", "Exception"}
    DisconnectMayRaise = TRUE
    NoRequest = NoRequest
    MaxCrashes = 1
INVARIANTS
    GroupTypeOK
    EachDeviceItsResult
    DenialIsVisible
    RaisedLeavesNothing
    ResultsAreAudited
    GroupFilesIntact
PROPERTIES
    GroupTerminates
