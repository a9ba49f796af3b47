SPECIFICATION FairSpec
CONSTANTS
    Ids = {"i1", "i2"}
    AuditEnabled = TRUE
    Destination = "both"
    Versions = {"v1", "v2"}
    AllowedOk = {"v1", "v2"}
    DeniedOk = {"v1"}
    Permitting = {"v1", "v2"}
    Environments <- MCEnvironments
    SettingsFiles <- MCSettingsFiles
    Requests <- MCRequests
    MaxStarts = 2
    MaxEdits = 1
INVARIANTS
    TypeOK
    EditsWaitForRestart
    UneditedMeansValidated
    MisconfiguredRunsNothing
    QueriesAreAudited
    ServesWhatWasConfigured
    OnlyBearersPass
PROPERTIES
    CallsEnd
