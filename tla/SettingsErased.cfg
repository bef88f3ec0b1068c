SPECIFICATION Spec
CONSTANTS
    Callers <- TwoOfWeb
    ProcessOf <- ByName
    PoolSize = 2
    MaxAttempts = 2
    GeneralKept = 1
    ProtectedKept = 1
    MaxCalls = 2
    MaxTroubles = 1
    Split = TRUE
    Titles = {"a"}
    Starts = {3, 4}
    Life = 3
    RefreshWindow = 2
    HealEvery = 2
    SyncEvery = 2
    WriteEvery = 2
    MaxClock = 3
    MaxIssued = 6
    MaxEvents = 2
    Containers = {"web", "worker"}
    BootAttempts = 2
    MaxSetbacks = 1
PROPERTIES
    UnreadableConfigSurvives
CHECK_DEADLOCK FALSE
