SPECIFICATION Spec
CONSTANTS
    Lines = {1, 2}
    Ring = 2
    Stored = 1
    MaxFaults = 1
    Stages = 2
    RelayAfter = 1
    ExitAfter = 2
    MaxChanges = 3
    Vods = {"a", "b"}
    Pieces = 2
    Cooldown = 1
    StaleAfter = 1
    MaxMishaps = 1
    BurstLimit = 3
    MinInterval = 2
    MaxLines = 3
INVARIANTS
    TypesOK
PROPERTIES
    ChatLeavesTheAir
    IncidentsEndWithTheirCause
    DownloadsFinish
    NothingAskedIsLost
CHECK_DEADLOCK FALSE
