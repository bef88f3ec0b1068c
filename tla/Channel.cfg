SPECIFICATION Spec
CONSTANTS
    SlotsPerDay = 4
    DaysPerWeek = 2
    SwitchAt = 8
    SwitchBy = 2
    BlockIds = {1, 2, 3, 4}
    Grids <- DatedGrids
    SavedGrid <- WeekGrid
    LastSlot = 11
    LastEdit = 4
    MaxEdits = 2
    MaxHolds = 1
    Lanes <- TwoLanes
    OnDisk = {"a1"}
    ItemLength = 3
    RewindUnits = 1
    MinAired = 2
    MinRemaining = 1
    MaxShortStarts = 1
    FirstPointers = {"a1"}
    Watched = {"a1"}
    MaxHeld = 1
    MaxCuts = 2
    MaxBreaks = 1
    d1 = d1
    d2 = d2
    Destinations = {d1, d2}
    RoleOf <- Roles
    ProfileOf <- OneProfile
    StartGrace = 1
    FreezeAfter = 1
    NeverAfter = 1
    StallAfter = 1
    Cooldown = 1
    FirstPause = 1
    MaxPause = 2
    Quiet = 3
    ReconnectGrace = 2
    ReconnectEvery = 4
    ReconnectFor = 2
    MaxTime = 4
    MaxTurns = 2
    MaxRuns = 2
    MaxNow = 2
    MaxRefused = 1
    Retention = 1
    YouTube <- TwoOfYouTube
    Twitch <- TwoOfTwitch
    Timeout = 2
    Budget = 4
    PauseFor = 1
    MaxStepBreaks = 1
    RecheckCap = 2
    AlertAfter = 2
    Protection = 1
    MaxWrites = 2
    Programme <- ThreeItems
    Viewers = {"u", "v"}
    Offers <- OffersTried
    SkipMinimum = 2
    VoteMinimum = 1
    RequestLimit = 1
    Nobody = "nobody"
    MaxInputs <- InputsByOffer
INVARIANTS
    TypesOK
    DatedBlocksKeepTheirTime
    ContinuationsEnd
    WatchdogKeepsMeasure
    RunsDoNotOverlap
    NoSourceStarves
    RequestsAreRationed
PROPERTIES
    WeekIsClear
    CuepointsFireOnce
    TurnsAreDue
    EditedChaptersStand
    SyncsTakeNothingAway
    VotesCutTheirItem
CHECK_DEADLOCK FALSE
