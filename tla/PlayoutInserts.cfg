\* Play now, the Live Bridge and Refresh, pressed in any order while cycles run.  Not Move next and
\* no refused write: with either, a second selection leaves an insert that has ended (README, 6.2).
SPECIFICATION Spec
CONSTANTS
    None = None
    Assets = {a1, a2}
    Actions = {"play_now", "resume", "bridge_start", "bridge_release", "refresh"}
    ViewersVote = FALSE
    MayLoseDestination = FALSE
    MaxPresses = 3
    MaxProcs = 1
    MaxOutages = 0
SYMMETRY AssetSymmetry
INVARIANTS
    TypeOK
PROPERTIES
    NewerInsertStands
    InsertsEndOnce
    ReleaseSticks
    RequestedNotLost
