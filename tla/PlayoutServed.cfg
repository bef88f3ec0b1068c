\* Every request is served in the end.
SPECIFICATION FairSpec
CONSTANTS
    None = None
    Assets = {a1, a2}
    Actions = {"restart", "refresh"}
    ViewersVote = FALSE
    MayLoseDestination = FALSE
    MaxPresses = 1
    MaxProcs = 1
    MaxOutages = 1
PROPERTIES
    RequestsAreServed
