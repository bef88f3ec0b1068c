\* A Skip pressed while a cycle carries out a Refresh.
SPECIFICATION Spec
CONSTANTS
    None = None
    Assets = {a1, a2}
    Actions = {"skip", "refresh"}
    ViewersVote = FALSE
    MayLoseDestination = FALSE
    MaxPresses = 2
    MaxProcs = 1
    MaxOutages = 0
SYMMETRY AssetSymmetry
PROPERTIES
    SkipMovesOn
