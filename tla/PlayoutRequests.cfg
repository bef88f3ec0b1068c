\* Requests and votes that arrive while a cycle runs; stops that miss their deadline, a lost
\* destination, a refused write.
SPECIFICATION Spec
CONSTANTS
    None = None
    Assets = {a1, a2}
    Actions = {"restart", "skip", "pin", "move_next", "remove_next", "refresh"}
    ViewersVote = TRUE
    MayLoseDestination = TRUE
    MaxPresses = 1
    MaxProcs = 2
    MaxOutages = 1
SYMMETRY AssetSymmetry
INVARIANTS
    OneEncoder
    RowDescribesAir
PROPERTIES
    RestartIsHonoured
