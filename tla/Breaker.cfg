\* Three failures of two items, a refused or half-answered write, a close or a delete.
SPECIFICATION FairSpec
CONSTANTS
    Items = {i1, i2}
    Threshold = 2
    BaseCooldown = 2
    MaxCooldown = 3
    QueueSize = 2
    CarryLimit = 1
    MaxFailures = 3
    MaxTroubles = 1
    MaxRequests = 2
INVARIANTS
    TypeOK
    DeletedStaysGone
PROPERTIES
    TroublesEnd
    HoldIsServed
    OpensAfresh
    RecoveryAvoidsHeld
    ImplementsBreaker
    IncidentMatchesHold
