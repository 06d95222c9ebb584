SPECIFICATION Spec
CONSTANTS
    NumRoles = 2
    Feed <- MCFeed
    Ticks <- MCTicks
    BatchSize = 2
    Driver = "DRAIN"
    Modes = {TRUE, FALSE}
    MaxRows = 2
    MaxTimers = 2
    MaxCrashes = 2
INVARIANTS
    TypeOK
    NeverRaises
    CausalOrder
    NothingLost
    OneWinner
PROPERTIES
    DrainEnds
    FencePromised
CHECK_DEADLOCK FALSE
