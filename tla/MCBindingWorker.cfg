SPECIFICATION Spec
CONSTANTS
    NumRoles = 2
    Feed <- MCFeed
    Ticks <- MCTicks
    BatchSize = 2
    Driver = "GRACEFUL"
    Modes = {TRUE}
    MaxRows = 2
    MaxTimers = 2
    MaxCrashes = 1
PROPERTIES
    DrainEnds
CHECK_DEADLOCK FALSE
