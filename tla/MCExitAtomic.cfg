SPECIFICATION Spec
CONSTANTS
    NumTracks = 2
    Mode <- MCMode
    Target <- MCTarget
    Giveback <- MCGiveback
    Fallback <- MCFallback
    SignalAt = 0
    OpenAt = 1
    Latency = 1
    Returns = {1, 2, 3}
    MaxTime = 4
    MaxItems = 3
    MaxCrashes = 2
    Atomic = TRUE
INVARIANTS
    ExitRuleFollowed
    AcceptedExitFills
PROPERTIES
    FallbackEnds
