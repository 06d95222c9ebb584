SPECIFICATION Spec
CONSTANTS
    NumTracks = 3
    Window <- MCWindow
    SignalAt = 1
    Latency = 1
    MaxTime = 5
    MaxItems = 3
    MaxCrashes = 1
    RunnerRestart = TRUE
INVARIANT
    RestartRebinds
CHECK_DEADLOCK FALSE
