SPECIFICATION Spec
CONSTANTS
    NumTracks = 3
    Window <- MCWindow
    SignalAt = 1
    Latency = 1
    MaxTime = 5
    MaxItems = 6
    MaxCrashes = 3
    RunnerRestart = FALSE
INVARIANTS
    TypeOK
    LedgerFollowsLifecycle
    NeverRaises
    ReplayDeterminism
    AuditedByCommit
    Inductive
PROPERTIES
    EntryPromised
    EntryEnds
CHECK_DEADLOCK FALSE
