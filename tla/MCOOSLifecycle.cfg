SPECIFICATION Spec
CONSTANTS
    Launchers <- TwoLaunchers
    BatchSize = 1
    MaxSegments = 2
    MaxRows = 2
    MaxExtensions = 1
    MaxMishaps = 1
INVARIANTS
    TypeOK
    OneWriter
    StateVerifies
    HandoffAgrees
    WithinWindow
    FailsOnlyOnStaleCount
PROPERTIES
    DanglingResolves
CHECK_DEADLOCK FALSE
