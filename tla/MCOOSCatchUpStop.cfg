SPECIFICATION Spec
CONSTANTS
    Launchers <- OneLauncher
    BatchSize = 1
    MaxSegments = 2
    MaxRows = 2
    MaxExtensions = 0
    MaxMishaps = 0
INVARIANTS
    HealthyRunSurvives
CHECK_DEADLOCK FALSE
