CONSTANTS
    Signatures <- SignaturesHere
    Payloads <- PayloadsHere
    Chain <- ChainHere
    BatchSize = 1
    Patience = 1
    MaxSpan = 2
    ConfirmLimit = 1
    DeepLimit = 0
    MaxFaults = 2
    NONE = NONE
CHECK_DEADLOCK FALSE
SPECIFICATION Spec
INVARIANTS
    TypeOK
    GapsCovered
    EnrichedAfterSettled
    CleanMeansComplete
PROPERTY JobsFinish
