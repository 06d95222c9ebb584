CONSTANTS
    NumEntries = 2
    NumExits = 2
    ParentEntry <- Parents
    Answers <- AnswersHere
    CycleLimit = 2
    MaxCrashes = 1
    MaxMishaps = 1
    NONE = NONE
SPECIFICATION Spec
INVARIANTS
    TypeOK
    CursorsTellBridged
    VerdictFollowsJournal
    ExitsFollowParent
    AbortsExplained
PROPERTY EverythingObserved
