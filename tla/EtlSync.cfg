SPECIFICATION FairSpec
CONSTANTS
    MaxBlock = 4
    Concurrency = {1, 2, 3}
    MaxRuns = 2
INVARIANTS
    TypeOK
    SavedUpToCurrent
    SuccessIsComplete
PROPERTIES
    OnlyItsBatch
    RunEnds
CHECK_DEADLOCK FALSE
