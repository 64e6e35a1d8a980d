SPECIFICATION Spec
CONSTANTS
    MaxBlock = 2
    Concurrency = {1}
    MaxRuns = 1
INVARIANT
    LatestIsExported
CHECK_DEADLOCK FALSE
