SPECIFICATION FairSpec
CONSTANTS
    MaxHandlers = 2
    Pages = {b}
    t1 = t1
    t2 = t2
    t3 = t3
    Txns <- MCTxns
    MaxBlock = 2
    ListSize = 2
    TableSize = 2
    MaxRequests = 2
    MaxFaults = 1
    MaxLoads = 2
INVARIANTS
    TypeOK
    NoRelapse
    ListInOrder
    TableLatest
PROPERTIES
    PostedIsShown
CHECK_DEADLOCK FALSE
