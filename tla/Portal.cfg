SPECIFICATION Spec
CONSTANTS
    None = None
    NoNumber = NoNumber
    alice = alice
    bob = bob
    b1 = b1
    b2 = b2
    b3 = b3
    x1 = x1
    x2 = x2
    x3 = x3
    x4 = x4
    Numbers = {1, 2, 3}
    Transactions <- MCTransactions
    Traces <- MCTraces
    Assets <- MCAssets
    BalanceRows <- MCBalanceRows
    BlockHash <- MCBlockHash
    Now = 4
    DefaultLimit = 2
    MaxLimit = 3
    Addresses = {alice}
    Filters <- MCFilters
    Flights = {f1, f2}
    UserPages <- MCUserPages
    MaxPage = 5
    PageSize = 1
    DetailSize = 1
    Period <- MCPeriod
CONSTRAINT Focus
INVARIANTS
    TypeOK
    ListsAreWhole
    DetailAgrees
    SearchLands
    ChartNotStale
CHECK_DEADLOCK FALSE
