SPECIFICATION Spec
CONSTANTS
    None = None
    w1 = w1
    w2 = w2
    t1 = t1
    t2 = t2
    t3 = t3
    b1 = b1
    b2 = b2
    gen1 = gen1
    gen2 = gen2
    Starter = starter
    RT = rt
    Workers = {w1, w2}
    Oids = {t1, t2}
    Blocks = {b1}
    Priorities = {1}
    Generators = {gen1}
    Clients = {gen1, rt}
    RealTimeEnabled = TRUE
    MaxOrders = 3
    MaxFaults = 1
    MaxStarts = 2
SYMMETRY MCSymmetry
INVARIANTS
    TypeOK
    ClaimExclusive
    StartedIsHeld
    OneTaskPerClient
    SuccessIsStored
    CleanExit
VIEW MCView
CHECK_DEADLOCK FALSE
