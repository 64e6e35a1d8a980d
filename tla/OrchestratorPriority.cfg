SPECIFICATION Spec
CONSTANTS
    None = None
    w1 = w1
    w2 = w2
    t1 = t1
    t2 = t2
    t3 = t3
    b1 = b1
    b2 = b2
    gen1 = gen1
    gen2 = gen2
    Starter = starter
    RT = rt
    Workers = {w1}
    Oids = {t1, t2}
    Blocks = {b1, b2}
    Priorities <- MCPriorities
    Generators = {gen1}
    Clients = {gen1, rt}
    RealTimeEnabled = FALSE
    MaxOrders = 2
    MaxFaults = 0
    MaxStarts = 1
CHECK_DEADLOCK FALSE
PROPERTY
    PriorityRespected
