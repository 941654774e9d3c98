SPECIFICATION GatewaySpec
CONSTANTS
    Sessions = {s1, s2}
    Workers = 1
    QueueCapacity = 1
    MemoryBudget = 2
    MaxInput = 1
    Keys = {k1}
    Tokens = {t1}
    Callers = {d1, d2}
    Requests = {c1}
    Configs <- KeyConfigs
    SyncFails = FALSE
    Expiring = {k1}
    MaxActors = 3
    MaxFaults = 1
    k1 = k1
    c1 = c1
    c2 = c2
    r1 = r1
    r2 = r2
    h1 = h1
    h2 = h2
    p1 = p1
    p2 = p2
    d1 = d1
    d2 = d2
    R1 = R1
    R2 = R2
    Nobody = Nobody
    None = None
SYMMETRY Symmetry
INVARIANTS
    ReturnedHoldsNothing
    AcknowledgedDecides
    ExecutesAsAgreed

    
CHECK_DEADLOCK FALSE
