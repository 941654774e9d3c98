SPECIFICATION LiveSpec
CONSTANTS
    Sink = Sink
    Drop = Drop
    Workers = {w1, w2}
    Steady = {w2}
    Nobody = Nobody
    MaxAttempts = 2
    Window = 2
    Separation = 1
    Stale = 1
    Lease = 1
    Exactness = {TRUE}
    Asserted = FALSE
    Timely = TRUE
    Prompt = TRUE
    MaxStall = 1
INVARIANTS
    CommittedStored
PROPERTIES
    Resolves
    
    WorkersSettle
    SessionsEnd
CHECK_DEADLOCK FALSE
