SPECIFICATION Spec
CONSTANTS
    Sink = Sink
    Drop = Drop
    Workers = {w1, w2}
    Steady = {}
    Nobody = Nobody
    MaxAttempts = 2
    Window = 2
    Separation = 1
    Stale = 0
    Lease = 1
    Exactness = {TRUE, FALSE}
    Asserted = TRUE
    Timely = FALSE
    Prompt = TRUE
    MaxStall = 1
SYMMETRY Symmetry
INVARIANTS
    HistorySure
    AbortedLeavesNothing
    AnswerRecorded
PROPERTIES
    ResultFinal
