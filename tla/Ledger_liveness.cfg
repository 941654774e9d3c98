SPECIFICATION FairSpec
CONSTANTS
    Ops = {o1}
    Keys = {k1}
    Workers = {w1}
    Writer = Writer
    NoWorker = NoWorker
    NoOp = NoOp
    Sizes = {2}
    VisibleLimit = 4
    Headroom = 2
    ReservationCap = 4
    MaxAttempts = 2
    ExactRecovery = TRUE
    MaxEpoch = 2
    MaxRouting = 1
    MaxCas = 1
PROPERTIES
    Surfaces
CHECK_DEADLOCK FALSE
