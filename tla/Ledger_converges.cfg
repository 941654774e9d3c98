SPECIFICATION FairSpec
CONSTANTS
    Ops = {o1}
    Keys = {k1}
    Workers = {w1}
    Writer = Writer
    NoWorker = NoWorker
    NoOp = NoOp
    Sizes = {2}
    VisibleLimit = 4
    Headroom = 2
    ReservationCap = 4
    MaxAttempts = 1
    ExactRecovery = TRUE
    MaxEpoch = 1
    MaxRouting = 1
    MaxCas = 0
PROPERTIES
    Converges
CHECK_DEADLOCK FALSE
