SPECIFICATION Spec
CONSTANTS
    Ops = {o1}
    Keys = {k1}
    Workers = {w1, w2}
    Writer = Writer
    NoWorker = NoWorker
    NoOp = NoOp
    Sizes = {2}
    VisibleLimit = 4
    Headroom = 2
    ReservationCap = 4
    MaxAttempts = 2
    ExactRecovery = FALSE
    MaxEpoch = 1
    MaxRouting = 2
    MaxCas = 2
INVARIANTS
    RetainedWitness
    NoOrphanVersion
PROPERTIES
    TerminalStable
CHECK_DEADLOCK FALSE
