SPECIFICATION Spec
CONSTANTS
    Ops = {o1, o2}
    Keys = {k1}
    Workers = {w1}
    Writer = Writer
    NoWorker = NoWorker
    NoOp = NoOp
    Sizes = {1, 3}
    VisibleLimit = 3
    Headroom = 0
    ReservationCap = 4
    MaxAttempts = 1
    ExactRecovery = TRUE
    MaxEpoch = 1
    MaxRouting = 1
    MaxCas = 2
SYMMETRY Symmetry
INVARIANTS
    TypeOK
    QuotaBound
    AuthorityBacked
    AbortedLeavesNothing
PROPERTIES
    CasFencesAuthority
CHECK_DEADLOCK FALSE
