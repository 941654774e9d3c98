SPECIFICATION Spec
CONSTANTS
    Ops = {o1, o2}
    Keys = {k1}
    Workers = {w1}
    Writer = Writer
    NoWorker = NoWorker
    NoOp = NoOp
    Sizes = {2}
    VisibleLimit = 4
    Headroom = 2
    ReservationCap = 4
    MaxAttempts = 1
    ExactRecovery = TRUE
    MaxEpoch = 2
    MaxRouting = 1
    MaxCas = 2
SYMMETRY Symmetry
INVARIANTS
    PurgeLeavesNothing
    SlotAccounting
PROPERTIES
    LedgerImplements
CHECK_DEADLOCK FALSE
