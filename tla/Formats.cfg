SPECIFICATION FormatsSpec
CONSTANTS
    w1 = w1
    w2 = w2
    NoPosition = NoPosition
INVARIANTS
    
    ReadFaithful
    
    
    BatchExact
CHECK_DEADLOCK FALSE
