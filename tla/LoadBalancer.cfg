SPECIFICATION FairSpec
CONSTANTS
    Callers = {c1}
    MaxRev = 1
CHECK_DEADLOCK FALSE
INVARIANT Settled
PROPERTIES
    Repaired
    CallsReturn
