SPECIFICATION FairSpec
CONSTANTS
    Threads = {t1, t2}
    Objects = {o1, o2}
    None = None
    Threshold = 2
    HalfOpenMaxCall = 1
    SuccessNum = 4
    SuccessDen = 5
CHECK_DEADLOCK FALSE
INVARIANTS
    ClosedBelowThreshold
    NeverWedged
PROPERTIES
    CoolingIsKept
    KeepsPromise
    ExhaustedDecides
    OpenIsProbed
