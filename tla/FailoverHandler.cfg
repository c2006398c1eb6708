SPECIFICATION FairSpec
CONSTANTS
    Callers = {c1, c2}
    a = a
    b = b
    Instances = {a, b}
    Lists <- LostService
    NoInstance = NoInstance
    Strategy = "next"
    MaxRetries = 2
    Retryable = {"circuit_open", "unavailable", "refused", "timeout", "operation"}
    FailureThreshold = 2
    SuccessThreshold = 1
    Threshold = 1
    MaxFaults = 1
CHECK_DEADLOCK FALSE
INVARIANTS
    AtMostOncePerInstance
    ResultTruthful
    ExclusionHasCause
    SwitchesInstance
PROPERTY
    ExecuteReturns
