SPECIFICATION BusySpec
CONSTANTS
    Callers = {c1}
    a = a
    b = b
    Instances = {a, b}
    Lists <- OneService
    NoInstance = NoInstance
    Strategy = "next"
    MaxRetries = 3
    Retryable = {"circuit_open", "unavailable", "refused", "timeout", "operation"}
    FailureThreshold = 2
    SuccessThreshold = 2
    Threshold = 1
    MaxFaults = 1
PROPERTY Reinstated
