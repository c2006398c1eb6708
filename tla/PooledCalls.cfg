SPECIFICATION Spec
CONSTANTS
    Calls = {c1, c2, c3}
    Timed = {c1, c2}
    Conns = {k1, k2}
    None = None
    MaxIdle = 1
    Closes = TRUE
CHECK_DEADLOCK FALSE
INVARIANTS
    ExclusiveUse
    QuietInTime
    PairedInTime
PROPERTIES
    KeepsPoolPromise
