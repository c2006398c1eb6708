SPECIFICATION Spec
CONSTANTS
    Calls = {c1, c2}
    Timed = {c1, c2}
    Conns = {k1}
    None = None
    MaxIdle = 1
    Closes = FALSE
CHECK_DEADLOCK FALSE
INVARIANTS Paired
