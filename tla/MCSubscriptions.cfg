SPECIFICATION Spec
CONSTANTS
    Clients = {k1, k2}
    Chans = {c1, c2}
    None = None
    Capacity = 1
    MaxRev = 2
CHECK_DEADLOCK FALSE
SYMMETRY Symmetry
INVARIANTS
    ClosedOnce
    Served
    SettledIsCurrent
PROPERTIES
    InOrder
