SPECIFICATION FairSpec
CONSTANTS
    Callers = {c1, c2}
    MaxRev = 2
    TTL = 2
    Capacity = 1
CHECK_DEADLOCK FALSE
PROPERTIES
    ServesLatest
    WatcherEnds
