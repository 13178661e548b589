SPECIFICATION EventListSpec
CONSTANTS
    Threads = {t1, t2, t3}
    Events = {e1, e2}
    Waits <- TwoEvents
    MaxTriggers = 1
    Capacities = {1, 2}
    NULL = NULL
SYMMETRY ListSymmetry
INVARIANTS CountAssertHolds
