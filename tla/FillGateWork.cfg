SPECIFICATION FairSpec

CONSTANTS
    r1 = r1
    r2 = r2
    r3 = r3
    k1 = k1
    k2 = k2
    None = None
    Requests <- MCRequests
    Keys <- MCKeys
    MaxFills = 2
    MaxPurges = 2

INVARIANTS
    SingleFlight
    NoLostWakeup
    NothingLeaks

PROPERTY
    TasksEnd

CHECK_DEADLOCK FALSE
