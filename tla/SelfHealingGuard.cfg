CONSTANTS
    None = None
    Source = Source
    Workers = {wd, op}
    Watchdog = wd
    Snaps = {s1, s2}
    MinSuccess = 2
    MaxErrorRate = 500
    Window = 1
    MaxAttempts = 2
    MaxTime = 2
    MaxRequests = 4
    MaxOverlaps = 2
    MaxFails = 1
    MaxRestarts = 1
SPECIFICATION Spec
INVARIANTS PersistedInTurn ServedIsRecorded
PROPERTIES ClearedInTurn NotBeforeExpiry FailureKeepsPending ValidationResolves
