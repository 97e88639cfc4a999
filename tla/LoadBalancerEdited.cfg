SPECIFICATION Spec
CONSTANTS
    Requests = {r1, r2}
    Admins = {operator}
    Backends = {b1, b2}
    Counters = {1, 2, 3, 4}
    None = None
    Editable = TRUE
    Cap = 1
    MaxWaiting = 0
    QueueTicks = 1
    Budget = 0
    WindowTicks = 1
    MaxRetries = 0
    Threshold = 1
    EjectTicks = 1
    Floor = 1
SYMMETRY InstanceSymmetry
INVARIANTS CountersExact
