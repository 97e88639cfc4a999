SPECIFICATION FairSpec
CONSTANTS
    Requests = {r1, r2}
    Admins = {}
    Backends = {b1, b2}
    Counters = {1, 2, 3, 4, 5}
    None = None
    Editable = FALSE
    Cap = 1
    MaxWaiting = 1
    QueueTicks = 1
    Budget = 1
    WindowTicks = 1
    MaxRetries = 1
    Threshold = 1
    EjectTicks = 1
    Floor = 1
INVARIANTS CapHolds AdmissionExact EachMemberOnce
PROPERTIES QueueDrains
