SPECIFICATION Spec

CONSTANTS
    r1 = r1
    r2 = r2
    k1 = k1
    k2 = k2
    None = None
    Requests <- MCRequests
    Keys <- MCKeys
    Weights <- MCWeights
    MaxObject = 3
    MaxBytes = 2
    MaxPurges = 1
    MaxAgings = 0

SYMMETRY Alike

INVARIANT
    IndexedPurgeSticks

CHECK_DEADLOCK FALSE
