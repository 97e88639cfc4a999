CONSTANTS
    Procs = {p1, p2}
    Ids = {1, 2, 3, 4}
    None = None
    Keyed = TRUE
    Legacy = {1, 2}
    MaxEntries = 3
    MaxFaults = 1
SYMMETRY HandleSymmetry
SPECIFICATION Spec
INVARIANTS CurrentResolves IssuedGenerationsDistinct MigrationResumable CutsRecorded
PROPERTIES PruneSparesProtected
