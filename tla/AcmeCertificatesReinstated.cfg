SPECIFICATION Spec
CONSTANTS
    Procs = {server, companion}
    Readers = {tls}
    None = None
    MaxSerial = 4
    MaxFaults = 3
SYMMETRY ProcSymmetry
INVARIANTS RevokedStaysOut
