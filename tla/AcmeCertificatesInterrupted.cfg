SPECIFICATION Spec
CONSTANTS
    Procs = {server, companion}
    Readers = {tls}
    None = None
    MaxSerial = 5
    MaxFaults = 4
SYMMETRY ProcSymmetry
INVARIANTS TypeOK SettledPairMatches ReadersSeeOnePair RevokedMeansQuarantined OldPairKept RecoveryCanRun RevocationSurvivesInterruption
