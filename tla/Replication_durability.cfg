SPECIFICATION Spec
CONSTANTS
    Node = {n1, n2, n3}
    MaxTerm = 1
    MaxTimeouts = 4
    MaxWrites = 1
    MaxUnderWay = 0
    MaxBeats = 1
    MaxLosses = 0
    EarlyWrites = FALSE
SYMMETRY NodeSymmetry
INVARIANTS
    AckedIsDurable
CHECK_DEADLOCK FALSE
