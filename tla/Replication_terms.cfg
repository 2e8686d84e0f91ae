SPECIFICATION Spec
CONSTANTS
    Node = {n1, n2, n3}
    MaxTerm = 2
    MaxTimeouts = 3
    MaxWrites = 1
    MaxUnderWay = 0
    MaxBeats = 1
    MaxLosses = 0
    EarlyWrites = TRUE
SYMMETRY NodeSymmetry
INVARIANTS
    TypeOK
    AckedIsStored
PROPERTIES
    CommitNeverFalls
CHECK_DEADLOCK FALSE
