SPECIFICATION Spec
CONSTANTS
    Node = {n1, n2, n3}
    MaxTerm = 2
    MaxIndex = 1
    MaxId = 1
    MaxElections = 2
    MaxInFlight = 1
    MaxRestarts = 1
SYMMETRY NodeSymmetry
INVARIANTS
    TypeOK
    OneVoteOnDisk
CHECK_DEADLOCK FALSE
