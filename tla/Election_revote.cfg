SPECIFICATION Spec
CONSTANTS
    Node = {n1, n2, n3}
    MaxTerm = 2
    MaxIndex = 0
    MaxId = 0
    MaxElections = 3
    MaxInFlight = 1
    MaxRestarts = 0
SYMMETRY NodeSymmetry
INVARIANTS
    OneLeaderPerTerm
CHECK_DEADLOCK FALSE
