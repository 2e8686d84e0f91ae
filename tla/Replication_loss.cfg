SPECIFICATION FairSpec
CONSTANTS
    Node = {n1, n2, n3}
    MaxTerm = 1
    MaxTimeouts = 2
    MaxWrites = 1
    MaxUnderWay = 0
    MaxBeats = 1
    MaxLosses = 1
    EarlyWrites = FALSE
INVARIANTS
    LogsAgree
PROPERTIES
    BatchNotForgotten
    WriteIsAcked
    
CHECK_DEADLOCK FALSE
