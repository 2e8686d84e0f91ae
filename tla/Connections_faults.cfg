SPECIFICATION FairSpec
CONSTANTS
    Conn = {c1, c2}
    None = None
    Capacity = 1
    MaxFaults = 3
INVARIANTS NoDeadEntry NotDeaf
PROPERTIES Reconnects 
