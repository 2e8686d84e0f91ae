SPECIFICATION FairSpec
CONSTANTS
    BatchSize = 3
    MaxEntries = 4
    MaxTruncates = 2
    MaxVotes = 1
    MaxCrashes = 2
    MachineCrash = FALSE
INVARIANTS
    TypeOK
    DiskFollowsLog
    OffsetsMatch
    PersistedSurvives
PROPERTY
    AppendIsAnswered
CHECK_DEADLOCK FALSE
