SPECIFICATION FairSpec
CONSTANTS
    MaxRequests = 3
    Concurrency = 2
    Endpoints = 1
    PerEndpoint = 2
    Capacity = 1
    MaxBreaks = 1
INVARIANTS TypeOK AnswersMatch SummaryIsComplete
PROPERTIES ClientFinishes ServerLetsGo
CHECK_DEADLOCK FALSE
