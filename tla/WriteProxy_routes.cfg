SPECIFICATION FairSpec
CONSTANTS
    text = text binary = binary replaced = replaced
    N = 3
    MaxWrites = 3
    At <- MCAt
    Payload <- MCPayload
    Size <- MCSize
    Text <- MCText
    Replaced = replaced
    MaxBatchSize = 2
    MaxElections = 2
    MaxFailures = 1
INVARIANTS
    TypeOK WritesInOrder SentToLeader LoggedOnce AnsweredOrRefused

    
CHECK_DEADLOCK FALSE
