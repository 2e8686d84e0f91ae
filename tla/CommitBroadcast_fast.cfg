CONSTANTS
  MaxLog = 4
  BusCapacity = 2
  MaxPerStep = 1
  MaxReads = 1
  SlowConsumer = FALSE
SPECIFICATION FairSpec
CHECK_DEADLOCK TRUE
INVARIANTS TypeOK NothingSkipped ReadSeesCommitted
PROPERTIES ImplementsCommittedReads ReadIsAnswered
