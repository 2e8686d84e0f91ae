CONSTANTS
  MaxLog = 5
  BusCapacity = 2
  MaxPerStep = 1
  MaxReads = 0
  SlowConsumer = TRUE
SPECIFICATION FairSpec
CHECK_DEADLOCK TRUE
INVARIANTS NoLostWakeup PipelineInOrder
 
