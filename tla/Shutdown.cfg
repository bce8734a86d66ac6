SPECIFICATION FairShutdownSpec
CONSTANTS
  NumWorkers = 3
  MaxJobs = 4
CHECK_DEADLOCK FALSE
INVARIANTS ExchangeHasTemplate CleanBeforeUnlink
PROPERTY ShutdownEnds
