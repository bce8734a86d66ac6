SPECIFICATION FairSpec
CONSTANTS
  w1 = w1
  w2 = w2
  Workers = {w1, w2}
  NoWorker = NoWorker
  Connections = 4
CHECK_DEADLOCK FALSE
INVARIANTS TypeOK InOrder LinkTargetValid LossNeedsOverlap UafMeansLoss
PROPERTIES ImplementsLossyQueue ServedOrLost
