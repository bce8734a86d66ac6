SPECIFICATION FairSpec
CONSTANTS
  w1 = w1
  w2 = w2
  Workers = {w1, w2}
  NoWorker = NoWorker
  Connections = 3
CHECK_DEADLOCK FALSE
PROPERTIES EveryConnectionServed
