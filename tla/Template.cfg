SPECIFICATION FairSpec
CONSTANTS
  w1 = w1
  w2 = w2
  w3 = w3
  Workers = {w1, w2, w3}
  NoWorker = NoWorker
  Requests = 3
INVARIANTS ReplyIsMine OneWatcherPerRequest
PROPERTIES EveryRequestReturns ImplementsWatcherServer
CHECK_DEADLOCK FALSE
