SPECIFICATION FairSpec
CONSTANTS
  c1 = c1
  c2 = c2
  Clients = {c1, c2}
  WorkerCounts = {1, 2}
  Asks <- Two
  BodySizes = {1, 2, 3}
  Slow = {c2}
  Hdr = 2
  RespHead = 2
  RespBody = 1
  RcvMax = 2
  SizeMax = 5
  Default = 1
  Block = 2
CHECK_DEADLOCK FALSE
INVARIANTS WholeRequest ShownIsReply
PROPERTIES EveryClientEnds ImplementsJudgeService
