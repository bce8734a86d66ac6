SPECIFICATION Spec
CONSTANTS
  c1 = c1
  Clients = {c1}
  WorkerCounts = {1}
  c2 = c2
  Asks <- One
  BodySizes = {1, 2, 4, 6}
  Slow = {}
  Hdr = 2
  RespHead = 2
  RespBody = 1
  RcvMax = 3
  SizeMax = 100
  Default = 2
  Block = 4
CHECK_DEADLOCK FALSE
INVARIANT WellFormedIsJudged
