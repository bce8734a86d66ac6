SPECIFICATION FairSpec
CONSTANTS
  Submissions = 2
  InputSizes = {0, 2}
  Expected = 1
  PipeCap = 1
  ReadMax = 1
  OutLimit = 1
  MaxOut = 2
  KillOnCompout = TRUE
  Alarms = {"off", "none"}
  Manners <- PoliteLast
  MayFail = TRUE
CHECK_DEADLOCK FALSE
INVARIANTS AcceptedMeansCorrect VerdictJustified CleanBetween InputIsMine
PROPERTIES  PoliteAccepted
