SPECIFICATION Spec
CONSTANTS
  Submissions = 1
  InputSizes = {1}
  Expected = 1
  PipeCap = 1
  ReadMax = 1
  OutLimit = 1
  MaxOut = 1
  KillOnCompout = TRUE
  Alarms = {"off"}
  Manners <- AnyProgram
  MayFail = FALSE
CHECK_DEADLOCK FALSE
INVARIANT FaultHasVerdict
