SPECIFICATION Spec
CONSTANTS
  w1 = w1
  w2 = w2
  Workers = {w1, w2}
  Submissions = 2
  Seconds = 2
  Faults = 1
SYMMETRY WorkerSymmetry
CHECK_DEADLOCK FALSE
INVARIANTS JudgedIsMine ExposureNeedsOverlap NothingLeftOfJudged InRam
