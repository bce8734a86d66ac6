SPECIFICATION FairSpec
CONSTANTS
  a = a
  b = b
  Chars = {a, b}
  LF = LF
  CR = CR
  READ_SIZE = 2
  MaxChunk = 3
  RefLen = 4
  OutLen = 3
  RefTexts <- AllRefs
  OutTexts <- AllOuts
CHECK_DEADLOCK FALSE
INVARIANTS TypeOK VerdictRight
PROPERTY Terminates
