SPECIFICATION FairSpec
CONSTANTS
  o1 = o1
  o2 = o2
  Operators = {o1, o2}
  CalmCommands = 4
  RushCommands = 2
  MaxDaemons = 5
CHECK_DEADLOCK FALSE
INVARIANTS ServingIsKnown StartedIsMine InterruptedIsUp
PROPERTIES StopStops CommandEnds UnlinksOwnFile
