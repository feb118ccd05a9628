CONSTANTS
  MaxCommand = 1
  Axes = {0, 2}
  Messages = {"X", "RB_X", "RB_Y"}
  MaxPresses = 4
  Loops <- RobotLoops

SPECIFICATION ThreadsSpec

INVARIANTS
  EachPressActsOnce
  OneLateCall

PROPERTIES
  KeysAreCleared
  ImplementsPeriodicTask
  ThreadEnds

CHECK_DEADLOCK FALSE
