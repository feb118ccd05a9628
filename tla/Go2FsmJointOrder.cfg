CONSTANTS
  PreGetUpFrames = 2
  StandFrames = 2
  RiseFrames = 1
  GetDownFrames = 2
  TransitionFrames = 2
  HoldZeroCommand = TRUE
  LegOrder = leg
  PolicyOrder = type

SPECIFICATION Spec

INVARIANT GetUpCommandInOrder
