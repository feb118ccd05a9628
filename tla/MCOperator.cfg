CONSTANTS
  nhistory = 3
  MaxSteps = 3
  CameraCounts = {0, 2}
  Bodies = {1, 2}
  MaxCamera = 4
  MaxEvents = 2
  Sticks <- StickValues
  MaxCommand = 2
  Motors = {1, 2, 3}
  Mappings <- JointMappings

SPECIFICATION OperatorSpec

INVARIANTS
  ViewerHistorySafe
  ViewerInputSafe
  RealRobotSafe

PROPERTIES
  JoystickObeyed

CHECK_DEADLOCK FALSE
