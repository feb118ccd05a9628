SPECIFICATION Spec
CONSTANTS
  MaxModels = 2
  MaxDrops = 1
  MaxReloads = 1
INVARIANT ControlModelLive
CHECK_DEADLOCK FALSE
