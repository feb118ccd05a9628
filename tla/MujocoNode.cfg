SPECIFICATION FairSpec
CONSTANTS
  MaxModels = 3
  MaxDrops = 2
  MaxReloads = 2
INVARIANTS
  HandoverSafe
PROPERTIES
  LoadAnswered
  ExitCompletes
CHECK_DEADLOCK FALSE
