CONSTANTS
  Steps = 3
  ZeroCommandAfterFault = TRUE
  Policies = {"flat", "history", "otherOutput", "otherInput"}
  NumDofs = 3
  Base <- BaseYaml
  PolicyNames = {"a", "b", "c"}
  ConfigOf <- ConfigYaml
  ProfileOf <- ProfileYaml
  BadProfiles = {"c"}
  GainMessages <- GainAlphaMessages
  MaxLoads = 3
  Feet = {"FL", "FR"}
  Window = 2
  MaxAge = 4
  CsvConfigs <- CsvSettings
  FlushEvery = 4
  NumJoints = 2
  JointLists <- JointNames
  Urdf = {"hip", "knee"}
  Alphas <- FaultAlphas
  MaxCommands = 2
  MaxSwitches = 4

SPECIFICATION GazeboSpec

INVARIANTS
  HandBackBounded
  ParamsSafe
  ContactsSafe
  CsvSafe
  GroupSafe

PROPERTIES
  RecoveryAtRest
  FaultAnswered

CHECK_DEADLOCK FALSE
