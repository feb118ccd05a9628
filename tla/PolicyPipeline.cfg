CONSTANTS
  MaxEpoch = 3
  QueueCap = 3
  TauCap = 1
  HistoryLength = 2
  WarmStart = TRUE
  HoldZeroCommand = TRUE
  Failures = {"config", "history", "model", "contract"}

SPECIFICATION FairSpec

INVARIANTS
  TypeOK
  ModelExclusive
  QueueSkew
  StaleBounded

PROPERTIES
  HistoryWarm
  EngagedApplies
