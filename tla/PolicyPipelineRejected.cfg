CONSTANTS
  MaxEpoch = 2
  QueueCap = 2
  TauCap = 1
  HistoryLength = 2
  WarmStart = TRUE
  HoldZeroCommand = TRUE
  Failures = {"config", "history", "model", "contract"}

SPECIFICATION Spec

INVARIANT RejectedModelUnused
