CONSTANTS
  NumEnvs = 2
  HistoryLength = 3
  Dims <- TermDims
  MaxObservations = 5
  NumDofs = 2
  DefaultLens = {2}
  TermLists <- ObservationTerms
  ObsSizes = {4, 5}
  HistoryLists <- Histories
  Lengths = {0, 2, 3}
  Signatures <- InputShapeLists
  MaxRuns = 3
  NumJoints = 3
  Values <- OutputValues
  Gains = {1}
  ScaleLists <- ScaleChoices
  LimitLists <- LimitChoices
  Reach = 2
  Wheels = {1}
  Components <- QuaternionComponents
  TorsoTurns <- ThreeQuarterTurns
  Files <- MotionFiles
  TicksPerFrame = 3
  MaxTime = 16

SPECIFICATION CoreSpec

INVARIANTS
  NewestFirst
  HistoryLayout
  ContractKept
  OutputSafe
  OrientationSafe

PROPERTIES
  RunsTheContract
  MotionFollowed

CHECK_DEADLOCK FALSE
