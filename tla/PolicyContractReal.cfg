CONSTANTS
  NumDofs = 2
  DefaultLens = {2}
  TermLists <- ObservationTerms
  ObsSizes = {4, 5}
  HistoryLists <- Histories
  Lengths = {0, 2, 3}
  Signatures <- InputShapeLists
  MaxRuns = 3

SPECIFICATION ContractSpec

INVARIANT
  ValidatedPolicyRunsEverywhere

CHECK_DEADLOCK FALSE
