SPECIFICATION Spec
CONSTANTS
  A = A
  B = B
  Origins = {A, B}
  NoOrigin = NoOrigin
  Junk = Junk
  MaxRank = 1
  MaxExamples = 2
  IterFactor = 1
  IterBase = 0
  MinTestCalls = 2
  SearchWindow = 3
  InvalidGiveUp = 3
  MaxPasses = 2
  MaxRuns = 2
  Tests <- ReplayTests
  Configs <- ReplayConfigs
INVARIANTS
  OneBugUnlessAsked
CHECK_DEADLOCK FALSE
