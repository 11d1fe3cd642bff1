SPECIFICATION Spec
CONSTANTS
  A = A
  B = B
  Origins = {A, B}
  NoOrigin = NoOrigin
  Junk = Junk
  MaxRank = 2
  MaxExamples = 2
  IterFactor = 1
  IterBase = 1
  MinTestCalls = 2
  SearchWindow = 3
  InvalidGiveUp = 3
  MaxPasses = 2
  MaxRuns = 1
  Tests <- SearchTests
  Configs <- SearchConfigs
INVARIANTS
  BlobReproducesReport
CHECK_DEADLOCK FALSE
