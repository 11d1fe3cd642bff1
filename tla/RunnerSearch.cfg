SPECIFICATION Spec
CONSTANTS
  A = A
  B = B
  Origins = {A, B}
  NoOrigin = NoOrigin
  Junk = Junk
  MaxRank = 2
  MaxExamples = 3
  IterFactor = 1
  IterBase = 1
  MinTestCalls = 2
  SearchWindow = 3
  InvalidGiveUp = 3
  MaxPasses = 3
  MaxRuns = 1
  Tests <- SearchTests
  Configs <- SearchConfigs
INVARIANTS
  EveryBugReportedOnce
  VerdictsAreTrue
  ReportedIsSaved
CHECK_DEADLOCK FALSE
