SPECIFICATION FairSpec
CONSTANTS
  A = A
  B = B
  Origins = {A, B}
  NoOrigin = NoOrigin
  Junk = Junk
  MaxRank = 1
  MaxExamples = 2
  IterFactor = 1
  IterBase = 1
  MinTestCalls = 2
  SearchWindow = 3
  InvalidGiveUp = 3
  MaxPasses = 2
  MaxRuns = 1
  Tests <- FlakyTests
  Configs <- FlakyConfigs
INVARIANTS
  TypeOK
  BugsAreReal
PROPERTIES
  SavesOnlyFailures
  RunsEnd
CHECK_DEADLOCK FALSE
