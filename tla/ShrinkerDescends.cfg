SPECIFICATION Spec
CONSTANTS
  A = A
  B = B
  C = C
  Origins = {A, B, C}
  Target = A
  End = End
  NoForce = NoForce
  NodeAt <- MCNodeAt
  Examples <- MCExamples
  Results <- MCResults
  MaxGrouped = 3
  MaxPasses = 8
  ShrinkCaps = {1, 8}
  Strategies = {"one", "two", "flat", "blob", "list"}
INVARIANTS
  LocalMinimum
  ReportMatchesChoices
  NearbyBugsRemembered
PROPERTIES
  ShrinkingDescends
  ShrinkingEnds
CHECK_DEADLOCK FALSE
