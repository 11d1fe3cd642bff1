SPECIFICATION Spec
CONSTANTS
  A = A
  B = B
  C = C
  Origins = {A, B, C}
  Target = A
  End = End
  NoForce = NoForce
  NodeAt <- MCNodeAt
  Examples <- MCExamples
  Results <- MCResults
  MaxGrouped = 8
  MaxPasses = 30
  ShrinkCaps = {1}
  Strategies = {"two"}
INVARIANTS
  ExceptionOfMinimal
CHECK_DEADLOCK FALSE
