SPECIFICATION Spec
CONSTANTS
  A = A
  B = B
  C = C
  Origins = {A, B, C}
  Target = A
  End = End
  NoForce = NoForce
  NodeAt <- MCNodeAt
  Examples <- MCExamples
  Results <- MCFails
  MaxGrouped = 8
  MaxPasses = 6
  ShrinkCaps = {30}
  Strategies = {"pairs"}
PROPERTIES
  Reducing
CHECK_DEADLOCK FALSE
