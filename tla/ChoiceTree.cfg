SPECIFICATION Spec
CONSTANTS
    None = None
    Values <- MCValues
    Paths <- MCPaths
    NodeAt <- MCNodeAt
    Tests <- MCTests
    MAX_EXAMPLES = 4
    CAP = 5
    INVALID_GIVE_UP = 4
    MAX_TRACKED_NODES = 2
    MAX_TOTAL_TRACKED_NODES = 7
INVARIANTS
    ExhaustionIsTrue
PROPERTIES
    SearchesForNew
CHECK_DEADLOCK FALSE
