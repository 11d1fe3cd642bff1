SPECIFICATION Spec
CONSTANTS
    None = None
    x = x
    y = y
    Bundles = {"a", "b"}
    Rules <- MCRules
    Invariants <- MCInvariants
    Objects = {x, y}
    Singletons = {"zero"}
    NoValue = "zero"
    Results <- MCResults
    verbose = FALSE
    ReturnChecked = TRUE
    BUFFER_SIZE = 12
    min_steps = 1
    max_steps = 3
    MAX_EXAMPLES = 2
INVARIANTS
    TraceReproduces
    FailureToldTruly
CHECK_DEADLOCK FALSE
