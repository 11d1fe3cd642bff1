SPECIFICATION FairSpec
CONSTANTS
    BUFFER_SIZE = 9
    None = None
    Permits <- MCPermits
    Simplest <- MCSimplest
    Samples <- MCSamples
    SizeOf <- MCSizeOf
    ContinueC = "boolean"
    ElementC = "integer"
    True = "true"
    False = "false"
    Fixed = "i1"
    ChoiceValues <- MCChoiceValues
    Wanted <- MCWanted
    Handed <- MCHanded
    Scripts <- MCScripts
    MAX_LIST = 3
    MAX_SCRIPT = 2
    MAX_HANDED = 1
INVARIANTS
    TypeOK
    LimitsHold
    SpansBalanced
    ReplayReproduces
PROPERTIES
    ListsAsPromised
    DrawsEnd
CHECK_DEADLOCK FALSE
