CONSTANTS
    BUFFER_SIZE = 60
    None = None
    Permits <- PermitsV
    Simplest <- SimplestOf
    Samples <- SamplesOf
    SizeOf <- OneByte
    ContinueC <- BoolC
    True <- Yes
    False <- No
    DEFAULT_MAX_SIZE = 3
    LARGEST_MIN_SIZE = 4
    FINITE_DOMAIN = 2
    MAX_ORDINAL = 9
    US_PER_DAY = 3
    MAX_DENOMINATOR = 4
    CollectionPacks = {"set", "list"}
    Definition <- DefinitionOf
    Apply <- ApplyOf
    Holds <- HoldsOf
    Expand <- ExpandOf
    KeyOf <- KeyOfValue
    FILTER_TRIES = 2
    FOREIGN_TRIES = 2
    FILTER_CALLS = 3
    MATERIALISED = 5
    DEFERRED_DRAW_LIMIT = 3
    MAX_UUID = 11
    MAX_V4 = 3
    MAX_V6 = 3
    Corpus <- Everything
    MAX_FILTERS = 2
    DRAWN_FILTERS = 1
    FILTERABLE = 10
    WIDEST = 3
SPECIFICATION Spec
INVARIANTS
    AsPromised
    ForeignAsPromised
    ReplaysAlike
    NodeFacts
CHECK_DEADLOCK FALSE
