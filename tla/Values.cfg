SPECIFICATION Spec
CONSTANTS
    BUFFER_SIZE = 64
    ASCII_ZERO = 2
    ASCII_Z = 3
    E = 3
    M = 2
    NE = 2
    NM = 1
    SimpleBits = 3
    BYTES = 2
    FAR = 6
    WIDE = 3
    Surrogates = {4}
    SizeBits = 2
    FloatBytes = 2
    Utf8 <- SomeUtf8
INVARIANTS
    IndexInverse
    SimplerFirst
    DrawsArePermitted
    FloatsAsAsked
    FloatsAreComplete
    FloatOrders
    SetsAgree
    CodecAgrees
    MoveKeeps
CHECK_DEADLOCK FALSE
