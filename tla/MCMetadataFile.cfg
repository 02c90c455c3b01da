CONSTANTS
    CHUNK_SIZE = 2
    U16 = 16
    U64 = 64
    Sizes = {0, 1, 14, 15, 16, 17, 20}
SPECIFICATION Spec
INVARIANTS
    TypeOK
    NextMissingIsFirst
PROPERTY
    MarkTouchesOneChunk
