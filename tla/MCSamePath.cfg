SPECIFICATION Spec
CONSTANTS
    CHUNK_SIZE = 2
    U16 = 2
    U64 = 16
    Workers = {w1, w2}
    Conns = {"a", "b"}
    Sessions = {"a", "b"}
    Paths <- MCPaths
    Sizes <- MCSizes
    Uuid <- MCUuid
    Name <- MCName
    Content <- MCContent
    Killable = {"a", "b"}
    MaxCrashes = 0
    EXCLUSIVE = FALSE
INVARIANT MarkedMeansSaved
