SPECIFICATION FairSpec
CONSTANTS
    CHUNK_SIZE = 1
    U16 = 2
    U64 = 16
    Workers = {w1, w2}
    Conns = {"a"}
    Sessions = {"a"}
    Paths <- MCPaths
    Sizes <- MCSizes
    Uuid <- MCUuid
    Name <- MCName
    Content <- LongContent
    Killable = {}
    MaxCrashes = 0
    EXCLUSIVE = TRUE
PROPERTY UploadCompletes
