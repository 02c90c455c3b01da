SPECIFICATION FairSpec
CONSTANTS
    CHUNK_SIZE = 2
    U16 = 2
    U64 = 16
    Workers = {w1, w2}
    Conns = {"a", "b", "d"}
    Sessions = {"a", "b", "d"}
    Paths <- MCPaths
    Sizes <- MCSizes
    Uuid <- MCUuid
    Name <- MCName
    Content <- MCContent
    Killable = {"a", "b", "d"}
    MaxCrashes = 2
    EXCLUSIVE = TRUE
INVARIANTS TypeOK TransferInv MarkedMeansSaved CompleteMeansStored OneOutstanding RequestsNextMissing
PROPERTIES ProgressKept UploadCompletes ImplementsUpload
