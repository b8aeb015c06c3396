SPECIFICATION Spec
CONSTANTS
    FileSize = 3
    ChunkSizes = {1,2}
    BurstMax = 2
    MaxRetry = 2
    MaxReopens = 1
    StartSeqs = {65528}
    Kinds = {"download", "upload", "list", "delete"}
    Bounds <- MCBounds
CHECK_DEADLOCK FALSE
INVARIANT UploadSignalsUploadComplete
