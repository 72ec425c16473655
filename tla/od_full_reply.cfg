SPECIFICATION Spec
CONSTANTS
    v1 = v1
    v2 = v2
    Versions = {v1}
    Size <- TwoChunks
    SimpleETags = {}
    ChunkSize = 2
    Concurrency = 2
    MaxRetries = 1
    SkipChecksumVerify = FALSE
    FullReplies = TRUE
    HeadFaults = FALSE
    DiskFaults = FALSE
    MaxOverwrites = 0
    MaxRuns = 1
    NoVersion = NoVersion
    NoFile = NoFile
    Hole = Hole
    Prior = Prior
INVARIANT InstalledIsHead
