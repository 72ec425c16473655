SPECIFICATION Spec
CONSTANTS
    v1 = v1
    v2 = v2
    Versions = {v1, v2}
    Size <- TwoChunks
    SimpleETags = {v1, v2}
    ChunkSize = 2
    Concurrency = 2
    MaxRetries = 1
    SkipChecksumVerify = FALSE
    FullReplies = TRUE
    HeadFaults = TRUE
    DiskFaults = TRUE
    MaxOverwrites = 1
    MaxRuns = 2
    NoVersion = NoVersion
    NoFile = NoFile
    Hole = Hole
    Prior = Prior
INVARIANTS InstalledIsHead
PROPERTIES AtomicInstall
