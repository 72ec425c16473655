SPECIFICATION FairSpec
CONSTANTS
    v1 = v1
    v2 = v2
    Versions = {v1, v2}
    Size <- ThreeChunks
    SimpleETags = {}
    ChunkSize = 2
    Concurrency = 2
    MaxRetries = 1
    SkipChecksumVerify = FALSE
    FullReplies = FALSE
    HeadFaults = FALSE
    DiskFaults = FALSE
    MaxOverwrites = 0
    MaxRuns = 2
    NoVersion = NoVersion
    NoFile = NoFile
    Hole = Hole
    Prior = Prior
INVARIANTS TypeOK InstalledIsHead QuiescentTail RootCause NoLitter TransientFaultsTolerated
PROPERTIES DoneChunksStable AtomicInstall ParallelTerminates CancelTerminates
