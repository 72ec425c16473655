SPECIFICATION Spec
CONSTANTS
    c1 = c1
    c2 = c2
    Chunks = {c1, c2}
    ChunkUnits = 2
    Pools = {2}
    MaxRetries = 1
    MaxFaults = 0
    Modes = {"prefix"}
INVARIANT AggregateWithinTotal
