SPECIFICATION Spec
CONSTANTS
    c1 = c1
    c2 = c2
    Chunks = {c1, c2}
    ChunkUnits = 2
    Pools = {1, 2}
    MaxRetries = 1
    MaxFaults = 2
    Modes = {"single", "prefix"}
INVARIANTS TypeOK CounterMatches AggregateBounded AggregateComplete DisplayComplete
PROPERTY AggregateMonotone
