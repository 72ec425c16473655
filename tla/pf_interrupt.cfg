SPECIFICATION Spec
CONSTANTS
    Keys = {1, 2, 3, 4}
    Markers = {4}
    Small = {3}
    PageSize = 2
    ChanCap = 1
    Prefix <- ThePrefix
    KeyName <- TheKeys
    FileConcurrency = 2
    Interrupts = TRUE
    MaxFaults = 0
    MaxRuns = 1
INVARIANT NilMeansComplete
