SPECIFICATION FairSpec
CONSTANTS
    Keys = {1, 2, 3, 4}
    Markers = {4}
    Small = {3}
    PageSize = 2
    ChanCap = 1
    Prefix <- ThePrefix
    KeyName <- TheKeys
    FileConcurrency = 2
    Interrupts = TRUE
    MaxFaults = 2
    MaxRuns = 2
INVARIANTS TypeOK ListingComplete PathsApart RootCause ErrorsReported QuietAfterReturn SkippedIsComplete NilMeansAll OthersGoOn
PROPERTIES ListsInOrder Resumes Returns CancelReturns
