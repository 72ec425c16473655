SPECIFICATION FairSpec
CONSTANTS
    Object = Object
    Prior = Prior
    Nothing = Nothing
    Givens <- MCGivens
    MaxSignals = 2
INVARIANTS TypeOK SourceOrder ExitTellsFile TickerSilent
PROPERTY SignalEnds
