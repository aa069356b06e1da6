SPECIFICATION FairSpec
CONSTANTS
    Holes = {h1}
    Strokes = {1}
    Putts = {2}
    Flushers = {f1}
    Finisher = fin
    NULL = NULL
    NoEntry = NoEntry
    NoHole = NoHole
    NoRound = NoRound
    NoRows = NoRows
    MaxEdits = 2
    MaxFaults = 1
    MaxOpens = 2
INVARIANTS SettledHoleIsSaved
PROPERTIES DrainsUnlessRefused CompleteOnlyWhenSaved ImplementsSavedRound
CHECK_DEADLOCK FALSE
