SPECIFICATION Spec
CONSTANTS
    Holes = {h1}
    Strokes = {1, 2}
    Putts = {}
    Flushers = {f1, f2}
    Finisher = fin
    NULL = NULL
    NoEntry = NoEntry
    NoHole = NoHole
    NoRound = NoRound
    NoRows = NoRows
    MaxEdits = 2
    MaxFaults = 0
    MaxOpens = 1
SYMMETRY FlusherSymmetry
INVARIANT LastEntryWins
CHECK_DEADLOCK FALSE
