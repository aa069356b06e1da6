SPECIFICATION StatisticsSpec
CONSTANTS
    Nil = Nil
    long = long
    short = short
    Newest <- MCNewest
    Game <- MCGame
    FrontNine = {1}
    BackNine = {10}
    Par <- MCPar
    Rating <- MCRating
    Slope <- MCSlope
    Genders = {"women", Nil}
    HolesToSave <- MCHolesToSave
    Older <- MCOlder
    Pasts = {2, 22}
    Windows = {0, 2}
    MaxSaves = 2
INVARIANTS FiguresAddUp HandicapIsOfTheRecord CountedWasComplete
CHECK_DEADLOCK FALSE
