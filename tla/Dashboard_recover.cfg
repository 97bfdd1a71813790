SPECIFICATION FairSpec
CONSTANTS
    d1 = d1
    Data <- const_one
    Protected <- const_one
    Bare = Bare
    Garbage = Garbage
    Nothing = Nothing
    Parts = 1
    TimeoutTicks = 3
    ConnectTicks = 2
    AllocMayFail = FALSE
    Moods = {"up", "silent"}
    TickMod = 4
    RefreshTicks = 1
    MaxStall = 0
    ServerPrompt = TRUE
    Signals = TRUE
    SelfChecks = {TRUE, FALSE}
PROPERTIES Converges OutageShown SignalEnds SelfCheckLeaves
