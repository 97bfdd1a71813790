SPECIFICATION FairSpec
CONSTANTS
    d1 = d1
    Data <- const_one
    Protected <- const_one
    Bare = Bare
    Garbage = Garbage
    Nothing = Nothing
    Parts = 1
    TimeoutTicks = 1
    ConnectTicks = 2
    AllocMayFail = FALSE
    Moods = {"up"}
    TickMod = 4
    RefreshTicks = 1
    MaxStall = 0
    ServerPrompt = TRUE
    Signals = FALSE
    SelfChecks = {FALSE}
PROPERTY Converges
