SPECIFICATION Spec
CONSTANTS
    d1 = d1
    Data <- const_one
    Protected <- const_one
    Bare = Bare
    Garbage = Garbage
    Nothing = Nothing
    Parts = 2
    TimeoutTicks = 2
    ConnectTicks = 2
    AllocMayFail = FALSE
    Moods = {"up", "down"}
    TickMod = 4
    RefreshTicks = 1
    MaxStall = 0
    ServerPrompt = FALSE
    Signals = FALSE
    SelfChecks = {FALSE}
INVARIANT RedBadgeWasTold
