SPECIFICATION Spec
CONSTANTS
    d1 = d1
    Data <- const_one
    Protected <- const_one
    Bare = Bare
    Garbage = Garbage
    Nothing = Nothing
    Parts = 1
    TimeoutTicks = 2
    ConnectTicks = 2
    AllocMayFail = TRUE
    Moods = {"up", "refusing"}
    TickMod = 4
    RefreshTicks = 1
    MaxStall = 1
    ServerPrompt = TRUE
    Signals = FALSE
    SelfChecks = {FALSE}
INVARIANTS DashboardTypeOK HeaderLag AttemptOnTime ScreenKeepsLastGood
PROPERTIES NumbersComeFromTheRound HeaderTrue AgeExactWithinAWrap
