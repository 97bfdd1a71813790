SPECIFICATION FairClientSpec
CONSTANTS
    d1 = d1
    Data <- const_one
    Protected <- const_one
    Bare = Bare
    Garbage = Garbage
    Nothing = Nothing
    Parts = 2
    TimeoutTicks = 2
    ConnectTicks = 1
    Moods = {"up", "refusing", "forbidding", "broken", "silent", "down"}
    AllocMayFail = FALSE
INVARIANTS TypeOK RoundConsistent
PROPERTIES RefinesRefreshRound RoundEnds
