SPECIFICATION Spec
CONSTANTS
    d1 = d1
    d2 = d2
    Data <- const_one
    Protected <- const_one
    Bare = Bare
    Garbage = Garbage
    Nothing = Nothing
    TimeoutTicks = 1
    RefreshTicks = 2
    MaxStall = 1
    Moods = {"up", "refusing", "broken", "silent", "down"}
PROPERTY RefusalReachesHeader
