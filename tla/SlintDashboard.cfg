SPECIFICATION FairSpec
CONSTANTS
    d1 = d1
    d2 = d2
    Data <- const_two
    Protected <- const_one
    Bare = Bare
    Garbage = Garbage
    Nothing = Nothing
    TimeoutTicks = 1
    RefreshTicks = 2
    MaxStall = 1
    Moods = {"up", "refusing", "broken", "silent", "down"}
INVARIANTS SlintTypeOK NewestShown FreshHeader BacklogBounded
PROPERTIES Converges OutageShown
