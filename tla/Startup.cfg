SPECIFICATION FairSpec
CONSTANTS
    Absent = Absent
    Mistyped = Mistyped
    NoFile = NoFile
    Unset = Unset
    IntMod <- const_IntMod
    ArgLists <- const_ArgLists
    Files <- const_Files
    Lengths <- const_Lengths
INVARIANTS StartupTypeOK ConfigInRange OneFileServesBoth ExitClean
PROPERTIES EarlySignalEnds
CHECK_DEADLOCK FALSE
