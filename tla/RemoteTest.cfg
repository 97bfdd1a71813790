SPECIFICATION FairSpec
CONSTANTS
    a = a
    b = b
    Typing <- const_typing
    Strange = Strange
    Named <- const_named
    Other = Other
    MaxCommands = 2
    EmitMayFail = TRUE
    VisibleRows = 3
INVARIANTS RemoteTypeOK LogTellsAll RawInOrder OnlyAskedKeysDown FooterTrue
PROPERTIES AllShown
CHECK_DEADLOCK FALSE
