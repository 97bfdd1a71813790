SPECIFICATION FairSpec
CONSTANTS
    k1 = k1
    k2 = k2
    k3 = k3
    v1 = v1
    MaxBuckets = 3
    MaxTop = 3
    WordMod = 256
    Keys <- const_Keys
    Versions <- const_Versions
    NoText = NoText
    Missing = Missing
    Garbage = Garbage
    Failed = Failed
    StatsDocs <- const_StatsDocs
    StatusDocs <- const_StatusDocs
    CountMod <- const_CountMod
    TopRows = 2
    Widths <- const_Widths
    BufferWidth = 11
    BufferHeight = 2
    SelfChecks = TRUE
INVARIANTS ScreenTypeOK BarsAreTheNewest TablesShowTheLists ChartsReadable SelfCheckSeesCharts ColumnsSpanTheCard
PROPERTIES TablesComeToRest StatusAsLastTold
