SPECIFICATION WatchSpec
CONSTANTS
    m1 = m1
    DirPaths <- OneDir
    FilePaths <- TwoFiles
    Stamps <- OneStamp
    Signed = FALSE
    HistoryBudget = 2
    MaxDelta = 1
    MaxManifest = 3
    MaxTouches = 3
    MaxScanFailures = 0
    Mounts <- OneMount
    Backlog = 1
    WireCap = 1
    MaxLosses = 1
INVARIANTS
    TypeOK
    SlotsAreStable
    ServedMatchesListing
    DeltasAreSound
    MountsStayPublished
PROPERTIES
    ImplementsPublishedTree
CHECK_DEADLOCK FALSE
