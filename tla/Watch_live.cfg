SPECIFICATION FairWatchSpec
CONSTANTS
    m1 = m1
    DirPaths <- OneDir
    FilePaths <- OneFile
    Stamps <- TwoStamps
    Signed = TRUE
    HistoryBudget = 2
    MaxDelta = 2
    MaxManifest = 9
    MaxTouches = 2
    MaxScanFailures = 1
    Mounts <- OneMount
    Backlog = 1
    WireCap = 1
    MaxLosses = 1
PROPERTIES
    NoticedChangesArePublished
    FollowersConverge
CHECK_DEADLOCK FALSE
