SPECIFICATION FairMirrorSpec
CONSTANTS
    DirPaths <- NoDirs
    FilePaths <- TwoFiles
    Stamps <- TwoStamps
    Signed = TRUE
    HistoryBudget = 2
    MaxDelta = 2
    MaxManifest = 9
    MaxTouches = 1
    MaxScanFailures = 0
    SizeOf <- SameSize
    Selections <- EverythingOrOne
    PasswordMayChange = FALSE
    MaxRestarts = 1
    MaxCrashes = 1
    MaxRuns = 2
INVARIANTS
    CopiesAreExact
PROPERTIES
    RunsEnd
CHECK_DEADLOCK FALSE
