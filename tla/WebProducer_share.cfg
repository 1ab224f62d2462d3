SPECIFICATION Spec
CONSTANTS
    Paths = {1, 2, 3}
    Chunks <- SomeChunks
    Picked = {1, 2}
    Tasks = {t1, t2}
    t1 = t1
    t2 = t2
    Watchers = {1}
    MaxManifest = 2
    MaxEdits = 2
    MaxAsks = 2
SYMMETRY Of2Tasks
INVARIANTS
    SignedTreesAgree
    WatchersHoldTheLatest
    ChunksAreTrue
PROPERTIES
    QuietScansPublish
CHECK_DEADLOCK FALSE
