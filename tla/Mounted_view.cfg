SPECIFICATION FairMountedSpec
CONSTANTS
    Paths <- SomePaths
    MaxSlots = 3
    MaxFrames = 4
    PageSize = 1
    FileSize = 3
    ReadSize = 3
    MaxRead = 2
    MaxDeaths = 2
INVARIANTS
    KernelSeesTheTree
    ReadsAreCarriedThrough
PROPERTIES
    ReadsComeBack
