SPECIFICATION FairSpec
CONSTANTS
    Size = 7
    ChunkBytes = 2
    Chunk = 4
    FromOrigin = FALSE
    Headers <- Seeks
    PromptPage = TRUE
    MaxRequests = 2
    MaxDeaths = 1
    MaxFailures = 1
    MaxRelayLadder = 2
    MaxReadLen = 2
    MaxBody = 9
INVARIANTS
    StreamsAreTrue
    WireReadsTrue
PROPERTIES
    NothingHangs
CHECK_DEADLOCK FALSE
