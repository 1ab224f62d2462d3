SPECIFICATION FairSpec
CONSTANTS
    Attempts = {1, 2}
    Peers = {11, 12}
    Trees = {1, 2}
    Files <- TwoTrees
    Window = 2
    Reaches = {1, 2}
    Members = {1, 2}
    StrikeLimit = 2
    TightTries = 1
    MaxMoves = 1
INVARIANTS
    ClientsAreWellHomed
PROPERTIES
    RecordsAreSpentByEvidence
    LiveOriginsAreReached
