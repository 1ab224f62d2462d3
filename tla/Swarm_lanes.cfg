SPECIFICATION FairSwarm
CONSTANTS
    Peers = {1, 2}
    Home = 0
    Positions = {0, 1}
    Width = 2
    Grace = 1
    MaxFetches = 2
    MaxTroubles = 1
INVARIANTS
    DownloadsAreTrue
    PlansAreWhole
PROPERTIES
    DownloadsEnd
CHECK_DEADLOCK FALSE
