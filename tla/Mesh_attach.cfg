SPECIFICATION FairSpec
CONSTANTS
    Origin = 1
    Mirrors <- OneMirror
    Mounts <- OneMount
    Tabs <- OneTab
    Parties <- Either
    Tickets <- BothTickets
    MaxTree = 2
    Polite = {1}
    MaxHave = 1
INVARIANTS
    PeersAreHonest
PROPERTIES
    DepartedPeersAreDropped
    NewsReachesEveryBook
    AttachEnds
CHECK_DEADLOCK FALSE
