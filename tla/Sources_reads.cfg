SPECIFICATION BoundedSpec
CONSTANTS
    r1 = r1
    r2 = r2
    p1 = p1
    p2 = p2
    Readers <- TwoReaders
    Peers <- TwoPeers
    PeerTree <- OneDiverged
    PeerHolds <- AllAndOne
    Leavers <- OnePeer
    Slots <- TwoSlots
    Initial <- TwoSlots
    Editable <- OneSlot
    Parts <- TwoParts
    MaxContent = 2
    MaxOutages = 1
    StoreFails = TRUE
    MaxStrikes = 2
    MaxChars = 8
INVARIANTS
    ReadsAreSound
    AdvertisedSlotsAreServable
    ServingFieldsAreTrue
    LoneReadsAreSeeded
PROPERTIES
    ReadsEnd
CHECK_DEADLOCK FALSE
