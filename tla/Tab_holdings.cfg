SPECIFICATION FairSpec
CONSTANTS
    Slots <- OneSlot
    Parts <- TwoParts
    FirstTree <- One
    LateJoin = FALSE
    Early = FALSE
    MaxCalls = 2
    MaxUpsets = 1
INVARIANTS
    CardIsTrue
    ReloadsComeBack
PROPERTIES
    LostSlotsAreRetracted
CHECK_DEADLOCK FALSE
