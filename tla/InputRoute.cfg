SPECIFICATION FairSpec
CONSTANTS
    red = red
    green = green
    None = None
    Slots <- MCSlots
    Capacity = 2
    Scenarios <- MCHands
INVARIANTS
    HeldIsTracked
    GrabIsOurs
    MaskIsHonest
PROPERTIES
    InTimeOrder
    NothingStuck
    SteadyGrab

CHECK_DEADLOCK FALSE
