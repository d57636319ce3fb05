SPECIFICATION FairSpec
CONSTANTS
    red = red
    green = green
    None = None
    Slots <- MCSlots
    Capacity = 2
    Scenarios <- MCEnding
PROPERTIES
    GrabReturns
CHECK_DEADLOCK FALSE
