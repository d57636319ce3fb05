SPECIFICATION FairSpec
CONSTANTS
    red = red
    green = green
    None = None
    Slots <- MCSlots
    MaxCache = 2
    MaxPaths = 1
    SnapshotForce = FALSE
    Scenarios <- MCSettling
PROPERTIES
    PictureArrives
    BackgroundSilenced
CHECK_DEADLOCK FALSE
