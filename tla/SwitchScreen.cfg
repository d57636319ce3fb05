SPECIFICATION Spec
CONSTANTS
    red = red
    green = green
    None = None
    Slots <- MCSlots
    MaxCache = 2
    MaxPaths = 1
    SnapshotForce = FALSE
    Scenarios <- MCScreen
INVARIANTS
    ScreenIsFed
    ScreenIsAwake
    RefreshIsOwn
    OnePicture
    VisibleIsAlive
PROPERTIES
    ReplayIsExact
CHECK_DEADLOCK FALSE
