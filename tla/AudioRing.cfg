SPECIFICATION FairSpec
CONSTANTS
    Capacity = 2
    Wrap = 6
    FadeFrames = 1
    TargetMin = 1
    TargetInitial = 1
    Headroom = 1
    TrimKeep = 0
    TrimError = 1
    PushSizes <- Packets
    Limits <- RingLimits
INVARIANTS
    HeardIsCurrent
PROPERTIES
    HeardAsPushed
    BurstIsPlayed
CHECK_DEADLOCK FALSE
