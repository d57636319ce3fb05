SPECIFICATION Spec
CONSTANTS
    MaxPending = 2
    Channels <- MCChannels
    MaxToken = 3
    MaxGen = 4
    MaxRefs = 2
INVARIANTS
    DeviceIsCurrent
    NothingOwedForgotten
    CaptureFollowsStream
