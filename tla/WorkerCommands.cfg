\* Two keys and four suppress or refresh calls; a stopped session stays stopped.
CONSTANTS
    Depth = 2
    MaxAttempts = 2
    MaxReactivations = 1
    MaxPresses = 2
    MaxControls = 4
SPECIFICATION FairSpec
INVARIANTS
    LastToggleWins
    EdgesKept
PROPERTIES
    CallsReturn
CHECK_DEADLOCK FALSE
