\* No key and six suppress or refresh calls; a stopped session stays stopped.
CONSTANTS
    Depth = 2
    MaxAttempts = 2
    MaxReactivations = 1
    MaxPresses = 0
    MaxControls = 6
SPECIFICATION Spec
CHECK_DEADLOCK FALSE
INVARIANTS
    RefreshHeeded
