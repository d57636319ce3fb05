SPECIFICATION FairSpec
CONSTANTS
    s1 = s1
    s2 = s2
    nobody = nobody
    Setters <- MCSetters
    Generations <- MCGenerations
    Nobody = nobody
    QueueDepth = 2
    MaxEpoch = 4
INVARIANTS
    NoPayloadAfterClose
    CloseNotOvertaken
    NoLostWakeup
PROPERTIES
    CloseTerminates
    ImplementsPrivacy
CHECK_DEADLOCK FALSE
