SPECIFICATION FairSpec
CONSTANTS
    Levels = {0, 1}
    MaxFaults = 1
    Places <- MCPlaces
    Scenarios <- MCHands
INVARIANTS
    AcknowledgedSurvives
PROPERTIES
    KnobNotYanked
    NothingPops
    EditLands
    KnobSettles
    EditsSaved
