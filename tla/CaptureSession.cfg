SPECIFICATION MicSpec
CONSTANTS
    MaxPending = 2
    Channels <- MCChannels
    QueueDepth = 1
    Generations <- MCGenerations
    MaxEpoch = 3
    MaxGen = 3
    MaxToken = 2
    Profiles <- MCProfiles
    MaxStreams = 2
    MaxConnections = 2
INVARIANTS
    CreditInOnePlace
    MicIsOwn
PROPERTIES
    LeaveCompletes
    AnswersKeepComing
    AvailabilityConverges
    MicIsHeard
