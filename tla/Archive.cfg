SPECIFICATION ArchiveSpec
CONSTANTS
    NumTargets = 3
    MaxThreads = 2
    MaxTargets = 2
    Window = 2
    Slack = 1
    MaxArrivals = 3
    NumServers = 2
    MaxStun = 2
    BatchSize = 2
    TimeLimit = 2
    Shown = 1
    Boot = 2
    Lateness = 1
    MaxDatagrams = 3
INVARIANTS
    TypeOK
    RttCoversRoundTrip
    ListenerKeepsReplies
    EngineTypeOK
    ListedWereAnswered
    EarlyAnswersCounted
