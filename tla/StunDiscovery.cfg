SPECIFICATION FairSpec
CONSTANTS
    NumServers = 3
    MaxStun = 2
    BatchSize = 2
    TimeLimit = 1
    Slack = 1
    MaxArrivals = 3
INVARIANTS
    TypeOK
    FirstAnswerWins
    BestIsFastestValid
PROPERTIES
    RetryIsInert
    ImplementsElection
    Terminates
