SPECIFICATION ShmSpec
CONSTANTS
    Threads = 3
    PerThread = 3
    Overall = 4
    PageWords = 4
    MaxCount = 3
    MaxWrites = 2
    Addrs <- MCAddrs
    Text <- MCText
    Digits <- MCDigits
    Colon = ":"
    Nul = "nul"
    ShmSize = 6
    MaxRuns = 3
INVARIANTS
    PoolTypeOK
    TasksDealtOnce
    CalmReaderGetsBlock
    TypeOK
    CompleteCoversRest
    PublishTypeOK
PROPERTIES
    Terminates
    ImplementsRegister
    NoErrorOncePublished
