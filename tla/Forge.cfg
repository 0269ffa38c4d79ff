SPECIFICATION ForgeSpec
CONSTANTS
    MaxPort = 7
    Procs = 3
    Byte = 4
    Shown = 2
    PortBits = 2
    TopN = 2
    ModBase = 4
    MaxCycle = 5
    Values = {0, 1, 2, 3}
    MaxLen = 6
    N = 3
    Timeout = 2
    Delay = 1
INVARIANTS
    TypeOK
    SlicesPartition
    FinishedCoversSlice
    ReportNeedsFailure
    ChecksumsCorrect
    RankingCorrect
    RegistersCorrect
    LogStatisticsCorrect
    ProbeTypeOK
    SilentNeverAhead
    ScannerListsWhatIsFound
PROPERTIES
    LastTriesEveryPort
    Terminates
