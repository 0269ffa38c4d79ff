SPECIFICATION FairSpec
CONSTANTS
    Threads = 2
    PerThread = 2
INVARIANTS
    WaveFillsPortSpace
