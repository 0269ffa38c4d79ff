SPECIFICATION FairSpec
CONSTANTS
    MaxPort = 5
    Procs = 2
PROPERTIES
    WaveEnds
