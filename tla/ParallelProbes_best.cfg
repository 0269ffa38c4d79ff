SPECIFICATION FairProbes
CONSTANTS
    N = 3
    Timeout = 2
    Delay = 1
    Shown = 2
INVARIANT DiscovererListsWhatItMeasured
