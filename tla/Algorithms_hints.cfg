SPECIFICATION Inputs
CONSTANTS
    Byte = 4
    Shown = 2
    PortBits = 2
    TopN = 2
    ModBase = 4
    MaxCycle = 5
    Values = {0, 1, 2, 3}
    MaxLen = 6
CHECK_DEADLOCK FALSE
INVARIANT TopSuggested
