SPECIFICATION HoleSpec
CONSTANTS
    a = a
    b = b
    Sides = {a, b}
    MaxPort = 2
    First <- TwoSlices
    KeepFlows <- OneKeeper
    Lifetime = 3
    MaxDelay = 0
    MaxFlight = 1
    Interval = 5
    Duration = 60
    Late = 0
PROPERTIES
    KeepersHoldTheHole
