SPECIFICATION NatSpec
CONSTANTS
    a = a
    b = b
    Sides = {a, b}
    MaxPort = 2
    First <- TwoSlices
    KeepFlows <- OneKeeper
    Lifetime = 2
    MaxDelay = 1
    MaxFlight = 2
    Interval = 1
    Duration = 2
    Late = 0
    NumServers = 3
    Needed = 2
    Ips = {"a", "b"}
    ExtPorts = {1, 2}
    MaxArrivals = 2
SYMMETRY HostSymmetry
INVARIANTS
    HoleTypeOK
    ReportMeansHole
    AnalyzerTypeOK
    VerdictErrsTowardsOpen
