SPECIFICATION AnalyzerSpec
CONSTANTS
    NumServers = 3
    Needed = 2
    Ips = {"a", "b"}
    ExtPorts = {1, 2}
    MaxArrivals = 2
INVARIANTS
    PortPerServerIsSymmetric
