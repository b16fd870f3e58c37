SPECIFICATION Spec
CONSTANTS
    Ips = {"i1", "i2"}
    Configs <- WarpConfigs
    FallbackPorts <- WarpPorts
    MaxProbes = 2
    Conns = {c1}
    V4 = {a4, b4}
    V6 = {a6}
    MaxConnections = 1
    MaxDials = 1
    MaxCandidates = 3
    MaxParallel = 2
    Delay = 1
    ConnectTimeout = 2
    Errors = {"error", "notReady"}
    MaxRecords = 2
    DrainGrace = 1
CHECK_DEADLOCK FALSE
PROPERTY NotReadyIsNotCounted
