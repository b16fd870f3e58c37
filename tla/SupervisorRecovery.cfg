SPECIFICATION FairSpec
CONSTANTS
    RegisterCooldown = 2
    PoolFiles <- OnePoolFile
    Second = 1
    Skews = {0}
    StartTime = 3
    MaxTime = 6
    QueueCap = 2
    Dials = {}
    MinSamples = 1
    DegradedRounds = 2
    ReconnectAfter = 1
    RebuildConfigAfter = 1
    ReregisterAfter = 2
    RotateIdentityAfter = 3
    BackoffMin = 0
    BackoffMax = 1
    RefreshInterval = 2
    MaxStarts = 2
INVARIANTS TypeOK AccountsAgree DiskAccountProven HealthyTunnelProbed
PROPERTIES LadderIgnoresOldProbes HandlersReturn ProbesAreSent
