SPECIFICATION Spec
CONSTANTS
    RegisterCooldown = 4
    PoolFiles <- EmptyPool
    Second = 1
    Skews = {0}
    StartTime = 3
    MaxTime = 8
    QueueCap = 2
    Dials = {d1, d2}
    MinSamples = 1
    DegradedRounds = 2
    ReconnectAfter = 1
    RebuildConfigAfter = 2
    ReregisterAfter = 3
    RotateIdentityAfter = 4
    BackoffMin = 0
    BackoffMax = 0
    RefreshInterval = 0
    MaxStarts = 1
PROPERTY LadderIgnoresOldEvidence
