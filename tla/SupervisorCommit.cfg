SPECIFICATION Spec
CONSTANTS
    RegisterCooldown = 2
    PoolFiles <- EmptyPool
    Second = 1
    Skews = {0}
    StartTime = 3
    MaxTime = 5
    QueueCap = 2
    Dials = {}
    MinSamples = 1
    DegradedRounds = 2
    ReconnectAfter = 1
    RebuildConfigAfter = 1
    ReregisterAfter = 1
    RotateIdentityAfter = 2
    BackoffMin = 0
    BackoffMax = 0
    RefreshInterval = 0
    MaxStarts = 1
INVARIANT FailedStepKeepsAccount
