SPECIFICATION Spec
CONSTANTS
    RegisterCooldown = 4
    PoolFiles <- EmptyPool
    Second = 2
    Skews = {0, 5}
    StartTime = 3
    MaxTime = 8
    QueueCap = 2
    Dials = {d1, d2}
    MinSamples = 1
    DegradedRounds = 2
    ReconnectAfter = 2
    RebuildConfigAfter = 3
    ReregisterAfter = 3
    RotateIdentityAfter = 4
    BackoffMin = 0
    BackoffMax = 0
    RefreshInterval = 0
    MaxStarts = 1
SYMMETRY DialSymmetry
INVARIANT RecoveryInstallsTunnel
INVARIANT EgressVerdictsAreEarned
PROPERTY CooldownKept
