SPECIFICATION FairSpec
CONSTANTS
    Idle = 2
    Grace = 1
    MaxChunks = 1
    MaxPieces = 1
    MaxTime = 2
PROPERTY CancelEndsRelay
CHECK_DEADLOCK FALSE
