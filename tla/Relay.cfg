SPECIFICATION FairSpec
CONSTANTS
    Idle = 2
    Grace = 1
    MaxChunks = 1
    MaxPieces = 2
    MaxTime = 2
INVARIANTS TypeOK NoTaskLeft GraceIsKept CountsAreExact
PROPERTIES ActiveRelayIsKept HalfEndsWhole
CHECK_DEADLOCK FALSE
