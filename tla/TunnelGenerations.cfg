SPECIFICATION FairSpec
CONSTANTS
    Conns = {c1, c2}
    MaxGen = 3
    MaxTime = 7
    DrainGrace = 4
    RecoveryDrainGrace = 1
    MaxAge = 5
    MinDrainGrace = 2
INVARIANTS TypeOK ServiceIsLive DrainWindowKept
PROPERTIES NoDeadLease ReplacedGenerationsEnd
CHECK_DEADLOCK FALSE
