SPECIFICATION FairSpec
CONSTANTS
    Ports = {p1, p2}
    QueueDepth = 1
    IdleTimeout = 2
    StopGrace = 1
    MaxDatagrams = 2
CHECK_DEADLOCK FALSE
INVARIANTS TypeOK DatagramsAccounted
PROPERTIES ActiveAssociationKept AssociationEnds
