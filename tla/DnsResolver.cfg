SPECIFICATION FairSpec
CONSTANTS
    Callers = {c1, c2, c3}
    Hosts = {h1, h2}
    QTypes = {"A"}
    NoCaller = NoCaller
    MaxTime = 1
    CacheTtl = 2
    NegativeTtl = 1
    MaxCacheEntries = 1
INVARIANTS TypeOK SlotsHaveLeaders AnswersAreFresh CacheIsBounded
PROPERTY EveryTaskEnds
CHECK_DEADLOCK FALSE
