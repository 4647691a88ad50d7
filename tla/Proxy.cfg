\* Two requests of every kind at a time, a cache of one entry that lives one unit of time,
\* and a shutdown at any moment.
SPECIFICATION FairSpec
CONSTANTS
    k1 = k1
    k2 = k2
    p = p
    q = q
    Providers = {p}
    Requests = {r1, r2}
    Keys = {k1, k2}
    TtlMs = 1
    MaxEntries = 1
    Asks <- MCAsks
    MaxTime = 2
INVARIANTS
    ProxyTypeOK
    ActiveCountsInFlight
    CleanDrainCutsNothing
    CacheHoldsWholeAnswers
PROPERTIES
    NoStaleAnswer
    EveryRequestAnswered
    ShutdownEnds
CHECK_DEADLOCK FALSE
