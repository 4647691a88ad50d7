\* The same question asked of any provider and of one.
SPECIFICATION Spec
CONSTANTS
    k1 = k1
    k2 = k2
    p = p
    q = q
    Providers = {p, q}
    Requests = {r1, r2}
    Keys = {k1, k2}
    TtlMs = 1
    MaxEntries = 1
    Asks <- PinAsks
    MaxTime = 2
PROPERTY PinRespected
CHECK_DEADLOCK FALSE
