\* Nobody names a timeout, as in the router's own call (router.js:313).
SPECIFICATION Spec
CONSTANTS
    Callers = {c1, c2}
    NoOne = NoOne
    MaxQueueDepth = 2
    DefaultTimeout = 2
    Timeouts = {0}
    TimerSlack = 1
    MaxTime = 4
    MaxEntries = 2
INVARIANT DefaultTimeoutHonoured
