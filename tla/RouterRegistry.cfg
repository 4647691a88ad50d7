\* Two calls while the registry changes twice under them, with fairness; the clock
\* stands still, so an open circuit stays open.
SPECIFICATION FairSpec
CONSTANTS
    Callers = {r1, r2}
    NoOne = NoOne
    Ids = {a, b}
    Threshold = 2
    Cooldown = 1
    Window = 1
    Asks <- MCRegistryAsks
    Ttfbs = {500}
    ToolIds = {a}
    Registrations <- MCRegistrations
    Orders <- MCOrders
    MaxQueueDepth = 1
    NoticeWindow = 1
    NoticeTries = 2
    TransientTries = 2
    MaxChunks = 1
    MaxTime = 0
    MaxChanges = 2
PROPERTIES
    ToolsNeverDegrade
    FailureMeansExhaustion
    EveryCallSettles
CHECK_DEADLOCK FALSE
