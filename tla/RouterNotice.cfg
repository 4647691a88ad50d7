\* A notice whose signs arrive in two chunks.
SPECIFICATION Spec
CONSTANTS
    Callers = {r1, r2}
    NoOne = NoOne
    Ids = {a, b}
    Threshold = 2
    Cooldown = 1
    Window = 1
    Asks <- MCAsks
    Ttfbs = {500}
    ToolIds = {a}
    Registrations <- MCRegistrations
    Orders <- MCOrders
    MaxQueueDepth = 1
    NoticeWindow = 2
    NoticeTries = 2
    TransientTries = 3
    MaxChunks = 3
    MaxTime = 2
    MaxChanges = 0
INVARIANT NoticeNeverDelivered
CHECK_DEADLOCK FALSE
