\* Three concurrent calls on a fixed registry: the gate, the failover loop, the
\* breaker and the ranking under every order of upstream and consumer steps.
SPECIFICATION Spec
CONSTANTS
    Callers = {r1, r2, r3}
    NoOne = NoOne
    Ids = {a, b}
    Threshold = 2
    Cooldown = 1
    Window = 1
    Asks <- MCAsks
    Ttfbs = {500}
    ToolIds = {a}
    Registrations <- MCRegistrations
    Orders <- MCOrders
    MaxQueueDepth = 1
    NoticeWindow = 2
    NoticeTries = 2
    TransientTries = 3
    MaxChunks = 3
    MaxTime = 2
    MaxChanges = 0
SYMMETRY Symmetric
INVARIANTS
    RouterTypeOK
    SlotHeldWhileRunning
    BreakerNeverOvershoots
PROPERTIES
    SuccessMeansDelivery
CHECK_DEADLOCK FALSE
