\* Four callers, one short explicit timeout and one default that outlives it:
\* queues of two, timers that fire late and timers that outlive their entry.
SPECIFICATION FairSpec
CONSTANTS
    Callers = {c1, c2, c3, c4}
    NoOne = NoOne
    MaxQueueDepth = 2
    DefaultTimeout = 2
    Timeouts = {0, 1, 2}
    TimerSlack = 1
    MaxTime = 4
    MaxEntries = 3
INVARIANTS
    TypeOK
    MutualExclusion
    NoLostSlot
    QueueMatchesWaiters
    ExplicitTimeoutHonoured
PROPERTIES
    AnswersJustified
    ImplementsFifoLock
    EveryWaiterAnswered
    TimedWaiterAnswered
