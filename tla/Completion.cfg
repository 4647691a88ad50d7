\* Providers of every format, replies with thoughts and tool calls whole and torn,
\* against every cut of the stream, silence, loss, slow consumers and aborts.
SPECIFICATION FairSpec
CONSTANTS
    a = a
    p = p
    y = y
    g = g
    Providers = {a, p, y, g}
    Format <- MCFormat
    Orders <- MCOrders
    Replies <- MCReplies
    FetchTimeoutMs = 2
    HeartbeatMs = 1
    DeadlineMs = 2
    TimerSlack = 1
INVARIANTS
    CompletionTypeOK
    WaitBounded
    CutsDontMatter
    
    AbortStopsReading
PROPERTIES
    SilentUpstreamEnds
    AbortAnswered
CHECK_DEADLOCK FALSE
