\* Three addresses for two buckets, a burst of two, two tokens every five
\* milliseconds (so that levels are fractions), seconds of two milliseconds.
SPECIFICATION Spec
CONSTANTS
    Ips = {ip1, ip2, ip3}
    Rate = 2
    Burst = 2
    WindowMs = 5
    SecondMs = 2
    MaxTracked = 2
    MaxTime = 6
    MaxGranted = 5
SYMMETRY Symmetric
INVARIANTS
    TypeOK
    RateBounded
PROPERTY RetryAfterHonest
CHECK_DEADLOCK FALSE
