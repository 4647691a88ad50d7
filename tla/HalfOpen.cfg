\* Two providers, a threshold of two failures: enough for a second probe.
SPECIFICATION Spec
CONSTANTS
    Ids = {a, b}
    Threshold = 2
    Cooldown = 1
    MaxTime = 3
PROPERTY OneProbe
CHECK_DEADLOCK FALSE
