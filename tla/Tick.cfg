SPECIFICATION TickFairSpec
CONSTANTS
    Interval = 2
    Capacity = 2
    Valid = {p1, p2}
    FirstPolicy = p1
    Broken = {bad}
    NoPolicy = none
    MaxNow = 6
    MaxSignals = 2
    MaxEdits = 1
    Failures = TRUE
INVARIANTS
    ControllerConsistent
    MetricsMatchRecording
PROPERTIES
    TicksUntilStopped
CHECK_DEADLOCK FALSE
