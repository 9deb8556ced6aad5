SPECIFICATION Spec
CONSTANTS
    Interval = 1
    QuietPolls = 2
    Recent = 1
    Retention = 4
    MaxTime = 7
CHECK_DEADLOCK FALSE
INVARIANT HistoryLightsUpOnce
