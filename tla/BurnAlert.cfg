SPECIFICATION Spec
CONSTANTS
    Rates = {0, 9, 10, 18, 20}
    NoRate = none
    Thresholds = {10, 20}
    PollsPerSecond = 1
    MaxTime = 6
    MaxErrors = 2
INVARIANT
    ClearsAnswerAlerts
PROPERTY
    OneEventPerCrossing
