SPECIFICATION Spec
CONSTANTS
    Pcts = {0, 2}
    Thresholds = {1, 2}
    BoostMinDrop = 2
    Jitters = {0, 1}
    MinGap = 1
    OverageMayFail = TRUE
    MayCrash = TRUE
    MaxTime = 3
    MaxWeek = 2
INVARIANTS
    RecordsMatchHistory
    AnnouncedOnce
