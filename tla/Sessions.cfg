CONSTANTS
    Length = 3
    Tolerance = 1
    Margin = 1
    Retention = 4
    Floor = 5
    Jitters = {0, 1}
    SameSecond = FALSE
    MaxTime = 6
SPECIFICATION Spec
INVARIANT RowsAreSessions
PROPERTIES
    RecentEqualsFull
    HistoryIsKept
