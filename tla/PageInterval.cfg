CONSTANTS
    Pcts = {0, 100}
    FULL = 100
    Intervals = {1, 2}
    STALE_AFTER_INTERVALS = 1
    GONE_AFTER_POLLS = 2
    GONE_AFTER_S = 2
    SESSION_LENGTH = 2
    WEEK_LENGTH = 3
    LastPageTime = 4
    ResetDrop = 1
    Threshold = 1
    Levels = {0, 1, 3}
    BoostDrop = 2
    WindowLength = 3
    Pauses = {1, 3}
    Buckets = {1, 2}
    LastChartTime = 6
    Costs = {1, 3}
    SessionLength = 2
    WeekLength = 3
    MinCompare = 1
    LastWeeksTime = 8
    Splits = {1, 2}
    Jitters <- MCJitters
    Hour = 2
    SplitWeekLength = 2
    LastSplitTime = 4
    SessionSeries = "s"
    Weekly = {"a", "b"}
    Ghost = "g"
    Presets = {1, 3}
    Lookbacks = {"5m"}
    Refreshes = {"off"}
    MinSpan = 2
    CollectingUnder = 1
    ViewSessionLength = 2
    ViewWeekLength = 4
    LastViewTime = 3
    Orgs = {"o1", "o2"}
    Bare = {"o2"}
    Cookies = {"c1", "c2"}
    Refresh = 1
    LastIdentityTime = 1
SPECIFICATION Spec
INVARIANT
    PageFollowsTheInterval
CHECK_DEADLOCK FALSE
