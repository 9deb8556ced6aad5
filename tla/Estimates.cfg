CONSTANTS
    ResetDrop = 1
    MinSpan = 1
    Length = 3
    Hour = 1
    CellHour = 2
    Threshold = 1
    MinDelta = 2
    MinCompare = 1
    Anchor = 3
    WeekLength = 6
    Attribute = 4
    Offset = 1
    Full = 4
    Scale = 60
    BoostDrop = 2
    Lookbacks = {3, 6}
    FirstWeek = {2}
    LastAccountTime = 6
    WeekHours = 3
    MinElapsed = 1
    Out = 4
    PaceDrop = 3
    Levels = {0, 1, 4}
    Weeks = 2
    Slack = 1
    Pcts = {1, 2}
    MaxLimits = 2
    Amounts = {1, 2}
    Exponents = {2, 60}
    PLAUSIBLE_EXPONENTS = {2}
    DEFAULT_EXPONENT = 2
    Untils = {3}
    NotThere = NotThere
SPECIFICATION Spec
INVARIANTS
    RunwayIsTrue
    CostsAreHonest
    TimeIsAccountedFor
    PaceHangsTogether
    SpendIsAgreed
PROPERTY
    LimitsKeepTheirKeys
CHECK_DEADLOCK FALSE
