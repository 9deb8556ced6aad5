CONSTANTS
    PANEL_KEYS = {"interval"}
    FlagKeys = {"interval"}
    Values = {60, 300}
    Bad = 1
    Default = 60
    Periods = {1, 2}
    DEFAULT_RETENTION = 1
    Absent = Absent
    Null = Null
    NoneText = NoneText
    Envs <- MCEnvs
    Ages = {3}
    LastDay = 2
    AVAILABLE <- MCAvailable
    States = {"ok", "bad"}
    UNKNOWN = "unknown"
    CHECK_EVERY_S = 1
    FAILURES_BEFORE_UNKNOWN = 2
    MaxClock = 3
    Threads = {0, 1}
    Daily = 0
    CHECK_INTERVAL_S = 3
    MANUAL_MIN_INTERVAL_S = 1
    FIRST_CHECK_DELAY_S = 1
    Releases = {1, 2}
    LastCheckTime = 4
    Openers = {1, 2}
    SCHEMA_VERSION = 11
    Old = {0, 1, 4, 9, 11}
    Events = {1, 3}
    Kinds = {"week_reset", "boost", "prune"}
    WEEK_RESET_KIND = "week_reset"
    BOOST_KIND = "boost"
    PRUNE_KIND = "prune"
    Shapes = {"new", "old"}
    ReadLimits = {1, 2}
    OVERREAD = 2
    PAGE = 1
    SAMPLE_KEEP = 1
    AGED = 1
    FLOOR = 1
    MaxNow = 2
    MaxEvents = 4
    MaxSamples = 3
    RATE_WINDOW = "five_hour"
    WeeklyLimits = {"seven_day"}
    Grant = "cloud_credit"
    GONE_AFTER_POLLS = 2
    GONE_AFTER_S = 1
    Retention = 2
    LastPollTime = 4
    GRANT_HEARTBEAT_S = 2
    EXPIRED_VISIBLE_S = 1
    EXPIRY_LEVELS = {1, 2}
    Amounts = {0, 1}
    Expiries = {3}
    LastGrantTime = 4
    Interval = 1
    QuietPolls = 2
    EventsRecalled = 9
    OverageAge = 4
    LastCreditTime = 7
SPECIFICATION Spec
INVARIANTS
    SavedIsRunning
    RowTellsLastAnswers
    AvailableIsAnnounced
    MigrationsRecover
    ReadersMissNothing
    AbsenceIsToldOnce
    GrantsAreFollowed
    EventsAreRuns
PROPERTY NothingGoesUnasked
CHECK_DEADLOCK FALSE
