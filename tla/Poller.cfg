SPECIFICATION FairSpec
CONSTANTS
    Loop = loop
    Requests = {r1, r2}
    Cookies = {c1, c2}
    NoCookie = none
    Intervals = {2}
    MaxBackoffS = 3
    AuthRetryS = 2
    RateLimitMinS = 2
    RateLimitMaxS = 3
    ForceMinS = 1
    RetryAfters = {0, 4}
    FailureCap = 1
    StoreMayFail = TRUE
    UpdateChecks = TRUE
INVARIANTS
    OnePollAtATime
    ClientInUseIsOpen
    CountsAgree
PROPERTIES
    OnlyTheLoopSetsItsTimer
    ForcedPollsAreSpaced
    PollsComeBack
