SPECIFICATION Spec
CONSTANTS
    w1 = w1  w2 = w2
    Workers <- TwoWorkers
    Limit = 2
    MaxActive = 2
    MaxAttempts = 2
    Gap = 1
    TTL = 1
    RateRetry = 1
    CoolTime = 1
    Delays = {0, 2}
    MaxWait = 1
    DayLength = 2
    Unknown = Unknown
    MaxNow = 3
INVARIANT SlotsAccounted
PROPERTIES ReportsCover HonoursRateLimit CallsEnd
CHECK_DEADLOCK FALSE
