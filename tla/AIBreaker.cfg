SPECIFICATION FairSpec
CONSTANTS
    w1 = w1
    w2 = w2
    w3 = w3
    Callers = {w1, w2, w3}
    Failures = 2
    Cooldown = 2
    MaxCooldown = 3
    MaxCount = 3
    RetryAfters = {3}
    CallTime = 2
    DailyLimit = 2
INVARIANTS
    TypeOK
    TestsApart
    LimitBound
PROPERTIES
    EventuallyTested
CHECK_DEADLOCK FALSE
