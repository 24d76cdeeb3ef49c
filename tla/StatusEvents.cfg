SPECIFICATION FairSpec
CONSTANTS
    None = None
    h1 = h1
    h2 = h2
    Hooks = {h1, h2}
    Emittable = {"failed", "delivered"}
    Grace = 2
    SendTime = 0
    CronTime = 1
INVARIANTS
    TypeOK
    ClosedIsForeign
PROPERTIES
    ClimbsTheLadder
    EventuallyLinked
CHECK_DEADLOCK FALSE
