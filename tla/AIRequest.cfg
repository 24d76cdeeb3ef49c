\* Two requests, two runs, one action of an attendant.
SPECIFICATION FairSpec
CONSTANTS
    Requests = {1, 2}
    Workers = {w1, w2}
    MaxAttempts = 2
    BatchLimit = 2
    TurnLimit = 1
    MaxHuman = 1
    MaxTries = 3
    None = None
INVARIANTS TypeOK AnsweredOnce
PROPERTIES KeepsItsDesk EventuallyDone
CHECK_DEADLOCK FALSE
