SPECIFICATION FairSpec
CONSTANTS
    order = order
    None = None
    Messages = {1, 2}
    Keys = {order}
    KeyOf <- SameOrder
    Workers = {w1, w2}
    MaxAttempts = 2
    BatchLimit = 2
    MaxRequeues = 1
INVARIANTS
    TypeOK
    HandledOnce
PROPERTIES
    KeepsHandling
    EventuallySettled
CHECK_DEADLOCK FALSE
