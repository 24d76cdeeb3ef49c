SPECIFICATION FairSpec
CONSTANTS
    meta = meta
    evo = evo
    None = None
    Items = {1, 2}
    Channels = {meta, evo}
    ChannelOf <- MixedChannels
    Correlated = {meta}
    Workers = {w1, w2}
    MaxAttempts = 2
    LeaseTicks = 2
    BudgetTicks = 0
    CallTicks = 1
    Backoffs = {1}
    Pauses = {1}
    BatchLimit = 2
    ChannelLimit = 2
    MaxRequeues = 1
INVARIANTS
    TypeOK
    LeaseCoversHolder
    AckedOnce
    SentIsTrue
PROPERTIES
    KeepsDelivery
    EventuallySettled
CHECK_DEADLOCK FALSE
