SPECIFICATION FairSpec
CONSTANTS
    w1 = w1
    h1 = h1
    h2 = h2
    Hooks = {h1, h2}
    Foreign = {h2}
    Web = {w1}
    EventsCron = cron
    Reconciler = recon
    Amounts = {"right", "wrong", "missing"}
    MaxAttempts = 2
    MaxKills = 1
    None = None
INVARIANTS
    TypeOK
    DoneMeansPaid
    ConfirmedOnce
PROPERTIES
    KeepsLedger
    EventuallyClosed
    EventuallyFound
CHECK_DEADLOCK FALSE
