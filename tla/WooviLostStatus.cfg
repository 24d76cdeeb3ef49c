SPECIFICATION FairSpec
CONSTANTS
    w1 = w1
    h1 = h1
    h2 = h2
    Hooks = {h1, h2}
    Foreign = {h2}
    Web = {w1}
    EventsCron = cron
    Reconciler = recon
    Amounts = {"right"}
    MaxAttempts = 2
    MaxKills = 1
    None = None
PROPERTIES
    LostStatusCorrected
CHECK_DEADLOCK FALSE
