SPECIFICATION FairSpec
CONSTANTS
    None = None
    Messages = {1, 2}
    WithMedia = {1}
    MaxAttempts = 2
    MaxRetries = 1
PROPERTY BlockedStaysSilent
CHECK_DEADLOCK FALSE
