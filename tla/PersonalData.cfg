SPECIFICATION FairSpec
CONSTANTS
    None = None
    Messages = {1, 2}
    WithMedia = {1}
    MaxAttempts = 2
    MaxRetries = 1
INVARIANTS
    TypeOK
    NothingKept
    NotSentAfterErasure
    FileAccounted
PROPERTIES
    FilesSettled
CHECK_DEADLOCK FALSE
