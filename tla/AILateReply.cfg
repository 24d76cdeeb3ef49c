\* An attendant takes the conversation while the AI is answering.
SPECIFICATION FairSpec
CONSTANTS
    Requests = {1}
    Workers = {w1}
    MaxAttempts = 2
    BatchLimit = 2
    TurnLimit = 1
    MaxHuman = 1
    MaxTries = 3
    None = None
PROPERTIES LateReplyDropped
CHECK_DEADLOCK FALSE
