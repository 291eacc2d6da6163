SPECIFICATION StatusFairSpec
CONSTANTS
    Clients = {cms}
    PREVIEW = TRUE
    PollTimeout = 1
    PollPause = 1
    MaxTime = 4
    LastHead = 1
    MaxSinks = 2
INVARIANTS
    StatusTypeOK
    KnownIsRecent
PROPERTIES
    FramesInOrder
    PreviewKept
CHECK_DEADLOCK FALSE
