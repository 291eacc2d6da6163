SPECIFICATION SinkFairSpec
CONSTANTS
    Streams = {video, audio}
    GrainPeriod = 1
    ReadDelay = 0
    History = 1
    MinRetry = 1
    Second = 1
    Modulus = 32
    RetryEnv = Unset
    RateEnv = 2
    Unset = Unset
    MaxTime = 2
    LastHead <- MCLastHead
    LastGrain <- MCLastGrain
PROPERTY
    SharedSummariesSpaced
CHECK_DEADLOCK FALSE
