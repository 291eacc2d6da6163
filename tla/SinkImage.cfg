SPECIFICATION ImageFairSpec
CONSTANTS
    pinned = pinned
    drifted = drifted
    bumped = bumped
    video = video
    audio = audio
    Commits = {pinned, drifted, bumped}
    Absent = Absent
    Steps <- AllSteps
    Tokens <- MCTokens
    Tears <- MCTears
    Checkout <- MCCheckout
    Contexts <- MCContexts
    Streams = {video, audio}
    GrainPeriod = 1
    ReadDelay = 0
    History = 1
    MinRetry = 1
    Second = 1
    Modulus = 32
    RetryEnv = 0
    RateEnv = 2
    Unset = Unset
    MaxTime = 4
    LastHead <- MCLastHead
    LastGrain <- MCLastGrain
INVARIANTS
    BuildTypeOK
    NeverFalseGreen
    BuiltFromThePin
    SinkTypeOK
    NeverSpins
PROPERTIES
    RunsTheFixedSink
    AllOrNothing
    PatchableGetsBuilt
    LinesSpacedAndTrue
    SuppressedIsReported
    PublishedIsPassed
CHECK_DEADLOCK FALSE
