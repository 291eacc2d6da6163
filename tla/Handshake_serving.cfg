SPECIFICATION HandshakeFairSpec
CONSTANTS
    sourceA = sourceA
    Sources = {s1}
    Ids = {sourceA}
    OwnId <- MCNamed
    Infos <- MCInfos
    Absent = Absent
    Empty = 0
    MaxEpoch = 2
    SameSecond = FALSE
    NoValue = {Absent}
    Faults = {"pod", "clear", "source", "initiator"}
INVARIANTS
    NeverStale
    ServesRunningTarget
PROPERTY
    EndsConnected
