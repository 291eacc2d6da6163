SPECIFICATION HandshakeSpec
CONSTANTS
    sourceA = sourceA
    Sources = {s1}
    Ids = {sourceA}
    OwnId <- MCNamed
    Infos <- MCInfos
    Absent = Absent
    Empty = 0
    MaxEpoch = 2
    SameSecond = TRUE
    NoValue = {Absent}
    Faults = {"pod", "publisher", "target"}
PROPERTY
    KeepsSourceSpec
