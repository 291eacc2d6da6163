SPECIFICATION Spec
CONSTANTS
    sourceA = sourceA
    sourceB = sourceB
    Sources = {s1}
    Ids <- MCIds
    OwnId <- MCAnonymous
    Infos = {i1}
    Absent = Absent
    Empty = Empty
    MaxEpoch = 1
INVARIANT UnnamedNeverTransmits
