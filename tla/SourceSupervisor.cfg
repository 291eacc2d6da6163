SPECIFICATION FairSpec
CONSTANTS
    sourceA = sourceA
    sourceB = sourceB
    Sources = {s1}
    Ids <- MCIds
    OwnId <- MCNamed
    Infos = {i1}
    Absent = Absent
    Empty = Empty
    MaxEpoch = 2
INVARIANTS
    TypeOK
    SilentUnlessServing
    OneLateStart
PROPERTIES
    ImplementsGate
    QuiesceStops
    SettledServes
