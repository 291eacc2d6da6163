SPECIFICATION ViewFairSpec
CONSTANTS
    MaxStarts = 3
    SameSecond = TRUE
INVARIANTS
    ViewTypeOK
    FreshInNewPod
    NothingForgotten
PROPERTIES
    AnnouncesInOrder
    EndsAnnounced
