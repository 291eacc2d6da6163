SPECIFICATION ViewSpec
CONSTANTS
    MaxStarts = 2
    SameSecond = FALSE
INVARIANT
    ExposesItsOwnMemory
