CONSTANTS
    TableCount = 2
    ColCount = 2
    Values = {1, 2}
    MaxRows = 3
    MemLimit = 8
    BlockCapacity = 2
    MaxBytesPerChar = 2
    ValueCost = 2
    WordBits = 6
    MaxExecs = 2
SPECIFICATION Spec
INVARIANT EndToEnd
CHECK_DEADLOCK FALSE
