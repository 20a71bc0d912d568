CONSTANTS
    TableCount = 1
    ColCount = 1
    Values = {1}
    MaxRows = 9
    MemLimit = 8
    BlockCapacity = 1
    MaxBytesPerChar = 4
    ValueCost = 2
    WordBits = 6
SPECIFICATION Spec
INVARIANT NoDivisionByZero
CHECK_DEADLOCK FALSE
