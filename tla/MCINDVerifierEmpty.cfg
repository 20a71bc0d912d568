CONSTANTS
    Vals = {1, 2}
    MaxRows = 3
    MaxRuns = 2
SPECIFICATION Spec
INVARIANT ErrorInRange
CHECK_DEADLOCK FALSE
