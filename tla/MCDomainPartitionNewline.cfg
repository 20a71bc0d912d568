CONSTANTS
    Chars = {10, 97}
    NL = 10
    MaxLen = 2
    MaxValues = 3
SPECIFICATION Spec
INVARIANT
    ReadBack
CHECK_DEADLOCK FALSE
