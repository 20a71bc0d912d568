CONSTANTS
    Chars = {97, 98}
    NL = 10
    MaxLen = 2
    MaxValues = 3
SPECIFICATION Spec
INVARIANTS
    TypeOK
    ReadBack
CHECK_DEADLOCK FALSE
