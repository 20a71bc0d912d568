CONSTANTS
    AttrCount <- MCAttrCount
    Values <- MCValues
    MaxParts = 1
    NoResult = NoResult
SPECIFICATION Spec
INVARIANTS
    TypeOK
    MutualRefs
    NoFalsePruning
    ResultIsUINDs
PROPERTIES
    Terminates
    ImplementsUINDMining
CHECK_DEADLOCK FALSE
