CONSTANTS
    Vals = {1, 2}
    MaxRows = 3
    MaxRuns = 2
SPECIFICATION Spec
INVARIANTS
    TypeOK
    VerifierCorrect
    ClustersDecompose
    RerunStable
CHECK_DEADLOCK FALSE
