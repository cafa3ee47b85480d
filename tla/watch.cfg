SPECIFICATION Spec
CONSTANTS
    MaxConn = 3
    MaxLoss = 2
    MaxIce = 1
INVARIANTS
    TypeOK
    NeverStrandedNorMultiplied
    OnlyOldCandidatesGoAstray
PROPERTIES
    WatchIsRestored
CHECK_DEADLOCK FALSE
