SPECIFICATION Spec
CONSTANTS
    Page = {p1, p2}
    N = 3
    Listed = {1, 3}
    Min <- MCMin
    Max <- MCMax
    Default <- MCDefault
    MaxMoves = 3
INVARIANTS
    TypeOK
    LastWriterSees
PROPERTIES
    ServedUnlessSpinning
CHECK_DEADLOCK FALSE
