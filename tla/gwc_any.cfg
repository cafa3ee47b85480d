SPECIFICATION Spec
CONSTANTS
    Conn = {c1, c2}
    Pipe = {p1, p2, p3, p4}
    NoPipe = NoPipe
SYMMETRY Symmetry
INVARIANTS
    TypeOK
    FlagHasRecorder
    SessionsOwnTheirPipes
    TalkPaired
    SessionsAreFed
PROPERTIES
    NoForeignRelease
CHECK_DEADLOCK FALSE
