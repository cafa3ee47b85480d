SPECIFICATION CarefulSpec
CONSTANTS
    Conn = {c1, c2}
    Pipe = {p1, p2, p3, p4}
    NoPipe = NoPipe
    MaxInFlight = 2
INVARIANTS
    PageTypeOK
    OneRecordingAtATime
    ButtonIsTruthful
PROPERTIES
    ClickIsAnswered
CHECK_DEADLOCK FALSE
