SPECIFICATION PoliteSpec
CONSTANTS
    Conn = {c1, c2}
    Pipe = {p1, p2, p3, p4}
    NoPipe = NoPipe
INVARIANTS
    ExclusiveRecording
    NoOrphanPipes
    ListIsExact
    OnlyTimersGoStale
PROPERTIES
    ImplementsRecorderLock
CHECK_DEADLOCK FALSE
