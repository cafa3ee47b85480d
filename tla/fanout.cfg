SPECIFICATION Spec
CONSTANTS
    Pair = {send1, send2, rec}
    Sink = {video, audio}
    Idle = Idle
    MaxSamples = 2
INVARIANTS
    TypeOK
    PushesAreLive
    ListIsSound
PROPERTIES
    ImplementsMulticast
