SPECIFICATION PatientSpec
CONSTANTS
    Size = {0, 1, 2, 5, 8}
    Json = 2
    Chunk = 1
    MaxVoice = 2
INVARIANTS
    TypeOK
    PosStopsAtSize
    HeardWholeOnceInOrder
    OpenWhileFilling
PROPERTIES
    WholeVoiceIsHeard
CHECK_DEADLOCK FALSE
