SPECIFICATION PatientSpec
CONSTANTS
    MaxTalk = 3
    MaxIce = 3
    MaxUnread = 3
INVARIANTS
    TypeOK
    EverythingArrives
    OneTalkAtATime
    EndsAgree
PROPERTIES
    TalksAreAnswered
CHECK_DEADLOCK FALSE
