SPECIFICATION Spec
CONSTANTS
    MaxTalk = 2
    MaxIce = 1
    MaxUnread = 3
INVARIANTS
    AnswerIceIsOfATalk
CHECK_DEADLOCK FALSE
