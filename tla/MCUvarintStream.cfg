SPECIFICATION Spec
CONSTANTS
    Group = 4
    WordMax = 511
    MaxReceived = 6
INVARIANTS
    TypeOK
    DecodesExactlyTheEncodings
    FiveOctetsDecide
PROPERTIES
    AnswerIsFinal
CHECK_DEADLOCK FALSE
