SPECIFICATION Spec
CONSTANTS
    Majors = {0, 1, 2}
    Objects <- EdgeObjects
    Capacities = {9, 10, 16, 18}
    Noise = {0, 1, 2, 8, 16, 32, 64, 128, 129, 131, 255}
    Disturbed <- PlainObjects
    Stale = {255}
INVARIANTS
    TypeOK
    SentIsReceived
    DecodedIsCanonical
    OnlyAdmissibleObjectsCross
    EncodeRefusesExactly
    LayoutAsPublished
PROPERTIES
    WritesStayInRoom
CHECK_DEADLOCK FALSE
