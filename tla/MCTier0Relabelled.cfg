SPECIFICATION Spec
CONSTANTS
    Majors = {0}
    Objects <- PlainObjects
    Capacities = {18}
    Noise = {16}
    Disturbed <- PlainObjects
    Stale = {0}
INVARIANTS
    MajorZeroPresenceRefusedAtMajorOne
CHECK_DEADLOCK FALSE
