SPECIFICATION Spec
CONSTANTS
    Group = 128
    WordMax = 1073741823
    BlockMax = 5
    MaxCalls = 1
    MaxTail = 4
    Inputs <- OneCallInputs
INVARIANTS
    TypeOK
    ReleasedOnlyIfAccepted
    ReleasedIsCanonical
PROPERTIES
    AskedBeforeRelease
CHECK_DEADLOCK FALSE
