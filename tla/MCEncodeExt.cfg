SPECIFICATION Spec
CONSTANTS
    Group = 4
    WordMax = 511
    BlockMax = 7
    MemorySize = 27
    Objects <- SmallObjects
    Lists <- SmallLists
    Capacities <- SmallCapacities
INVARIANTS
    TypeOK
    SuccessIsCanonical
    PassesAgree
    BitIsSetLast
    RoomForEveryObject
PROPERTIES
    WritesStayInRoom
CHECK_DEADLOCK FALSE
