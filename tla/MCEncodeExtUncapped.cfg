SPECIFICATION Spec
CONSTANTS
    Group = 128
    WordMax = 1073741823
    BlockMax = 256
    MemorySize = 600
    Objects <- LargeObjects
    Lists <- LargeLists
    Capacities = {600}
INVARIANTS
    NoBlockAboveTheLargest
CHECK_DEADLOCK FALSE
