SPECIFICATION StreamSpec
CONSTANTS
    Group = 16
    WordMax = 131071
    BlockMax = 16
    MaxCalls = 0
    Inputs = {}
    Streams <- StreamsSent
    Understood = {1}
INVARIANTS
    OutputsAreOfLastSuccess
    ObjectsAreSelfDelimiting
PROPERTIES
    CallsReturn
    ImplementsFifo
CHECK_DEADLOCK FALSE
