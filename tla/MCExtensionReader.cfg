SPECIFICATION FairSpec
CONSTANTS
    Group = 128
    WordMax = 1073741823
    MaxBlock = 4
    Blocks <- MCBlocks
INVARIANTS
    TypeOK
    IdsAscend
    ValuesInOrder
    CleanWalkIsCanonical
PROPERTIES
    CallsMoveForward
    WalkEnds
