SPECIFICATION Spec
CONSTANTS
    Lifetimes <- MCLifetimes
    Pauses <- MCPauses
    Transits <- MCTransits
    MaxHops = 2
INVARIANTS
    TypeOK
    OutlivesByTransitOnly
    LargestAtOrBelow
    LossIsSmall
PROPERTY ForwardedAtOnceIsUnchanged
CHECK_DEADLOCK FALSE
