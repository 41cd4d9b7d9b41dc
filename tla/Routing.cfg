SPECIFICATION Spec
CONSTANTS
    Threads = {t1, t2}
    Models = {m}
    Breaker = 2
    Sampling = FALSE
    Nesting = {t1}
    Misled = {t1}
    MaxDepth = 2
    MaxInner = 1
    MaxErrors = 2
    MaxFaults = 7
INVARIANTS
    BaselinesNest
    BreakerTripsInTheEnd
PROPERTIES
    NoAnswerAfterDivergence
    NoFallbackOnMarkedAbort
