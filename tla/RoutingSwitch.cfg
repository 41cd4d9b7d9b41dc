SPECIFICATION Spec
CONSTANTS
    Threads = {t1}
    Models = {m}
    Breaker = 2
    Sampling = FALSE
    Nesting = {t1}
    Misled = {t1}
    MaxDepth = 1
    MaxInner = 0
    MaxErrors = 3
    MaxFaults = 7
INVARIANT SwitchBreaksNoCall
