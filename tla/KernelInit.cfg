SPECIFICATION FairSpec
CONSTANTS
    Threads = {t1, t2, t3}
    NoThread = none
    MaxRegistry = 3
    MaxReads = 1
INVARIANTS
    BuildNeverWaitsForItself
    MarkMatchesBuilds
PROPERTIES
    KernelKeepsUp
    AsksAnswered
CHECK_DEADLOCK FALSE
