SPECIFICATION Spec
CONSTANTS
    Threads = {t1, t2, t3}
    Conns = {c1, c2, c3}
    Sizes = {1, 2}
    MaxDrains = 1
    Forks = TRUE
SYMMETRY Symmetry
INVARIANTS
    SlotsConserved
    NoSleeperForgotten
    DrainRetires
PROPERTY ParentSocketsKept
