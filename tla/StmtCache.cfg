SPECIFICATION MapSpec
CONSTANTS
    Keys = {k1, k2, k3, k4}
    Values = {v1, v2}
    Nothing = nothing
    Capacity = 3
    MaxClock = 6
PROPERTY ImplementsLru
