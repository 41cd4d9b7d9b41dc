SPECIFICATION FairSpec
CONSTANTS
    Requests = {r1, r2}
    MaxUpgrades = 2
    HasCmd = {TRUE, FALSE}
    Faults = TRUE
INVARIANTS
    AnsweredFromCurrentMap
PROPERTIES
    RebuildAlone
    Responds
    KeepsServing
