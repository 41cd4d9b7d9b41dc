SPECIFICATION Spec
CONSTANTS
    Requests = {r1, r2}
    MaxUpgrades = 1
    HasCmd = {FALSE}
    Faults = FALSE
INVARIANT
    NotWedged
