SPECIFICATION Spec
CONSTANTS
    Statements = {q1, q2}
    Literals = {l1}
    MaxPrepared = 1
    MaxDdl = 2
    MaxSavepoints = 2
    MaxGeneration = 1
    Failures = {"commit", "copy"}

    
PROPERTIES
    
    PlansBrokenOnlyByCommit
