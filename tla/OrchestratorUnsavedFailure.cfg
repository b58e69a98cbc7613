SPECIFICATION Spec
CONSTANTS
    Configs <- Retrying
    MaxSteps = 0
    MaxCrashes = 0
    MaxResets = 0
    MaxFaults = 0
INVARIANTS
    FailurePersisted
