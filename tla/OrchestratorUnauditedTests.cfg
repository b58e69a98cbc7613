SPECIFICATION Spec
CONSTANTS
    Configs <- Retrying
    MaxSteps = 0
    MaxCrashes = 1
    MaxResets = 0
    MaxFaults = 1
INVARIANTS
    DoneMeansTestsAudited
