SPECIFICATION Spec
CONSTANTS
    Configs <- Retrying
    MaxSteps = 0
    MaxCrashes = 0
    MaxResets = 1
    MaxFaults = 1
INVARIANTS
    DoneMeansFixesReviewed
