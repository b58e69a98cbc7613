SPECIFICATION Spec
CONSTANTS
    Configs <- ReviewFixes
    MaxSteps = 0
    MaxCrashes = 1
    MaxResets = 0
    MaxFaults = 1
INVARIANTS
    ReviewFixDoneMeansValidated
