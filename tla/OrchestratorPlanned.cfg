SPECIFICATION Spec
CONSTANTS
    Configs <- PlannedLean
    MaxSteps = 2
    MaxCrashes = 1
    MaxResets = 0
    MaxFaults = 1
INVARIANTS
    DoneMeansReviewedAsAWhole
PROPERTIES
    StepsLeaveApproved
    ImplementsLifecycle
