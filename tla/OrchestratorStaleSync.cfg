SPECIFICATION Spec
CONSTANTS
    Configs <- Planned
    MaxSteps = 2
    MaxCrashes = 0
    MaxResets = 0
    MaxFaults = 0
INVARIANTS
    SyncedBuild
