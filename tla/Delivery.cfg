SPECIFICATION Spec
CONSTANTS
    u1 = u1
    u2 = u2
    c = c
    rc = rc
    rr = rr
    ac = ac
    ar = ar
    p1 = p1
    p2 = p2
    Foreign = foreign
    NoUnit = NoUnit
    Units <- MCUnits
    DependsOn <- MCDependsOn
    Checkpoints = {c}
    UnitIds <- MCUnitIds
    RepairUnit <- MCRepairUnit
    Artifact <- MCArtifact
    Procs = {p1, p2}
    Commands <- MCCommands
    MaxFaults = 3
    OverlapFaults = 1
    MaxAuthoring = 2
    MaxReviews = 2
    MaxAttempts = 2
    Renewed = {c}
INVARIANTS
    ProgressWritable
    FinalIsVerified
    PassedCoversResults
    DoneUnitsCompose
    BuiltOnRepairs
    OneChildWorks
    RepairsPublishedFirst
    RepairWithinBudget
PROPERTIES
    BoundaryRetained
    BranchOnlyGrows
