SPECIFICATION Spec
CONSTANTS
    Configs <- Single
    MaxSteps = 0
    MaxCrashes = 1
    MaxResets = 1
    MaxFaults = 1
INVARIANTS
    TypeOK
    DoneMeansGated
    InterruptedTestsArePending
    FixerBudget
PROPERTIES
    TerminalStable
