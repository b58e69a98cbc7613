SPECIFICATION FairSpec
CONSTANTS
    Configs <- Resumed
    MaxSteps = 1
    MaxCrashes = 1
    MaxResets = 0
    MaxFaults = 1
PROPERTIES
    SessionEnds
    EventuallyTerminal
