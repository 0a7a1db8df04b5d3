SPECIFICATION FairSpec
CONSTANTS
    NumStacks = 2
    NumUE = 3
    MaxSess = 2
    MaxCalls = 2
    Faults = TRUE
PROPERTY ExitWhenFinished
