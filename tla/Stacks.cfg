SPECIFICATION FairSpec
CONSTANTS
    NumStacks = 2
    NumUE = 3
    MaxSess = 2
    MaxCalls = 2
    Faults = TRUE
INVARIANT FreedWhenUnused
INVARIANT SockOnLiveStack
INVARIANT ExitOnce
PROPERTY Terminates
PROPERTY RegistrationsSteps
