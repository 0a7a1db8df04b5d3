SPECIFICATION FairSpec
CONSTANTS
    UE = {u1, u2, u3, u4}
    u1 = u1
    u2 = u2
    u3 = u3
    u4 = u4
    None = None
    MaxCalls = 2
    MaxDue = 3
    MaxRegAnswers = 3
    Refresh = TRUE
    Faults = FALSE
INVARIANT NoDangling
INVARIANT NoLostUE
PROPERTY AllReturn
