SPECIFICATION Spec
CONSTANTS
    UE = {u1, u2}
    u1 = u1
    u2 = u2
    None = None
    MaxCalls = 2
    MaxDue = 2
    MaxRegAnswers = 4
    Refresh = TRUE
    Faults = FALSE
SYMMETRY Symmetry
INVARIANT FreeMeansIdle
