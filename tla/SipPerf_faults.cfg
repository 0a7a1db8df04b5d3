SPECIFICATION Spec
CONSTANTS
    UE = {u1, u2, u3, u4}
    u1 = u1
    u2 = u2
    u3 = u3
    u4 = u4
    None = None
    MaxCalls = 2
    MaxDue = 3
    MaxRegAnswers = 2
    Refresh = FALSE
    Faults = TRUE
SYMMETRY Symmetry
INVARIANT FreeMeansIdle
INVARIANT NoOrphan
INVARIANT CalleeReserved
INVARIANT LostOnlyBeforeLeg
INVARIANT Ledger
INVARIANT NoDangling
