SPECIFICATION FairSpec
CONSTANTS
    Target = {s1, s2}
    s1 = s1
    s2 = s2
    Supported = {1, 2}
    Families = {"a", "aaaa"}
    MaxAddr = 2
INVARIANTS OneOutcome AllTried
PROPERTIES Ends
CHECK_DEADLOCK FALSE
