SPECIFICATION FairSpec
CONSTANTS
    Expires = {0, 1, 2, 4}
    Asked = 2
    DefaultExpires = 3
    Width = 5
    FailBase = 1
    FailMost = 3
    FailShift = 2
    MaxFail = 3
    Outbound = TRUE
INVARIANTS OneAtATime NothingLeft RefreshedInTime
PROPERTY ContractSpec
CHECK_DEADLOCK FALSE
