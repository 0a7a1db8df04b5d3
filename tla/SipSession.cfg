SPECIFICATION FairSpec
CONSTANTS
    Info = {i1, i2}
    i1 = i1
    i2 = i2
    MaxFail = 2
    MaxReplies = 2
INVARIANTS RefsExact Goodbye OffersInOrder NoLimbo
PROPERTY ContractSpec
