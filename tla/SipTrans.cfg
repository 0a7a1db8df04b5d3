SPECIFICATION FairSpec
CONSTANTS
    T1 = 2
    T2 = 8
    T4 = 4
    Life = 8
    MaxDelay = 1
INVARIANTS OneOutcome Agreement AtMostOnce AckedAgain
PROPERTY Settles
