SPECIFICATION Spec
CONSTANTS
    Size = 2
    TxMax = 3
    Idle = 8
    Accept = 3
    Pong = 2
    Intval = 5
    Flow = {0, 1, 8}
    Wrap = 6
    None = None
    Plans <- MCPlans
INVARIANT NothingLost
INVARIANT StreamsKept
INVARIANT Heard
