SPECIFICATION TimerSpec
CONSTANTS
    Interval = 3
    Half = 5
    MaxJiffies = 16
    MaxTick = 5
    MaxAct = 4
    MaxStall = 4
    Adjust = TRUE
INVARIANT NeverWokenEarly
INVARIANT CatchUp
INVARIANT NeverOversleeps
