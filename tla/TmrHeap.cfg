SPECIFICATION Spec
CONSTANTS
    Timer = {t1, t2, t3, t4, t5, t6}
    None = None
    DefaultCapacity = 2
    MaxDelay = 1
    MaxTime = 1
INVARIANTS InHeap HeapOrder
PROPERTY QueueSpec
SYMMETRY Sym
