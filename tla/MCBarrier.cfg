CONSTANTS
    Threads = {t1, t2}
    Handles <- MCHandles
    MaxDepths <- MCMaxDepths
    MaxNesting = 4
    U32Size = 4
    NoVector = NoVector
    Faults = {"alloc", "insert", "delete"}
SPECIFICATION Spec
INVARIANTS TypeOK VectorSorted DepthCountsOpenCallbacks PassedCanLeave
PROPERTIES BarrierImplementsHookBarrier
