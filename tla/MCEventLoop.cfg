SPECIFICATION Spec
CONSTANTS
    Conns = {1, 2, 3}
    Workers = {w1, w2}
    DispatchBatch = 2
    Configs <- MCConfigs
    MaxMsgs = 1
    MaxReady = 1
SYMMETRY WorkerSymmetry
INVARIANT LoopKept
CHECK_DEADLOCK FALSE
