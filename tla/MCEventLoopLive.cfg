SPECIFICATION FairSpec
CONSTANTS
    Conns = {1}
    Workers = {w1}
    DispatchBatch = 2
    Configs <- MCAll
    MaxMsgs = 1
    MaxReady = 1
PROPERTY ReadyIsServed
CHECK_DEADLOCK FALSE
