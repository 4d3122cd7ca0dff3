CONSTANTS
    w1 = w1
    w2 = w2
    w3 = w3
    a = a
    b = b
    c = c
    d = d
    Workers = {w1, w2, w3}
    Jobs = {a, b, c, d}
    Owner = Owner
    None = None
    Submitter <- MCSubmitter
SPECIFICATION FairSpec
INVARIANTS TypeOK JobsInOnePlace BacklogCovered
PROPERTY PoolIsQueue
CHECK_DEADLOCK FALSE
