CONSTANTS
    Parts = {"loss"}
    QlRuns <- MCLossy
    MaxRetransmits = 2
    PacketThreshold = 2
    InitWindow = 2
    MinWindow = 1
    MaxGap = 2
    QsStreams = {1, 2}
    QsLens = {2, 3}
    QsChunk = 1
    QsWindow = 2
    QsUni = 1
    QsConn = 2
    QsCount = 1
    QsMaxChunks = 8
    QsCrypto = 4
    QsFlight = 2
    QsResends = 1
    HReqs = {r1, r2}
    HDyn = {r1}
    HFlawed = {r2}
    HShort = {r2}
    HChunks = 2
    HMaxStreams = 2
    HPeerLimit = 3
    HMaxPending = 2
    HMaxCompleted = 2
    HTasks = 1
    HResends = 1
SPECIFICATION Spec
PROPERTY TransfersEnd
CHECK_DEADLOCK FALSE
