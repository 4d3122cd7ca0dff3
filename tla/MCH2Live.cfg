CONSTANTS
    Parts = {"send", "recv", "driver"}
    Streams = {1, 2}
    Urgencies = {0, 1}
    Quantum = 1
    None = None
    Priorities <- MCPlain
    Updates = {}
    InitWindows = {2}
    FrameSizes = {1}
    ConnWindow = 2
    MaxWindow = 2
    Increments = {1}
    Chunks <- MCBytes
    MaxSendBuffer = 2
    MaxChunks = 1
    MaxEntries = 2
    FlushFrames = 2
    s1 = s1
    s2 = s2
    RxStreams = {s1, s2}
    InitWindow = 6
    ConnInit = 4
    RxMaxWindow = 99
    MinThreshold = 1
    ConnThreshold = 4
    DataSizes = {2}
    RxMaxFlight = 2
    RxConfigs <- MCRecv
    NStreams = 2
    NChunks = 2
    DrMaxFlight = 2
    DrConfigs <- MCDriver
SPECIFICATION MCSpec
INVARIANTS CreditKept ExchangesKept
PROPERTY NobodyWaitsForEver
CHECK_DEADLOCK FALSE
