CONSTANTS
    Parts = {"send", "streams"}
    Streams = {1, 2}
    Urgencies = {0, 1}
    Quantum = 2
    None = None
    Priorities <- MCMixed
    Updates <- MCDemotion
    InitWindows = {0, 2}
    FrameSizes = {2}
    ConnWindow = 1
    MaxWindow = 2
    Increments = {2}
    Chunks <- MCChunks
    MaxSendBuffer = 2
    MaxChunks = 1
    MaxEntries = 1
    FlushFrames = 2
    NStreams = 2
    ClosedTrack = 1
    MaxFlight = 1
    MaxOut = 1
    MaxEvents = 3
    Configs <- MCConfigs
SPECIFICATION MCSpec
INVARIANTS SendStateKept StreamsInOrder ConformingClientKept
PROPERTY NeverOverspends
CONSTRAINT Bounded
CHECK_DEADLOCK FALSE
