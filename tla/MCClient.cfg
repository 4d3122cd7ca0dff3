CONSTANTS
    Parts = {"exec", "pool", "driver", "ws", "grpc"}
    CeCallers = {c1, c2}
    CeConns = {1, 2}
    CeOrigins <- MCOrigins
    CeRequests <- MCRequests
    CePooled = 1
    CeAttempts = 2
    CeRedirects = 1
    CpCallers = {c1, c2, c3}
    CpConns = {1, 2}
    CpMax = 1
    CpUpgrades = {c3}
    CdRequests = {1, 2}
    CdUploads = {2}
    CdLimit = 1
    CdDeferred = 1
    CdChunks = 1
    CdWire = 2
    WvModes = {"reactor", "blocking", "client"}
    WvApps = {t1}
    WvLimit = 2
    WvInputs = 2
    WvPushes = 2
    WvPings = TRUE
    GScripts <- MCScripts
    GBodies = {"good", "truncated"}
    GTimeouts <- MCTimeouts
    GMinute = 2
    GHour = 3
    GClock = 2
    GUpdates = 1
SPECIFICATION Spec
INVARIANTS CallsKeptApart ReservationsExact NoTruncation StreamHonest
PROPERTY CallsSettle
CHECK_DEADLOCK FALSE
