CONSTANTS
    Parts = {"shake", "session", "deflate", "hpack", "qpack", "message", "block", "tls", "record", "chain", "keys", "connect", "quictls", "cookies", "proxy"}
    WhWindows = {8, 15}
    WhParams = 2
    WhProtocols <- Preference
    WhNets <- Proxies
    WhWidth = 3
    WhForged = 1
    WhProxies = 2
    WhApart = TRUE
    WsSmall = 2
    WsU16 = 3
    WsRoles = {"server"}
    WsFrames <- Sent
    WsMaxFrames = 3
    WsMaxFrame = 4
    WsMaxMessage = 5
    WsMaxFragments = 2
    WsCompression = TRUE
    DfSymbols = {0, 1}
    DfMaxLen = 6
    DfMessages = 2
    DfWindow = 6
    DfHashSize = 2
    DfMaxChain = 2
    DfMaxMatch = 4
    DfThreshold = 4
    DfMaxOut = 8
    DfWindows = {2, 8}
    DfAlphabet = 4
    DfCodeLen = 3
    HpBlocks <- MCBlocks
    HpMax = 3
    HpSizes = {0, 1, 2}
    HpChanges = 2
    HpSize <- MCSize
    HpStatic <- MCStatic
    HpSensitive = {"c"}
    HpUnindexed = {3}
    QpRace <- MCRace
    QpEvict <- MCEvict
    QpRoom = 6
    QpSmall = 1
    QpBlocked = 2
    QpStaticField <- MCStaticField
    QpStaticName = {"s", "a"}
    QpNeverName = {"n"}
    HmFields <- MCFields
    HmLen = 4
    HmFrames = 3
    HmMaxBody = 1
    HbRoles <- MCReaders
    HbGood <- MCGood
    HbBad <- MCBad
    HbFrames = 3
    HbHdr = 2
    HbMaxFrame = 12
    HbCap = 4
    TlClients <- MCClients
    TlServers <- MCServers
    TlRestarts <- MCRestarts
    TlConns = 2
    TlTampered = {2}
    TlLifetime = 1
    TrWrites <- MCWrites
    TrBurst <- MCBurst
    TrAsks <- MCAsks
    TrLimit = 1
    X5Chains <- MCChains
    X5Roots <- MCRoots
    X5Names <- MCNames
    QkWindow = 8
    QkThreshold = 2
    QkStart = 6
    QkPackets = 4
    QkFlight = 3
    QcAddrs = {a1, a2}
    QcIds = 3
    QcMax = 1
    QcTtl = 0
    QcClock = 1
    QcBoots = 1
    QcMoves = 1
    QcFlight = 2
    QtData = {1, 2}
    QtUdp = {1199, 1200}
    QtCerts = {"good", "name"}
    QtFaults = 2
    CkHosts <- MCJarHosts
    CkIps <- MCIps
    CkPaths <- MCPaths
    CkSet <- MCSetCookies
    CkLimits <- MCJarLimits
    CkSteps = 3
    CkLast = 2
    CkYears = 2101
    PfHops = 3
    PfTrusted <- MCTrust
    PfRoutes <- MCRoutes
    PfRequests <- MCRequests
    PfAnswers <- MCAnswers
    PfNames <- MCTexts
SPECIFICATION Spec
INVARIANTS
    HandshakeHonest SessionExact CompressionExact FieldsDecode MessagesKept HandshakesKept StreamKept
    NamesHonoured PacketsOpen EndpointKept QuicAgrees JarExact ForwardHonest
CHECK_DEADLOCK FALSE
