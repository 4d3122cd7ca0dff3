CONSTANTS
    Parts = {"run", "conn", "h1", "proxy"}
    SrClients = {c1, c2}
    SrStoppers = {t1, t2}
    MaxConnections = 1
    NRequests = 2
    NChunks = 2
    Kinds = {"plain", "stream", "upgrade", "tunnel"}
    Closes = {TRUE, FALSE}
    Codings = {"length", "chunked"}
    Pipelined = {TRUE, FALSE}
    BodyFails = TRUE
    HeaderTimeout = TRUE
    HsRequests = 2
    HsKinds = {"get", "close", "post", "badline", "badfield", "hugehead", "nohost", "badlength", "hugebody", "h2c", "websocket", "connect"}
    PxN = 3
    PxRequests = {r1, r2}
    PxLimit = 1
    PxFailures = 2
    PxCooldown = 2
    PxCursor = 6
    PxRounds = 4
SPECIFICATION Spec
INVARIANTS PermitsExact ResponsesWhole AnswersInOrder
PROPERTIES StopReturns LengthRequestsAnswered 
CHECK_DEADLOCK FALSE
