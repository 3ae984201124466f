SPECIFICATION RequestsSpec
CONSTANTS
    Calls = {c1, c2, c3}
    Threshold = 2
    Cooldown = 2
    HalfOpenMaxAttempts = 1
    Concurrency = 2
    Interval = 1
    MinConcurrency = 1
    MaxConcurrency = 2
    InitialConcurrency = 1
    IncreaseEvery = 1
    BaseDelay = 1
    MaxDelay = 4
    RetryMax = 1
    RetryAfters = {0, 3}
    None = None
    Blocked = Blocked
    Unasked = Unasked
    a = a
    b = b
    p = p
    a1 = a1
    a2 = a2
    b1 = b1
    p1 = p1
    Hosts = {a, b}
    ProxyHost = p
    BlockedHosts = {}
    Private = {a2}
    Requests <- MCRequests
    Addresses <- MCAddresses
    Records <- MCRecords
    MaxRedirects = 2
    MaxCrossHostHops = 1
    MaxMemoryBuffer = 1
    MaxChunks = 2
    Nothing = Nothing
    Clients = {k1, k2}
    i1 = i1
    i2 = i2
    x1 = x1
    x2 = x2
    x = x
    Site <- MCSite
    Identities <- MCIdentities
    Proxies <- MCProxies
    SiteHash <- MCSiteHash
    KeyHash <- MCKeyHash
    MaxFailures = 1
    Vendors <- MCVendors
    MinConfidence = 2
    Responses <- MCResponses
    MaxTries = 1
    Options <- MCOptions
INVARIANTS TypesOK SlotsAccounted NobodyStranded BreakerConsistent  AttemptsAccounted
PROPERTIES AdmissionRespectsCooldown ThrottleCutBackHolds CallSettlesOnce EveryRequestEnds
\* The transport and the attempts come to an end.
CHECK_DEADLOCK FALSE
