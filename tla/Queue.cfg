SPECIFICATION QueueSpec
CONSTANTS
    Items = {a, b}
    Workers = {w1, w2}
    Priorities = {0, 1}
    EmptyRetries = 2
    MaxItemRetries = 2
    LeaseTimeout = 1
    MaxEnqueues = 3
    MaxHangs = 1
    None = None
    bot = bot
    other = other
    Everyone = Everyone
    Named = {bot}
    Texts <- MCTexts
    Trees <- MCTrees
    s1 = s1
    s2 = s2
    s3 = s3
    Root = s1
    MaxDepth = 2
    MaxEntries2 = 4
    Missing = Missing
    u1 = u1
    u2 = u2
    u3 = u3
    u4 = u4
    Urls = {u1, u2, u3, u4}
    Seed <- MCSeed
    PageLinks <- MCPageLinks
    Follow = {u1, u2, u3, u4}
    Forbidden = {u2}
    Near <- MCNear
    MaxUrls = 4
    Concurrency = 2
    SaveEvery = 2
    MaxEntries = 2
    MaxPauses = 1
    NoFile = NoFile
    Torn = Torn
    FileSetups <- MCFileSetups
    FileKey <- MCFileKey
    FileBatch = 2
    FileRetries = 1
    MaxRestarts = 1
    Pages = 3
    ChunkSize = 2
    SinkBatch = 2
    MaxFlowPauses = 1
    Calls = {c1, c2}
    MaxVersions = 3
    NoData = NoData
    Blank = Blank
    WindowSize = 3
    MaxHistory = 2
    Sightings <- MCSightings
    ErrorKinds <- MCErrors
    NoSighting = NoSighting
    Null = Null
    MaxRuns = 4
    Events = {1, 2, 3}
    Configured = {1, 3}
    Retries = 1
    Users = {w1, w2}
    PoolSize = 2
    Pools <- MCPools
    h1 = h1
    h2 = h2
    h3 = h3
    Hosts = {h1, h2, h3}
    HostSite <- MCHostSite
    CookieLines <- MCCookieLines
    Forever = Forever
    MaxLog = 2
    MaxDay = 2
    MaxTurns = 3
INVARIANTS NothingLost OneHolder   ExtractsTell 
PROPERTIES EmptyMeansBusy QueuesEnd
\* The run ends when every worker has left or hangs, and the other parts end, too.
CHECK_DEADLOCK FALSE
