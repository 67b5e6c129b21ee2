SPECIFICATION SumSpec
CONSTANTS
    Conns = {c1}
    Sessions = {s1}
    MaxSessions = 1
    MaxGen = 1
    MaxRequests = 2
    MaxTokens = 1
    TokenChannel = 1
    VlSessions = {s1}
    Loads = {l1}
    Uploads = {u1}
    Vectors = {v1, v2}
    MaxVectors = 1
    Chunks = 1
    ParallelChunks = 1
    MaxDownloads = 2
    Clients = {u1, u2}
    MinConnections = 0
    MaxConnections = 1
    MaxUses = 3
    ChainTasks = {u1, u2}
    ConnIds = {"i1", "i2", "i3"}
    MaxChainConns = 1
    MaxChainUses = 2
    Peers = {"p1", "p2"}
    Window = 3
    Limit = 1
    RefillTicks = 2
    CleanupTicks = 3
    MaxNow = 4
    ReqTasks = {t1}
    ReqJobs = {j1}
    SearchCap = 1
    Failures = 1
    MaxServed = 1
    MaxReqs = 1
    CtxSessions = {s1, s2}
    CtxChains = {a, b}
    CtxMaxSessions = 2
    CtxLimit = 3
    CtxWindow = 3
    PreserveFirst = 1
    MaxMsgs = 4
    MaxCtxOps = 5
    SvcConns = {x1, x2}
    SvcChains = {a, b}
    SvcJobs = {j1, j2}
    SvcTasks = {t1, t2}
    SvcTtl = 1
    ProofCacheSize = 1
    CircuitFailures = 2
    MaxSvcNow = 3
    MaxSvcOps = 4
    TrTasks = {"t1", "t2"}
    TrSessions = {"s1", "s2"}
    TrChains = {"c1", "c2"}
    TrModels = {"m1", "m2", "m3"}
    TrWorkers = 2
    FrameLengths = {1, 2, 3, 125, 126, 127, 128, 255, 256, 300, 65535, 65536}
    TrMemory = 2
    TrEngines = 1
    TrConns = 1
    TrTokens = 2
    MaxTrNow = 2
    MaxTrOps = 4
    EngModels = {ma, mb}
    EngTasks = {t1, t2}
    DownloadSteps = 2
    InfKeys = {k1, k2, k3}
    InfSizes = {1, 2}
    InfEntries = 2
    InfMemory = 3
    InfTtl = 1
    MaxEngOps = 3
    MaxEngNow = 2
    VecIds = {v1, v2, v3}
    VecTasks = {t1, t2}
    SemMax = 1
    VecSizes = {1, 2}
    IndexCap = 2
    IndexMb = 3
    VecTtl = 1
    MaxVecNow = 2
    MaxVecOps = 3
    StoKeys = {"k1", "k2"}
    StoTasks = {t1, t2}
    StoSizes = {1, 3}
    StoQuota = 2
    StoChunks = 2
    StoTtl = 0
    MaxStoNow = 1
    MaxStoOps = 3
    BatchModels = {ma, mb}
    Priorities = {"High", "Low"}
    MaxRequestIds = 3
    QueueSize = 2
    Strategy = "Adaptive"
    MaxBatchSize = 2
    LatencySize = 1
    ThroughputSize = 3
    LbNodes = {n1, n2}
    LbSessions = {s1}
    MaxLbConns = 1
    FailuresToOpen = 1
    HealthFailures = 1
    CacheKeys = {k1, k2, k3}
    MaxEntries = 2
    MaxMemory = 4
    Word = 32
    GpuDevices = {0, 1}
    GpuMemory = 3
    MaxAllocations = 3
    McModels = {"m1", "m2", "m3"}
    McTasks = {t1, t2}
    ModelSize <- McSizes
    McMemory = 3
    McEntries = 2
    MaxMcLoads = 4
    AlertRules = {r1, r2}
    AlertMetrics = {m1}
    Checks = {c1}
    Dashboards = {d1}
    MonTasks = {t1, t2}
    MaxObservations = 2
    MaxEdits = 3
    HistoryCap = 2
    QaTasks = {t1, t2}
    Stars = {0, 1, 5}
    MinRating = 1
    MaxRating = 5
    MinImpact = 1
    RecentRatings = 1
    SlidingWindow = 2
    DownAfter = 1
    MaxQaOps = 2
    MaxQaNow = 2
    SearchTasks = {"t1", "t2"}
    SearchQueries = {"q1"}
    Sites = {"a", "b", "bad", "bin"}
    UnsafeSites = {"bad"}
    BinarySites = {"bin"}
    SearchTtl = 0
    MaxFound = 1
    MaxPages = 2
    MaxPageCache = 1
    SearchQuota = 1
    Hits <- SomeHits
    MaxSearches = 2
    MaxSearchNow = 1
    ImgTasks = {"t1", "t2"}
    ImgSessions = {"s1"}
    ImgJobs = {"j1"}
    ImgSizes = {12, 5}
    AllowedSizes = {12}
    ImgSteps = {0, 4}
    RoundedUp <- SomeRounded
    ImgLimit = 1
    ImgWindow = 1
    MaxImages = 3
    MaxImgNow = 1
    HdTasks = {"t1", "t2"}
    HdSessions = {"s1"}
    HdJobs = {0, 1, 2}
    HdChains = {"a", "b"}
    HdSupported = {"a"}
    HdContexts <- SomeContexts
    HdIndexes = {0, 1}
    HdLimit = 3
    MaxHandled = 4
    MeRequests = {"r1"}
    MeConfigs <- SomeConfigs
    MeNames = {"m1", "m2"}
    MeFiles <- SomeFiles
    MaxBatch = 2
    GridW = 3
    GridH = 3
    MinRegion = 1
    Letters = {"a", "x", "7", "."}
    VisDigits = {"7"}
    Words <- SomeWords
    MaxText = 4
    Dictionary <- SomeDictionary
    VisTokens = {0, 1, 2, 3, 4}
    MaskLast = 2
    MaxCaption = 3
    TargetSize = 4
    ImageSides = {1, 2, 3, 4, 7, 9}
    BatchTexts <- SomeTexts
INVARIANTS
    ServiceTypes
    LimitsHold
    TotalsCover
    IndexesAgree
    AnswersAreSound
    OneStreamEnd
    LateCancelIsHarmless
    StatsNotTorn
    ServedIsMetered
    BatchedOnce
    LatestCanBeLoaded
CHECK_DEADLOCK FALSE
