SPECIFICATION SumSpec
CONSTANTS
    SettleSessions = {"s1", "s2", "s7"}
    SettleId <- SettleIdOf
    SettleTasks = {"t1", "t2"}
    SettleBatch = 1
    SettleRetries = 1
    MaxSettles = 2
    WTasks = {"t1", "t2"}
    MaxRequestId = 2
    MaxPending = 1
    WBatch = 1
    MaxWOps = 3
    Addresses = {"a1", "a2"}
    Fees = {13}
    MarketplacePct = 40
    NetworkPct = 30
    ReferrerPct = 20
    BurnPct = 10
    MinimumClaim = 5
    MaxFeeAllocations = 2
    MaxBurns = 2
    ClJobs = {j1, j2}
    ClHosts = {h1}
    ClTasks = {t1, t2}
    ClAmounts = {3, 12}
    ClGas = {0, 5}
    MaxGasPrice = 4
    ClaimAttempts = 2
    MinPerToken = 2
    MinClaim = 2
    HostPct = 90
    MaxClOps = 2
    Jobs = {"j1", "j2"}
    Workers = {"w1", "w2"}
    MaxJobs = 2
    SubmitRetries = 2
    Escrow = 1
    MaxEvents = 2
    P2pPeers = {p1}
    P2pCallers = {c1}
    P2pKeys = {k1}
    EventCap = 1
    PeerExpiry = 1
    MaxP2pNow = 2
    MaxP2pEvents = 2
    HostJobs = {j1, j2}
    HostModels = {m1}
    HostIds = {h1, h2}
    Heartbeat = 2
    MaxHostNow = 4
    MaxSlots = 2
    MaxHistory = 2
    MaxExponent = 2
    RgChains = {"c1"}
    RgTasks = {"t1", "t2"}
    RgNodes = {"n1"}
    RgPricings = 1
    WarnBelow = 1
    RenewBelow = 1
    MaxTx = 2
    MaxChecks = 2
    MaxBlocks = 2
    CcChains = {"c1", "c2"}
    CcFiles = {"f1", "f2"}
    CcHashes = {"h1", "h2"}
    Confirmations = 2
    MaxReceipts = 3
    ReceiptErrors = 2
    MaxSubmits = 2
    EventBuffer = 1
    RetryLimit = 2
    MaxCcBlocks = 3
    MaxCcOps = 2
    MaxJobBlocks = 2
    MsTasks = {"t1", "t2"}
    MsFiles = {"f1", "f2"}
    MsContents = {"h1", "h2"}
    MsSlots = 1
    MsRetries = 1
    MsSpecs = {"m1", "m2"}
    MsCosts = {2, 3}
    MaxMsOps = 3
    MaxSpecials = 5
    UpdModels = {m1, m2}
    UpdTasks = {t1, t2}
    MaxPart = 1
    MaxUpdates = 2
    MaxUpdNow = 0
    PmModels = {m1}
    PmUsers = {u1, u2}
    PmOrgs = {o1}
    MaxPrivate = 1
    PmMinute = 1
    PmLimit = 1
    ConsentTtl = 1
    MaxPmOps = 1
    MaxPmNow = 2
    EzItems = {"a", "b"}
    EzBroken = {"b"}
    EzTasks = {"t1", "t2"}
    EzLimits = {1, 2}
    EzBatchMax = 2
    EzCapacity = 2
    MaxEzOps = 2
    SubJobs = {"j1"}
    SubTasks = {"t1", "t2"}
    SubTtl = 1
    MaxProofs = 2
    MaxSubNow = 1
    RecJobs = {"j1", "j2"}
    RecTasks = {"t1", "t2"}
    Outputs = {"o1", "o2"}
    ProofSizes = {1, 2}
    Depth = 1
    RecAmounts = {4}
    MarketFee = 25
    NetworkFee = 4
    BonusPct = 100
    PenaltyPct = 20
    MaxRecOps = 3
    MaxRecBlocks = 2
INVARIANTS
    EconomyTypes
    MoneyConserved
    JobsKept
    RegistrationsAgree
    ChainViewKept
    CheckedBeforeUse
    SettledOnce
    SettlementsDrained
PROPERTIES
    WorkersReturn
    CallersReturn
CHECK_DEADLOCK FALSE
