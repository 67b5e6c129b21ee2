SPECIFICATION Spec
CONSTANTS
    Jobs = {j1}
    Streams = {t1, t2}
    Tasks = {k1, k2}
    Settlers = {s1, s2}
    SessionIds = {}
    NoJob = NoJob
    NoSession = NoSession
    CHECKPOINT_THRESHOLD = 3
    MIN_PROVEN_TOKENS = 2
    MAX_RETRIES = 2
    ContractIntervals = {1, 5}
    TokenCounts = {1, 2}
    MaxTokens = 5
    U64 = 100
    LateTokens = FALSE
SYMMETRY Symmetry
INVARIANTS
    TypeOK
    OneSubmission
    NoUnderflow
    CheckpointMatchesChain
    IntervalIsQueried
    SettlementProvesAll
PROPERTIES
    BillingIsCorrect
CHECK_DEADLOCK FALSE
