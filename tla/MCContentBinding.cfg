SPECIFICATION SystemSpec
CONSTANTS
    Jobs = {j1}
    Streams = {t1}
    Tasks = {k1, k2}
    Settlers = {s1}
    SessionIds = {sid}
    NoJob = NoJob
    NoSession = NoSession
    CHECKPOINT_THRESHOLD = 2
    MIN_PROVEN_TOKENS = 1
    MAX_RETRIES = 1
    ContractIntervals = {2}
    TokenCounts = {2}
    MaxTokens = 3
    U64 = 100
    LateTokens = FALSE
    SessionOf <- OneSession
    MAX_S5_RETRIES = 1
    MaxEntries = 3
    MaxTurns = 2
SYMMETRY TaskSymmetry
INVARIANTS
    ProofBindsItsResponse
CHECK_DEADLOCK FALSE
