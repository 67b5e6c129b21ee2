SPECIFICATION Spec
CONSTANTS
    Jobs = {j1}
    Streams = {t1}
    Tasks = {k1, k2}
    Settlers = {s1}
    SessionIds = {sid}
    NoJob = NoJob
    NoSession = NoSession
    CHECKPOINT_THRESHOLD = 2
    MIN_PROVEN_TOKENS = 1
    MAX_RETRIES = 2
    ContractIntervals = {3}
    TokenCounts = {2}
    MaxTokens = 4
    U64 = 100
    LateTokens = TRUE
INVARIANTS
    OneSubmission
CHECK_DEADLOCK FALSE
