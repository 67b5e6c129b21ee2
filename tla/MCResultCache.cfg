SPECIFICATION RcSpec
CONSTANTS
    StoKeys = {"k1", "k2"}
    StoTasks = {t1}
    StoSizes = {1}
    StoQuota = 2
    StoChunks = 2
    StoTtl = 0
    MaxStoNow = 1
    MaxStoOps = 2
PROPERTY ResultCacheReturns
CHECK_DEADLOCK FALSE
