SPECIFICATION PubSpec
CONSTANTS
    Sessions = {a}
    Proofs = {p}
    NoSession = NoSession
    MAX_S5_RETRIES = 2
    MaxMessages = 2
    MaxEntries = 3
    MaxCrashes = 1
INVARIANTS
    PublisherTypeOK
    IndexedDeltaIsStored
    PublishedIsIndexed
    NoMessageLost
    RecoveryIsContiguous
PROPERTIES
    LockIsReleased
CHECK_DEADLOCK FALSE
