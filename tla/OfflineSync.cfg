SPECIFICATION SyncSpec
CONSTANTS
    Captures = {p1, p2}
    Syncs = {k1, k2}
    MaxSyncFaults = 2
    MaxRetries = 2
INVARIANTS
    RecordedOncePerKnownOutcome
    CapturedIsKept
PROPERTIES
    PendingIsTried
CHECK_DEADLOCK FALSE
