SPECIFICATION FairSyncSpec
CONSTANTS
    Syncs = {t1, t2}
    Keys = {1, 2}
    Semaphores = {1, 2, 3}
    None = None
    Cancellation = TRUE
    MaxCleanups = 3
INVARIANT
    NothingFetchedTwice
PROPERTIES
    FailuresAreRetried
    ImplementsKeyLocks
    AcquireReturns
    UsedIsRemoved
\* A task stuck in acquire is for AcquireReturns to find; a client without
\* callers is at rest.
CHECK_DEADLOCK FALSE
