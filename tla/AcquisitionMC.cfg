SPECIFICATION FairSpec
CONSTANTS
    Events = {1, 2}
    MaxItems = 1
    MaxBytes = 1
    ExitEvents = 1
    Policies = {"ExitOnEOSE", "WaitForEventsAfterEOSE", "WaitDurationAfterEOSE"}
    Capacity = 2
    MaxFrames = 2
    MaxSessions = 2
    MaxAuths = 1
INVARIANTS
    EndsTruthfully
    WithinBudgets
PROPERTIES
    EvidenceIsFrozen
    ExhaustionEnds
    IsUnregistered
CHECK_DEADLOCK FALSE
