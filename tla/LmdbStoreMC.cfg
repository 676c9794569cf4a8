SPECIFICATION Spec
CONSTANTS
    Event <- MCEvent
    File <- MCFile
    Legacy <- MCLegacy
    DeleteFilter <- MCDeleteFilter
    QueryFilter <- MCQueryFilter
    Caller = {c1, c2}
    MaxCalls = 2
    MaxStops = 1
INVARIANTS
    IndexesAgree
    TombstonesHold
PROPERTIES
    QueriesAreRight
    ImplementsAtomicStore
    EveryCallAnswered
CHECK_DEADLOCK FALSE
