SPECIFICATION Spec
CONSTANTS
    Event <- MCMemoryEvent
    Capacity = 5
    DeleteFilter <- MCDeleteFilter
    QueryFilter <- MCQueryFilter
    LastTime = 1
INVARIANTS
    MapsAgree
    TombstonesHold
    QueriesAreRight
PROPERTIES
    OnlyOwnDeletes
