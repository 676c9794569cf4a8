SPECIFICATION Spec
CONSTANTS
    k1 = k1
    k2 = k2
    u1 = u1
    u2 = u2
    Keys = {k1, k2}
    Urls = {u1, u2}
    Allowed = {u1, u2}
    Limit <- MCLimit
    MaxListSize = 2
    MaxRelaysPerKey = 1
    Capacity = 2
    TtlOutdated = 1
    Nothing = Nothing
    Event <- MCEvent
    Filter <- MCFilter
    MaxTime = 1
INVARIANT MarkersAreListed
CHECK_DEADLOCK FALSE
