SPECIFICATION Spec
CONSTANTS
    a1 = a1
    a2 = a2
    u1 = u1
    u2 = u2
    Apps = {a1, a2}
    Refresher = refresher
    Urls = {u1, u2}
    Copies = {1, 2}
    Calls <- MCCalls
    MaxRelays = 1
    Lists = 1
    Nothing = Nothing
    MaxHeld = 1
CHECK_DEADLOCK FALSE
INVARIANT RunningIsOwned AddedRelaysStay
PROPERTY CallsReturn
