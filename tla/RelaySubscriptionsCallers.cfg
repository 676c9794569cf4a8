SPECIFICATION Spec
CONSTANTS
    Subs = {s1}
    Callers = {c1, c2}
    Counters = {k1, k2, k3, k4}
    Nothing = Nothing
    Capacity = 2
    Authenticator = TRUE
    AuthRelay = TRUE
    CloseReasons = {"rate-limited"}
    Trouble = TRUE
    MaxSessions = 2
    MaxInbox = 1
    CallerRoom = 4
SYMMETRY Symmetry
INVARIANTS PendingReqsCounted ServedOrRestorable
PROPERTIES RestorationIsNeeded
CHECK_DEADLOCK FALSE
