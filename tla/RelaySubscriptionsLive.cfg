SPECIFICATION FairSpec
CONSTANTS
    Subs = {s1}
    Callers = {c1}
    Counters = {k1, k2, k3, k4}
    Nothing = Nothing
    Capacity = 6
    Authenticator = TRUE
    AuthRelay = TRUE
    CloseReasons = {}
    Trouble = FALSE
    MaxSessions = 2
    MaxInbox = 2
    CallerRoom = 2
PROPERTIES EverySubscriptionServed
CHECK_DEADLOCK FALSE
