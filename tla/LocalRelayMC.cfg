SPECIFICATION Spec
CONSTANTS
    Event <- MCRelayEvent
    Session = {c1, c2}
    c1 = c1
    c2 = c2
    Nobody = Nobody
    Asks <- MCAsks
    AppEvent <- MCAppEvent
    Admissible = {1, 2, 3, 4, 5}
    Protected <- MCProtected
    AuthRead = FALSE
    AuthWrite = FALSE
    auth_dm = TRUE
    MaxConnections = 2
    MaxReqs = 2
    MaxSubscriptionBytes = 3
    MaxFilterLimit = 2
    MaxNegs = 2
    MaxItems = 1
    MaxChallenges = 1
    Channel = 1
    MaxMessages = 4
    MaxApp = 1
INVARIANTS
    NothingMissed
    WithinLimits
    WrapsReachTheirRecipient
CHECK_DEADLOCK FALSE
