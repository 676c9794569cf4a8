SPECIFICATION FairSpec
CONSTANTS
    Callers = {c1}
    Subscribers = {c1}
    Attempts = {a1, a2, a3}
    NoAttempt = NoAttempt
    Reconnect = TRUE
    SleepWhenIdle = TRUE
INVARIANTS
    NoWaiterIsLost
    StatusMatchesSession
PROPERTIES
    ImplementsLifecycle
    EveryWaiterAnswered
    SupersededIsDropped
    TerminalEndsTask
CHECK_DEADLOCK FALSE
