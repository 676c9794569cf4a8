SPECIFICATION Spec
CONSTANTS
    Chunks <- MCChunks
    Vanishing = {3}
    Blocked = {2}
    SentEvent = 1
    AuthRelay = TRUE
    HighWater = 2
    LowWater = 0
    BatchSize = 1
    Notifications = 2
INVARIANTS
    ResultsAreTrue
    NeverStalls
    NothingLeftBehind
CHECK_DEADLOCK FALSE
