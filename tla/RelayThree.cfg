SPECIFICATION RevivalFairSpec
CONSTANTS
    a = a
    b = b
    c3 = c3
    Endpoints <- Three
    SelfKnown = TRUE
    RelayBots = FALSE
    MaxAttempts = 2
    OldPost = TRUE
    MaxPosts = 2
    MaxRoots = 2
    MaxEdits = 0
    MaxDeletes = 0
    MaxFaults = 1
    MaxRequeues = 0
INVARIANTS ThreadsMatch Delivered
PROPERTIES ComesToRest
CHECK_DEADLOCK FALSE
