SPECIFICATION RevivalSpec
CONSTANTS
    a = a
    b = b
    c3 = c3
    Endpoints <- Two
    SelfKnown = TRUE
    RelayBots = TRUE
    MaxAttempts = 2
    OldPost = TRUE
    MaxPosts = 2
    MaxRoots = 2
    MaxEdits = 1
    MaxDeletes = 1
    MaxFaults = 1
    MaxRequeues = 1
INVARIANTS NoLoop LinksSound ExactlyOneCopy RevivedDelivered
CHECK_DEADLOCK FALSE
