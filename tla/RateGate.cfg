SPECIFICATION Spec
CONSTANTS
    s1 = s1
    s2 = s2
    s3 = s3
    c1 = c1
    c2 = c2
    Senders <- MCSenders
    Channels <- MCChannels
    Interval = 3
    Lateness = 1
    MaxCancels = 2
INVARIANTS
    Spaced
    WaitBounded
