SPECIFICATION FairSpec
CONSTANTS
    e1 = e1
    e2 = e2
    e3 = e3
    c1 = c1
    c2 = c2
    NoEvent = NoEvent
    Events <- MCTwoCh
    Channels <- MCChannels
    ChannelOf <- MCTwoChOf
    MaxAttempts = 2
    Faults = {"mark_failed"}
    MaxFaults = 1
    MaxRevivals = 0
PROPERTIES WorkersReturn
