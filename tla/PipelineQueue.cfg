SPECIFICATION FairSpec
CONSTANTS
    e1 = e1
    e2 = e2
    e3 = e3
    c1 = c1
    c2 = c2
    NoEvent = NoEvent
    Events <- MCTwoEvents
    Channels <- MCOneChannel
    ChannelOf <- MCOneChannelOf
    MaxAttempts = 2
    Faults = {"crash", "submit", "claim", "mark_done", "requeue"}
    MaxFaults = 2
    MaxRevivals = 1
INVARIANTS ChannelFIFO NoStrandedRow
PROPERTIES DoneIsFinal ImplementsQueue EveryEventSettles
