SPECIFICATION Spec
CONSTANTS
    e1 = e1
    e2 = e2
    e3 = e3
    c1 = c1
    c2 = c2
    NoEvent = NoEvent
    Events <- MCTwoEvents
    Channels <- MCOneChannel
    ChannelOf <- MCOneChannelOf
    MaxAttempts = 2
    Faults = {"crash", "submit", "claim", "claim_reply", "mark_done", "mark_done_reply", "mark_failed", "requeue", "pending"}
    MaxFaults = 3
    MaxRevivals = 1
SYMMETRY Symmetry
INVARIANTS OneWorkerPerChannel RepeatsNeedFaults RetryBudget
