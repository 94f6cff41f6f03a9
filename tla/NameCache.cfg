SPECIFICATION Spec
CONSTANTS
    u1 = u1
    u2 = u2
    r1 = r1
    r2 = r2
    Users <- MCUsers
    Readers <- MCReaders
    Listener = r1
    Ttl = 3
    Latency = 1
    MaxSize = 1
    MaxChanges <- MCMaxChanges
    MaxFaults = 2
INVARIANTS
    CacheBounded
    NamesRecent
    StaleIsExplained
