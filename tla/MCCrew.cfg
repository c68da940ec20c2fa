SPECIFICATION MCSpec
CONSTANTS
    c1 = c1
    w1 = w1
    w2 = w2
    o1 = o1
    o2 = o2
    a1 = a1
    a2 = a2
    a3 = a3
    Callers <- OneCaller
    CrewThreads <- TwoThreads
    Postings = 3
    MaxCalls = 3
    MaxJobs = 2
    MaxDepth = 3
    Limit = 2
SYMMETRY Symmetric
INVARIANTS
    Inv
    JoinedAreAlive
    NoWaitCycle
    NoLostWakeup
    OwnedByOne
