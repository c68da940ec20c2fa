SPECIFICATION MCSpec
CONSTANTS
    c1 = c1
    c2 = c2
    t1 = t1
    MaxJobs = 4
    MaxCalls = 2
INVARIANTS
    MCInv
PROPERTIES
    ImplementsContract
    CallsEnd
