SPECIFICATION FairSpec
CONSTANTS
    MaxThreads = 2
    MaxJobs = 3
    MaxRounds = 2
INVARIANTS
    Inv
    ListAlive
    NoJobTwice
    SlotsCoverThreads
PROPERTIES
    ImplementsContract
    RoundEnds
    ReleaseEnds
