SPECIFICATION FairSpec
CONSTANTS
    o1 = o1
    o2 = o2
    Operations <- OneOperation
    Addresses <- TwoAddresses
    Settings <- UpToTwoHelpers
    MaxHelpers = 2
    MaxStarts = 3
INVARIANTS
    Inv
    JoinedBeforeFreed
    CallsFindTheCrew
PROPERTIES
    StopEnds
