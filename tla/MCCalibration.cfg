SPECIFICATION MCSpec
CONSTANTS
    t1 = t1
    t2 = t2
    w1 = w1
    w2 = w2
    Profiles <- OneRefused
    Threads <- TwoThreads
    Publishers <- TwoPublishers
    MaxChanges = 2
    MaxCalls = 3
    MaxEdits = 1
    MaxBuilds = 2
SYMMETRY CalibrationSymmetry
INVARIANTS
    Inv
    PackagesAreWhole
    DescribesThePackages
PROPERTIES
    PublishedIsWhole
CHECK_DEADLOCK FALSE
