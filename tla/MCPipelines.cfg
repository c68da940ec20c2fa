SPECIFICATION MCSpec
CONSTANTS
    w1 = w1
    w2 = w2
    Workers <- TopWorkers
    Morsels <- ThreeMorsels
    Keys <- ThreeKeys
    HeapSize = 2
    LeastCut = 3
SYMMETRY WorkerSymmetry
INVARIANTS
    ResultInSourceOrder
    GroupsExact
    NothingLost
    ResultIsTopN
CHECK_DEADLOCK FALSE
