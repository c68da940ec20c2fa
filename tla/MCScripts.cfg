SPECIFICATION Spec
CONSTANTS
    f1 = f1
    f2 = f2
    f3 = f3
    Programs <- ThreeFiles
    Modules <- ThreeFiles
    Seen <- SomeLayers
SYMMETRY FileSymmetry
INVARIANTS
    FoundExactly
    BoundariesHold
    NoLosingScaleWins
    ReaderTakesProfile
    TablesAnswer
    NamesAnswer
CHECK_DEADLOCK FALSE
