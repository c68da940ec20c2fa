SPECIFICATION MCSpec
CONSTANTS
    Threads = {"t1", "t2"}
    Addresses = {1, 2, 3, 4}
    MaxContents = 5
    Readers = {"t1", "t2", "t3"}
    MaxReads = 4
    Patterns = {"a", "b", "c", "("}
    Invalid = {"("}
    Capacity = 2
    MaxCalls = 5
INVARIANTS
    OneWholeCopy
    RecordsAreTrue
    HoldsTheLatest
PROPERTIES
    ReadsEnd
CHECK_DEADLOCK FALSE
