SPECIFICATION MemorySpec
CONSTANTS
    p1 = p1
    p2 = p2
    Procs = {p1, p2}
    Keys = {"a", "b"}
    Sizes <- MCSizes
    maxSize = 2
    None = None
    Expiring = {1}
    MaxSets = 2
    MaxTransactions = 1
INVARIANTS
    MemoryTypeOK
    SizeLimited
    BooksBalance
PROPERTIES
    CallsReturn
CHECK_DEADLOCK FALSE
