SPECIFICATION Spec
CONSTANTS
    p1 = p1
    p2 = p2
    u1 = u1
    d1 = d1
    m1 = m1
    s1 = s1
    i1 = i1
    t1 = t1
    x1 = x1
    NoEntry = NoEntry
    NoRow = NoRow
    Unread = Unread
    Procs <- MCProcs
    Rows <- MCTopRows
    Kind <- MCTopKind
    Id <- MCTopId
    Parent <- MCTopParent
    Queries = {"q"}
    Keys <- MCDepartmentKeys
    MaxCacheSize = 2
    MaxCommits = 2
SYMMETRY Symmetry
PROPERTIES
    RelatedEntriesCleared
