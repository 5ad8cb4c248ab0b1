SPECIFICATION Spec
CONSTANTS
    p1 = p1
    p2 = p2
    math = math
    english = english
    common = common
    secondary = secondary
    NoSubject = NoSubject
    Clean = Clean
    Txs <- MCTxs
    Subjects <- MCSubjects
    TestTypes <- MCTestTypes
    Name <- MCName
    Scores = {0, 1}
    Orders = {0, 1}
    Batches <- MCBatches
    InitialRows <- MCInitialRows
    MaxBegins = 3
SYMMETRY Symmetry
CHECK_DEADLOCK FALSE
PROPERTIES
    UpdateIsExact
