SPECIFICATION MCSpec
CONSTANTS
    a = a
    b = b
    c = c
    NoAnswer = NoAnswer
    Items <- MCItems
    Categories <- MCCategories
    MaxCopies = 2
    Keywords = {"word"}
    SortFields = {"order"}
    SortOptions = {"high"}
    MaxPending = 2
    Documents <- MCDocuments
    Windows <- MCWindows
    MaxEdits = 1
INVARIANTS
    FormTypeOK
    OnlyRefusalsAreUnseen
    TypeOK
    OneRowPerSchedule
    PageShowsTheRow
    RowsOpen
    RingsAgree
PROPERTIES
    SelectionSpec
    SearchesAreAnswered
    HeadersOrTimeout
