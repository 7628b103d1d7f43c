\* Three items for a limit of two, so that it is reached with one to spare; of
\* the two keywords one is written as text.
CONSTANTS
    Items = {t1, t2, t3}
    Keywords = {k1, k2}
    Unwritable = {k2}
    MaxItems = 2
    NoKw = NoKw
    Lists = {l, m}
    ListTexts <- MCListTexts
    MaxValues = 2
    FilterValues <- MCFilterValues
    OperationTexts <- MCOperationTexts
    ItemTexts <- MCItemTexts
    MaxFilters = 2
    MaxOperationItems = 1
    MaxPieces = 3
SPECIFICATION TargetsSpec
SYMMETRY Sym
CHECK_DEADLOCK FALSE
INVARIANTS
    WithinLimit
    NoRepeats
    QuotedReadsBack
    OperationsReadBack
PROPERTIES
    DuplicatesComeFromSetKeyword
    ValidityIsLostFor
