\* An export read in four statements, and imports confirmed by two requests.
SPECIFICATION ExportSpec
CONSTANTS
    Request = {r1, r2}
    Token = {t1}
    SeedGrid <- OneRow
    ResizeTo <- OtherSize
    TagName <- TwoNames
    LowerName <- TwoNames
    Pieces <- Whole
    Terms <- Whole
    FilterLists <- None
    ResultLimits <- None
    Backups <- OneFile
    MaxContainer = 4
    MaxItem = 2
    MaxTag = 2
SYMMETRY Symmetry
INVARIANTS
    TornFileIsTrue
    UntouchedExported
    ConfirmedOnce
