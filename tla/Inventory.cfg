\* Every operation of the store on grids of up to two cells.
SPECIFICATION Spec
CONSTANTS
    SeedGrid <- SmallGrid
    ResizeTo <- SmallSizes
    TagName <- Names
    LowerName <- Lower
    Pieces <- SplitAtBar
    Terms <- SplitAtComma
    FilterLists <- Lists
    ResultLimits <- Limits
    Backups <- AnyFiles
    MaxContainer = 5
    MaxItem = 2
    MaxTag = 3
INVARIANTS
    TypeOK
    ForeignKeys
    UniqueKeys
    SearchFindsItems
    SearchSaysWhy
    GridShowsItems
    TagsPageIsTrue
    DuplicatesFound
    ExportIsBackup
PROPERTIES
    GridKept
    StaleIdsFindNothing
    ResizeKeepsItems
    MergeReplacesName
    ImportReplacesAll
