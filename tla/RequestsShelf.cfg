\* Items and the grid: creations and moves against resizes and an import.
SPECIFICATION Spec
CONSTANTS
    r1 = r1
    r2 = r2
    red = red
    blue = blue
    Nobody = Nobody
    Request <- TwoRequests
    Kinds <- ShelfKinds
    ResizeNames <- AnyName
    TagLists <- OneList
    SeedGrid <- TwoCells
    ResizeTo <- Sizes
    TagName <- TwoNames
    LowerName <- TwoNames
    Backups <- Files
    MaxContainer = 4
    MaxItem = 2
    MaxTag = 2
SYMMETRY Interchangeable
INVARIANTS
    ChecksStillHold
    HolderCommits
    AnswersAreTrue
PROPERTIES
    OperationsAreAtomic
