\* A merge that was offered before another request renamed its source.
SPECIFICATION Spec
CONSTANTS
    r1 = r1
    r2 = r2
    red = red
    blue = blue
    Nobody = Nobody
    Request <- TwoRequests
    Kinds <- MergeKinds
    ResizeNames <- Kept
    TagLists <- TwoLists
    SeedGrid <- OneCell
    ResizeTo <- Sizes
    TagName <- TwoNames
    LowerName <- TwoNames
    Backups <- None
    MaxContainer = 1
    MaxItem = 1
    MaxTag = 3
PROPERTIES
    MergeMovesAssociations
