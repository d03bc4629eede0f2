\* Every request is answered, whatever the others do.
SPECIFICATION LiveSpec
CONSTANTS
    r1 = r1
    r2 = r2
    red = red
    blue = blue
    Nobody = Nobody
    Request <- TwoRequests
    Kinds <- LiveKinds
    ResizeNames <- Names
    TagLists <- OneList
    SeedGrid <- TwoCells
    ResizeTo <- Sizes
    TagName <- OneName
    LowerName <- OneName
    Backups <- None
    MaxContainer = 3
    MaxItem = 1
    MaxTag = 1
PROPERTIES
    AllAnswered
