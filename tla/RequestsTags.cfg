\* Tags: attached, removed, renamed, merged and deleted, with stale ids.
SPECIFICATION Spec
CONSTANTS
    r1 = r1
    r2 = r2
    red = red
    blue = blue
    Nobody = Nobody
    Request <- TwoRequests
    Kinds <- TagKinds
    ResizeNames <- Kept
    TagLists <- TwoLists
    SeedGrid <- OneCell
    ResizeTo <- Sizes
    TagName <- TwoNames
    LowerName <- TwoNames
    Backups <- None
    MaxContainer = 1
    MaxItem = 1
    MaxTag = 2
SYMMETRY Interchangeable
PROPERTIES
    CommitsAreRequested
