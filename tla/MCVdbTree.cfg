SPECIFICATION Spec
CONSTANTS
    LeafDim = 2
    InternalDim = 4
    RootChildDim = 8
    DimsChoices <- MCDims
    GridCounts = {0, 1, 2}
    Background = Background
INVARIANTS
    FileIsTheField
CHECK_DEADLOCK FALSE
