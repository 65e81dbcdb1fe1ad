CONSTANTS
    Dims <- MCDims
    Tries = 2
    Racing = FALSE
    MaxFiles = 3
    MaxNumber = 3
    None = None
SPECIFICATION FileSpec
CHECK_DEADLOCK FALSE
INVARIANTS
    FrameIsWhole
    RemadeFileIsSafe
PROPERTIES
    CompleteFileOpens
