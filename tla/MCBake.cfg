SPECIFICATION BakeSpec
CONSTANTS
    Documents <- MCDocuments
    Registry <- MCRegistry
    MaxBuffer = 256
    RowAlignment = 16
    MaxTexture = 8
    Nothing = Nothing
    MaxFrame = 2
    StartFrame = 1
    MaxCommands = 2
    MaxEdge = 2
    Stem = "stem"
INVARIANTS
    BakedFilesAreRight
    EndsCleanly
CHECK_DEADLOCK FALSE
