SPECIFICATION Spec
CONSTANTS
    Documents <- MCDocuments
    Registry <- MCRegistry
    MaxBuffer = 256
    RowAlignment = 16
    MaxTexture = 4
    Nothing = Nothing
INVARIANTS
    LoadedGraphIsSound
    LoadedSizesAreWithinLimits
