CONSTANTS
    Keys = {k1, k2}
    Sources = {s1, s2}
    MaxTextures = 2
    None = None
SPECIFICATION GpuSpec
INVARIANTS
    KeptThingsAreSound
PROPERTIES
    ReportsAreExact
