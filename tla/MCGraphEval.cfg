SPECIFICATION EvalSpec
CONSTANTS
    Graphs <- MCGraphs
    Unconnected = Unconnected
    MaxFailures = 2
INVARIANTS
    UsesAreExact
    NothingStranded
PROPERTIES
    CopyIsNeeded
    RecyclesEverything
    EveryFrameReturns
