SPECIFICATION Spec
CONSTANTS
    NodeCount = 3
    SourceLists <- MCSourceLists
    TargetLists <- MCTargetLists
INVARIANTS
    PlanIsSound
    CyclesAreReported
PROPERTIES
    Terminates
CHECK_DEADLOCK FALSE
