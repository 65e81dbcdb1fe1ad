\* Frames 0..4, of which 0 is before the start frame and 4 stands for u32::MAX.
CONSTANTS
    Start = 1
    MaxFrame = 4
    small = small
    large = large
    huge = huge
    Dims <- MCDims
    NoDims = NoDims
    NodeCount = 2
    Budget = 5
    LayoutBytes <- MCLayoutBytes
    NoFrame = NoFrame
    Nothing = Nothing

SPECIFICATION Spec

INVARIANTS
    StatesAreExact
    CacheAccounting

PROPERTIES
    ProtectedSurvivesEviction
    NoFrameIsRecomputed
    GotoReturns
    ImplementsPlayback
