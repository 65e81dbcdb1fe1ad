SPECIFICATION Spec
CONSTANTS
    gas = gas
    fire = fire
    tall = tall
    broken = broken
    small = small
    large = large
    Docs <- MCDocs
    Dims <- MCDims
    NoDims = NoDims
    DimsOf <- MCDimsOf
    Stateful <- MCStateful
    Start = 1
    MaxSpan = 1
    Frames <- MCFrames
    MaxSeq = 3
    Nothing = Nothing
    CreateFailures = {"open"}

INVARIANTS
    RepliesAreTrue
    OutOfMemoryFreesMemory

PROPERTIES
    LostDeviceIsReported
    CommandIsAnswered
