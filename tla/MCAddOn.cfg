SPECIFICATION AddOnSpec
CONSTANTS
    small = small
    large = large
    Resolutions <- MCResolutions
    MaxEngines = 2
    MaxPublished = 2
    CanHang = TRUE
    PyNone = PyNone

INVARIANTS
    HandlesAreTrue

PROPERTIES
    OnlyOtherWritersSkip
    OperatorReturns
