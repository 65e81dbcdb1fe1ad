SPECIFICATION Spec
CONSTANTS
    Readers <- MCReaders
    Words <- MCWords
    Nothing = Nothing
    Attempts = 3
    LoadsInOrder = TRUE
    MaxSeq = 5
INVARIANT NoTornFrame
PROPERTY ReadReturns
PROPERTY ImplementsRegister
