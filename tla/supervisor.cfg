\* Two descendants; output beyond the capture limit and beyond the largest total.
CONSTANTS
    Child = {k1, k2}
    File = {f1, f2}
    Executable = {f1}
    NoFile = NoFile
    Limit = 1
    MaxTotal = 2
    Chunk = {1, 2}
    MaxWritten = 4
SPECIFICATION FairSpec
INVARIANTS
    TypeOK
    SignalsOwnGroup
    SuccessIsComplete
    GroupEnded
    OutputReported
    ExecutesChecked
PROPERTIES
    Returns
CHECK_DEADLOCK FALSE
