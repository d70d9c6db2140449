SPECIFICATION Spec
CONSTANTS
    BufLen = 3
    WriteDepth = 1
    ReadDepth = 1
    WriteMark = 0
    ReadMark = 0
    Counts = {1, 3}
    IntMax = 4
    Timeout = 2
    Requests = {1}
    Numbers = 6
    Few = 1
INVARIANTS
    TypeOK
    CopiesInBounds
    NothingStranded
    WaitsOnlyWhenFull
PROPERTIES
    TxSpec
    RxSpec
    WriteReturns
