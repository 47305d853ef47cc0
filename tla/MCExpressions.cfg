CONSTANTS
    None = None
    Width = 3
    Root = "file"
    Block <- MCBlock
    Outer <- MCOuter
    Programs <- MCPrograms
    Contents <- MCContents
    Requests <- MCRequests
SPECIFICATION Spec
INVARIANTS TypesAreSound ValueIsWritten CirclesAreRefused NumbersAreRight
CHECK_DEADLOCK FALSE
