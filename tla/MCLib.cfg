SPECIFICATION Spec
CONSTANTS
    MinUnits = 3
    MaxUnits = 9
    Requests = {2, 4}
    DIRSIZ = 2
    BITS = 6
    BufSize = 4
    MAXARGS = 3
    MaxText = 6
INVARIANTS HeapSound ParseFaithful LibraryCorrect
CHECK_DEADLOCK FALSE
