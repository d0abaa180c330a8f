SPECIFICATION Spec
CONSTANTS
    BSIZE = 3
    NDIRECT = 1
    NINDIRECT = 1
    WriteMax = 3
    MaxCrash = 1
    Setups <- Machines
CHECK_DEADLOCK FALSE
INVARIANTS FsckClean InodesExact NoDeadlock
