SPECIFICATION Spec
CONSTANTS
    NPROC = 3
    MAXVA = 3
    Word = {x}
    Machines <- Small
    MaxLeak = 1
CHECK_DEADLOCK FALSE
INVARIANTS RefcntExact NoPanic SharedReadOnly
PROPERTIES ImplementsPrivateMemory
