SPECIFICATION Spec
CONSTANTS
    Block = {1, 2, 3}
    Val = {0, 1}
    WRAP = 8
    None = None
    Machines <- Queues
CHECK_DEADLOCK FALSE
INVARIANTS NoMissedWakeup ResourcesExact
PROPERTIES ImplementsLockedBlocks RequestsFinish
