CONSTANTS
    INPUT_BUF_SIZE = 2
    UART_TX_BUF_SIZE = 2
    WRAP = 4
    Setups <- Machines
SPECIFICATION Spec
INVARIANTS
    LocksSound
    ThrBound
    NothingStalls
PROPERTY ImplementsTerminal
CHECK_DEADLOCK FALSE
