SPECIFICATION FairSpec
CONSTANTS
    Block = {b1, b2, b3}
    Val = {x}
    Op = {o1, o2}
    MAXOPBLOCKS = 2
    LOGSIZE = 4
    OpBlocks = 1
    NoBuf = NoBuf
INVARIANTS NoPanic
PROPERTIES SleeperWakes
