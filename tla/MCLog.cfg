SPECIFICATION Spec
CONSTANTS
    Block = {b1, b2}
    Val = {x, y}
    Op = {o1, o2, o3}
    MAXOPBLOCKS = 2
    LOGSIZE = 4
    OpBlocks = 2
    NoBuf = NoBuf
SYMMETRY Symmetry
PROPERTIES WriteAhead ImplementsAtomicDisk
