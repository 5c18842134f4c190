CONSTANTS
    Procs = {p1, p2, p3}
    Blocks = {b1, b2, b3}
    Val = {v1, v2}
    Absent = Absent
    MAXOPBLOCKS = 2
    LOGSIZE = 4
    NLOG = 4
    OpBlocks = 1
    MaxCrashes = 1
SYMMETRY Symmetry
SPECIFICATION Spec
INVARIANTS TypeOK IInv SleeperIsOwed PinsExact CacheCoherent QuiescentDurable
PROPERTY Atomic
