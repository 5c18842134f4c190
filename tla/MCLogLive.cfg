CONSTANTS
    Procs = {p1, p2}
    Blocks = {b1, b2, b3, b4}
    Val = {v1}
    Absent = Absent
    MAXOPBLOCKS = 2
    LOGSIZE = 4
    NLOG = 4
    OpBlocks = 1
    MaxCrashes = 1
SPECIFICATION FairSpec
INVARIANTS NoPanic LogFits
PROPERTIES SleeperWakes CommitEnds
