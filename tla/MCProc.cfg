CONSTANTS
    Slots = {init, p1, p2, p3}
    initproc = init
    CPUs = {c1, c2}
    Victims = {p1, p2, p3}
    None = None
SPECIFICATION Spec
SYMMETRY Symmetry
INVARIANTS
    TypeOK
    IInv
    StackSafe
    SchedLocks
    NoMissedExit
    ParentsAlive
