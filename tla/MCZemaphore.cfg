CONSTANTS
    Threads = {t1, t2, t3, t4}
    InitValue = 1
    MaxValue = 4
SPECIFICATION Spec
INVARIANTS
    TypeOK
    NoLostSignal
PROPERTY
    Implements
