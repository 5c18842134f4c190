\* The table that right() is written for; the algorithm may stop.
CONSTANT N = 5
SPECIFICATION Spec
INVARIANTS
    TypeOK
    StopsAllLeft
PROPERTY
    NeighboursExclude
CHECK_DEADLOCK FALSE
