CONSTANTS
    Attendees = {a1, a2, a3}
    shuttle_capacity = 2
    MaxArrived = 4
SPECIFICATION Spec
SYMMETRY Symmetry
CHECK_DEADLOCK FALSE
INVARIANTS
    NoDeadlock
