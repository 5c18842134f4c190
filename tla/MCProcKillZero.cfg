CONSTANTS
    Slots = {init, p1, p2}
    initproc = init
    CPUs = {c1, c2}
    Victims = {p1, p2}
    None = None
SPECIFICATION Spec
SYMMETRY Symmetry
INVARIANTS
    KillMarksProcess
