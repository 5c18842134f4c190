CONSTANT N = 5
SPECIFICATION FairSpec
INVARIANTS
    TypeOK
    ForksHeld
PROPERTIES
    NeighboursExclude
    SomebodyEats
