CONSTANT N = 5
SPECIFICATION FairSpec
INVARIANTS
    TypeOK
    GetForksNeverBlocks
    BitmapExact
PROPERTIES
    NeighboursExclude
    MealsGoOn
