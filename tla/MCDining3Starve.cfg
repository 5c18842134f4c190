CONSTANT N = 5
SPECIFICATION FairSpec
PROPERTY
    NobodyStarves
