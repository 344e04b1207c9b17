SPECIFICATION FairSpec
CONSTANTS
    N = 5
    None = None
INVARIANTS
    NeighboursTakeTurns
    ForksAgree
    NoCircularWait
PROPERTIES
    MealsGoOn
