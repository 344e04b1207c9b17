SPECIFICATION Spec
CONSTANTS
    PageUnits = 5
    Aligns <- MCAligns
    UserValues <- MCUserValues
    Nil = Nil
INVARIANTS
    TypeOK
    FreeListIsTheHoles
PROPERTIES
    SparesObjects
    ImplementsHeap
