SPECIFICATION Spec
CONSTANTS
    p1 = p1
    p2 = p2
    p3 = p3
    t1 = t1
    t2 = t2
    PageUnits = 4
    Pages <- MCPages
    Threads <- MCThreads
    Sizes <- MCSizes
    Aligns <- MCAligns
    Break1 = 5
    Break2 = 6
    Nil = Nil
PROPERTIES
    BestOverAllPages
