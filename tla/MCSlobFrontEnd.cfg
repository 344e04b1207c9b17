SPECIFICATION FrontSpec
CONSTANTS
    p1 = p1
    p2 = p2
    c1 = c1
    c2 = c2
    softirq = softirq
    r1 = r1
    PageUnits = 5
    Pages <- MCPages
    Threads <- MCThreads
    Callers <- MCCallers
    Softirq = softirq
    Readers <- MCReaders
    KmallocSizes <- MCKmallocSizes
    Caches <- MCCaches
    Sizes <- MCSizes
    Aligns <- MCAligns
    MinAlign = 4
    RcuSize = 2
    Break1 = 7
    Break2 = 8
    Nil = Nil
    Data = Data
    Junk = Junk
    Outside = Outside
INVARIANTS
    FrontTypeOK
    Accounted
    ObjectsIntact
    StatisticsAgree
PROPERTIES
    EmptyPageLeaves
