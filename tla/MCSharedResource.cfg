SPECIFICATION FairSpec
CONSTANTS
    t1 = t1
    t2 = t2
    t3 = t3
    t4 = t4
    t5 = t5
    Threads <- MCThreads
    Capacity = 3
INVARIANTS
    TypeOK
    CapacityKept
    OneBaton
PROPERTIES
    DrainsFirst
    UseGoesOn
