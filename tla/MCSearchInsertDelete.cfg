SPECIFICATION FairSpec
CONSTANTS
    i1 = i1
    i2 = i2
    s1 = s1
    s2 = s2
    d1 = d1
    d2 = d2
    n1 = n1
    n2 = n2
    n3 = n3
    Inserters <- MCInserters
    Searchers <- MCSearchers
    Deleters <- MCDeleters
    Nodes <- MCNodes
    Nil = Nil
INVARIANTS
    TypeOK
    DeleterAlone
    ListSound
    NobodyStuck
PROPERTIES
    OperationsEnd
