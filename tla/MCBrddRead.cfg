SPECIFICATION Spec
CONSTANTS
    r1 = r1
    r2 = r2
    r3 = r3
    Requests <- MCRequests
    Bios <- MCBios
    Sectors <- MCSectors
    UintRange = 3
    BlocksPerSector = 2
    Nil = Nil
PROPERTIES
    ReadsDecrypt
