SPECIFICATION FairSpec
CONSTANTS
    Callers = {c1, c2, c3}
    Addresses = {a1, a2}
    MaxChanges = 2
INVARIANTS
    TypeOK
    IInv
PROPERTIES
    StorageImplementsRegister
    LookupEnds
    WaitersServed
