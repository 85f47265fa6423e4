SPECIFICATION Spec
CONSTANTS
    a1 = a1
    a2 = a2
    f1 = f1
    c1 = c1
    n1 = n1
    h1 = h1
    h2 = h2
    none = none
    NoHash = none
    MaxBatch = 2
    Requests <- MCRequests
    Forced <- MCForced
    HashOf <- MCHashOf
    CatalogHashes <- MCCatalogHashes
CHECK_DEADLOCK FALSE
INVARIANTS
    TypeOK
    WaitingInOnePlace
    RowsAreTold
    NoStrictDuplicates
    DrainedIsFinal
PROPERTIES
    EveryoneReturns
    ImplementsContract
