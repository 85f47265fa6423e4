SPECIFICATION Spec
CONSTANTS
    f1 = f1
    f2 = f2
    f3 = f3
    z = z
    h1 = h1
    h2 = h2
    o1 = o1
    none = none
    NoHash = none
    Books <- MCBooks
    Archives <- MCArchives
    EntriesOf <- MCEntriesOf
    Workloads <- MCWorkloads
    HashOf <- MCHashOf
    CatalogHashes <- MCHashes
    Shelf = {o1}
    Permits = 2
CHECK_DEADLOCK FALSE
INVARIANTS
    ReportIsTrue
    KeptBookWhole
    IndexFollowsCatalog
PROPERTIES
    RunReturns
