SPECIFICATION Spec
CONSTANTS
    b1 = b1
    b2 = b2
    s1 = s1
    h1 = h1
    h2 = h2
    t1 = t1
    t2 = t2
    none = none
    NoHash = none
    Imports <- MCTwoJobs
    Batch = {b1}
    Covered <- MCTwoJobs
    AllowProbable <- MCAllow
    HashOf <- MCSameHash
    TitleOf <- MCTitleOf
    CatalogHashes <- MCNobody
    CatalogTitles <- MCTitles
CHECK_DEADLOCK FALSE
INVARIANT RowKeepsItsFile
