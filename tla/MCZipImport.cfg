SPECIFICATION Spec
CONSTANTS
    e1 = e1
    e2 = e2
    e3 = e3
    e4 = e4
    n1 = n1
    u1 = u1
    x1 = x1
    d = d
    dirA = dirA
    dirB = dirB
    nameX = nameX
    nameY = nameY
    Archives <- MCArchives
    KindOf <- MCKindOf
    PathOf <- MCPathOf
    Permits = 2
CHECK_DEADLOCK FALSE
INVARIANTS
    ExtractedBounded
    OwnBytes
    ProgressTrue
PROPERTIES
    RunReturns
