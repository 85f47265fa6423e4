SPECIFICATION Spec
CONSTANTS
    b1 = b1
    b2 = b2
    o1 = o1
    c1 = c1
    c2 = c2
    none = none
    Absent = none
    Books = {b1, b2, o1, c1, c2}
    Shelf = {b1, b2}
    IdOf <- MCIdOf
    Candidates = {c1, c2}
    Others = {o1}
    Options <- MCOptions
    Meta <- MCMeta
    CoreOf <- MCCoreOf
    CoverOf <- MCCoverOf
    Queries <- MCQueries
    MaxCommits = 2
CHECK_DEADLOCK FALSE
INVARIANTS
    PageTrue
    StatisticsCurrent
    DuplicatesTrue
    NoRunawayConverter
    CoverFits
