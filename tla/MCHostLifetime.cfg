SPECIFICATION Spec
CONSTANTS
    c1 = c1
    c2 = c2
    Calls = {c1, c2}
    Requests <- MCRequests
    MaxSessions = 0
CHECK_DEADLOCK FALSE
INVARIANTS
    AnswersAreTrue
    StopEndsService
PROPERTIES
    HostEnds
