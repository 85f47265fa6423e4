SPECIFICATION Spec
CONSTANT MaxJobs = 2
CHECK_DEADLOCK FALSE
INVARIANTS
    TypeOK
    CompletedHasResult
    RecordsOutliveWork
    NoWorkAfterDestructor
PROPERTIES
    StatusMovesForward
    CancelledOnRequest
    StoppedJobEnds
    DestructorReturns
