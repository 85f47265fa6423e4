SPECIFICATION Spec
CONSTANT MaxJobs = 1
CHECK_DEADLOCK FALSE
INVARIANT RemoveOnlyDiscards
