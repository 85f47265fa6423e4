SPECIFICATION Spec
CONSTANTS
    GChunkSize = 2
    StoredFiles <- MCStored
INVARIANTS
    BookNeverLost
    TrashIsTold
    ChosenFileKept
