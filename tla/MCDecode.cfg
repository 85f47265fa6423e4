SPECIFICATION Spec
CONSTANTS
    GChunkSize = 2
    StoredFiles <- MCShapes
INVARIANT StoredBookDecodes
