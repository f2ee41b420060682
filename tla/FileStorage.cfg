\* The JSON-file backend: two goroutines, crashes and failing file operations.
SPECIFICATION FairSpec
CONSTANTS
    Contents = {c1, c2}
    c1 = c1
    c2 = c2
    Malformed = malformed
    AskedIds = {1, 2}
    Batches <- MCBatches
    Callers = {p1, p2}
    MaxCreates = 3
INVARIANTS
    TypeOK
    UniqueIds
    NoInterleavedWrite
PROPERTIES
    Implements
    CallsReturn
