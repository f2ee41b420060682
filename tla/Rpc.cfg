SPECIFICATION Spec
CHECK_DEADLOCK FALSE
CONSTANTS
    Nil = Nil
    Store <- MCStore
    Inputs <- MCInputs
    Subjects <- MCSubjects
    Maps <- MCMaps
    RFC3339 <- MCRFC3339
    Now <- MCNow
    MaxInt32 = 1023
INVARIANTS
    SameRequest
    PageIsSound
    SameAnswer
    WalkIsComplete
