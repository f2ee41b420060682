\* No faults: an update of the title undoes an update of the body.
SPECIFICATION FairSpec
CONSTANTS
    w1 = w1
    w2 = w2
    r1 = r1
    r2 = r2
    t1 = t1
    t2 = t2
    b1 = b1
    b2 = b2
    Workers = {w1, w2}
    Replicas = {r1}
    ReplicaOf <- OneReplica
    Fallback = {}
    Titles = {t1, t2}
    Bodies = {b1, b2}
    Drafts <- FieldDrafts
    Empty = empty
    Blank = blank
    TooLong = toolong
    MaxId = 1
    Seed = 1
    MaxBulk = 0
    Serial = TRUE
    Faults = {}
    Absent = absent
    NoEntry = noentry
PROPERTIES
    UnsentFieldsUnchanged
