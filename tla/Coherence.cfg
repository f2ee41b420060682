\* One replica over Redis, ids from a sequence, bulk creates, storage and Redis
\* that fail, and crashes: bulk results add up, what is deleted stays deleted, and
\* the caches agree with the store in the end.
SPECIFICATION FairSpec
CONSTANTS
    w1 = w1
    w2 = w2
    r1 = r1
    r2 = r2
    t1 = t1
    t2 = t2
    b1 = b1
    b2 = b2
    Workers = {w1, w2}
    Replicas = {r1}
    ReplicaOf <- OneReplica
    Fallback = {}
    Titles = {t1, t2}
    Bodies = {b1}
    Drafts <- MixedDrafts
    Empty = empty
    Blank = blank
    TooLong = toolong
    MaxId = 1
    Seed = 0
    MaxBulk = 2
    Serial = TRUE
    Faults = {"storage", "cache", "crash"}
    Absent = absent
    NoEntry = noentry
INVARIANTS
    BulkAddsUp
PROPERTIES
    DeletedStaysDeleted
    EventuallyCoherent
