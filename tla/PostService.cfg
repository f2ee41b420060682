\* Two replicas, one with Redis and one that fell back to a cache in memory, over
\* a store that hands out the id of a deleted newest post again.
SPECIFICATION Spec
CONSTANTS
    w1 = w1
    w2 = w2
    r1 = r1
    r2 = r2
    t1 = t1
    t2 = t2
    b1 = b1
    b2 = b2
    Workers = {w1, w2}
    Replicas = {r1, r2}
    ReplicaOf <- TwoReplicas
    Fallback = {r2}
    Titles = {t1, t2}
    Bodies = {b1}
    Drafts <- LongDrafts
    Empty = empty
    Blank = blank
    TooLong = toolong
    MaxId = 1
    Seed = 0
    MaxBulk = 0
    Serial = FALSE
    Faults = {"storage", "cache", "crash"}
    Absent = absent
    NoEntry = noentry
INVARIANTS
    TypeOK
    StaleHasCause
