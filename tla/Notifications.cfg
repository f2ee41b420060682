\* One post, three attempts and two consumers; sends fail or are repeated, consumers are lost.
SPECIFICATION FairSpec
CONSTANTS
    Posts = {1}
    Consumers = {n1, n2}
    Faults = {"send", "answer", "consumer"}
    MaxLosses = 2
    Nobody = nobody
INVARIANTS
    TypeOK
    DeliveriesHaveCause
PROPERTIES
    KeptUntilDelivered
    EventuallyDelivered
CHECK_DEADLOCK FALSE
