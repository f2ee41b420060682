\* Two consumers, two partitions; publishing fails and consumers stop.
SPECIFICATION FairSpec
CONSTANTS
    Handlers = {h1}
    Consumers = {k1, k2}
    Partitions = {q1, q2}
    Posts = {1}
    Faults = {"publish", "stop"}
    MaxCalls = 2
    MaxStops = 2
    Nobody = nobody
INVARIANTS
    TypeOK
    CommittedWasCounted
    OncePerGeneration
PROPERTIES
    EventuallyCounted
CHECK_DEADLOCK FALSE
