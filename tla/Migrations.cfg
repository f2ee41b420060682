\* Replicas that start together on an empty database, and stop anywhere.
SPECIFICATION FairSpec
CONSTANTS
    Replicas = {s1, s2, s3}
    Faults = {"stop", "index"}
    MaxStops = 1
INVARIANTS
    TypeOK
    NoGap
    RecordedIsApplied
    ServesMigrated
PROPERTIES
    EventuallyServing
CHECK_DEADLOCK FALSE
