\* Two jobs and two workers; channels, workers and postsvc fail.
SPECIFICATION FairSpec
CONSTANTS
    Jobs = {j1, j2}
    Workers = {w1, w2}
    Faults = {"publish", "worker", "postsvc"}
    MaxFaults = 3
    MaxOutages = 1
    NoJob = nojob
INVARIANTS
    TypeOK
    OneWorkerPerJob
    RunsHaveCause
PROPERTIES
    KeptUntilRun
    EventuallyRun
CHECK_DEADLOCK FALSE
