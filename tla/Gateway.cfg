\* Two requests: one of every kind, and beside it a login. Authsvc, postsvc and
\* the gateway fail; every call may fail or hang.
SPECIFICATION FairSpec
CONSTANTS
    q1 = q1
    q2 = q2
    Requests = {q1, q2}
    Inputs <- AllSent
    May <- MaySend
    Users = {"admin", "editor", "viewer"}
    RoleOf <- Roles
    NoUser = "nobody"
    Enabled = {"rabbitmq", "minio"}
    Faults = {"limit", "rpc", "service", "crash"}
    MaxDeaths = 1
INVARIANTS
    TypeOK
    OnlyPermitted
PROPERTIES
    KeepsPromise
    EventuallyAnswered
CHECK_DEADLOCK FALSE
