----------------------------- MODULE Migrations -----------------------------
(***************************************************************************)
(* The start of postsvc on Postgres: NewPostgresStorage creates the table  *)
(* of the posts, then Migrator.Migrate creates schema_migrations, reads    *)
(* the largest version recorded there, and runs the migrations above it.   *)
(* A migration's statements run on the pool and take effect at once; its   *)
(* version is recorded by a transaction beside them.  Several replicas     *)
(* start together, stop anywhere, and are started again.                   *)
(* Postgres is external: CREATE ... IF NOT EXISTS looks for the object     *)
(* before it creates it, and fails when another session was faster.        *)
(***************************************************************************)
EXTENDS Integers, FiniteSetsExt

CONSTANTS
    Replicas,    \* the processes of postsvc
    Faults,      \* which faults happen: "stop", "index"
    MaxStops     \* bound: processes that are killed or lose the database

ASSUME MigrationsAssumption == MaxStops \in Nat

VARIABLES
    extension,   \* whether the database has the extension pg_trgm
    schema,      \* the objects that exist in the database
    versions,    \* the versions in schema_migrations
    step,        \* where each replica is
    target,      \* the migration it is at
    found,       \* what its CREATE statement found: nothing yet, or an object
    inserted,    \* the version its transaction has inserted, or 0
    stops        \* how many processes have stopped, against MaxStops

database == <<schema, versions>>
vars == <<extension, database, step, target, found, inserted, stops>>

(* What the migrations create, by version.  The first one's table is also  *)
(* created by initSchema.                                                  *)
Creates == <<"posts", "audit_logs", "trigrams">>
Versions == 1 .. 3
FullText == 3
Objects == {"posts", "audit_logs", "trigrams", "schema_migrations"}

Init ==
    /\ extension \in BOOLEAN
    /\ schema = {}
    /\ versions = {}
    /\ step = [r \in Replicas |-> "down"]
    /\ target = [r \in Replicas |-> 0]
    /\ found = [r \in Replicas |-> "unknown"]
    /\ inserted = [r \in Replicas |-> 0]
    /\ stops = 0

-----------------------------------------------------------------------------
(* main: exits on every error of InitStorage, and the deployment starts    *)
(* the process again.                                                      *)

Restart(r) ==
    /\ step[r] = "down"
    /\ step' = [step EXCEPT ![r] = "initSchema"]
    /\ UNCHANGED <<extension, database, target, found, inserted, stops>>

(* tx.Rollback, or the end of the connection, undoes the insert.           *)
Exit(r) ==
    /\ step' = [step EXCEPT ![r] = "down"]
    /\ target' = [target EXCEPT ![r] = 0]
    /\ found' = [found EXCEPT ![r] = "unknown"]
    /\ inserted' = [inserted EXCEPT ![r] = 0]

(* The process is killed, or a statement fails and main exits.  A          *)
(* statement whose answer is lost is its success followed by Stop.         *)
Stop(r) ==
    /\ "stop" \in Faults
    /\ step[r] # "down"
    /\ stops < MaxStops
    /\ stops' = stops + 1
    /\ Exit(r)
    /\ UNCHANGED <<extension, database>>

-----------------------------------------------------------------------------
(* CREATE ... IF NOT EXISTS.                                               *)

Creating == {"initSchema", "createMigrationsTable", "up"}

ObjectOf(r) ==
    CASE step[r] = "initSchema" -> "posts"
      [] step[r] = "createMigrationsTable" -> "schema_migrations"
      [] OTHER -> Creates[target[r]]

Look(r) ==
    /\ step[r] \in Creating
    /\ found[r] = "unknown"
    /\ found' = [found EXCEPT ![r] = IF ObjectOf(r) \in schema THEN "present" ELSE "absent"]
    /\ UNCHANGED <<extension, database, step, target, inserted, stops>>

Successor ==
    [initSchema |-> "createMigrationsTable", createMigrationsTable |-> "getCurrentVersion",
     up |-> "updateVersion"]

Created(r) ==
    /\ step' = [step EXCEPT ![r] = Successor[step[r]]]
    /\ found' = [found EXCEPT ![r] = "unknown"]
    /\ UNCHANGED <<extension, versions, target, inserted, stops>>

AtIndexes(r) == step[r] = "up" /\ target[r] = FullText

(* The statement succeeds: it has found the object, or creates it.         *)
Create(r) ==
    /\ step[r] \in Creating
    /\ \/ found[r] = "present" /\ UNCHANGED schema
       \/ /\ found[r] = "absent" /\ ObjectOf(r) \notin schema
          /\ AtIndexes(r) => extension
          /\ schema' = schema \cup {ObjectOf(r)}
    /\ Created(r)

(* Another session has created the object since this one looked.           *)
Overtaken(r) ==
    /\ step[r] \in Creating
    /\ found[r] = "absent" /\ ObjectOf(r) \in schema

CreateConflicts(r) ==
    /\ Overtaken(r)
    /\ ~AtIndexes(r)
    /\ Exit(r)
    /\ UNCHANGED <<extension, database, stops>>

(* Mutant of SkipIndexes: the errors of every migration are swallowed.     *)
SkipAll(r) ==
    /\ step[r] = "up" /\ found[r] = "absent"
    /\ UNCHANGED schema
    /\ Created(r)

(* Migration 3 swallows every error, that of a missing extension like any  *)
(* other one.                                                              *)
SkipIndexes(r) ==
    /\ AtIndexes(r) /\ found[r] = "absent"
    /\ ~extension \/ Overtaken(r) \/ "index" \in Faults
    /\ UNCHANGED schema
    /\ Created(r)

-----------------------------------------------------------------------------
(* Migrate.                                                                *)

(* On to the next migration, or out of the loop.                           *)
Loop(r, v) ==
    /\ target' = [target EXCEPT ![r] = v]
    /\ step' = [step EXCEPT ![r] = IF v \in Versions THEN "up" ELSE "serving"]

(* Mutant of GetCurrentVersion: the loop skips one migration too many.     *)
GetVersionTooHigh(r) ==
    /\ step[r] = "getCurrentVersion"
    /\ Loop(r, Max(versions \cup {0}) + 2)
    /\ UNCHANGED <<extension, database, found, inserted, stops>>

GetCurrentVersion(r) ==
    /\ step[r] = "getCurrentVersion"
    /\ Loop(r, Max(versions \cup {0}) + 1)
    /\ UNCHANGED <<extension, database, found, inserted, stops>>

(* The UNIQUE constraint makes an insert wait for the transaction that has *)
(* inserted the same version.                                              *)
Free(r) == \A q \in Replicas \ {r} : inserted[q] # target[r]

UpdateVersion(r) ==
    /\ step[r] = "updateVersion"
    /\ Free(r)
    /\ target[r] \notin versions
    /\ inserted' = [inserted EXCEPT ![r] = target[r]]
    /\ step' = [step EXCEPT ![r] = "commit"]
    /\ UNCHANGED <<extension, database, target, found, stops>>

(* Mutants of VersionConflicts: the insert is tried again until it         *)
(* succeeds; a version that is there means that the schema is up to date.  *)
InsertAgain(r) ==
    /\ step[r] = "updateVersion"
    /\ target[r] \in versions
    /\ UNCHANGED vars
VersionSuffices(r) ==
    /\ step[r] = "updateVersion"
    /\ target[r] \in versions
    /\ step' = [step EXCEPT ![r] = "serving"]
    /\ UNCHANGED <<extension, database, target, found, inserted, stops>>

VersionConflicts(r) ==
    /\ step[r] = "updateVersion"
    /\ target[r] \in versions
    /\ Exit(r)
    /\ UNCHANGED <<extension, database, stops>>

Commit(r) ==
    /\ step[r] = "commit"
    /\ versions' = versions \cup {inserted[r]}
    /\ inserted' = [inserted EXCEPT ![r] = 0]
    /\ Loop(r, target[r] + 1)
    /\ UNCHANGED <<extension, schema, found, stops>>

Start(r) ==
    \/ Restart(r) \/ Look(r) \/ Create(r) \/ CreateConflicts(r) \/ SkipIndexes(r)
    \/ GetCurrentVersion(r) \/ UpdateVersion(r) \/ VersionConflicts(r) \/ Commit(r)

Next == \E r \in Replicas : Start(r) \/ Stop(r)

(* A process that is started runs on, and one that has exited is started   *)
(* again.                                                                  *)
Fairness == \A r \in Replicas : WF_vars(Start(r))

Spec == Init /\ [][Next]_vars
FairSpec == Spec /\ Fairness

-----------------------------------------------------------------------------
Steps == Creating \cup {"down", "getCurrentVersion", "updateVersion", "commit", "serving"}

(* Every variable has its type: a replica in the loop is at a migration    *)
(* that exists.                                                            *)
TypeOK ==
    /\ extension \in BOOLEAN
    /\ schema \subseteq Objects
    /\ versions \subseteq Versions
    /\ step \in [Replicas -> Steps]
    /\ target \in [Replicas -> 0 .. 4]
    /\ \A r \in Replicas : step[r] \in {"up", "updateVersion", "commit"} => target[r] \in Versions
    /\ found \in [Replicas -> {"unknown", "present", "absent"}]
    /\ inserted \in [Replicas -> Versions \cup {0}]
    /\ stops \in Nat

(* The largest recorded version says which migrations are missing: however *)
(* the replicas race and wherever they stop, no smaller version is left    *)
(* out (migrations.go:49-83, 101-109).                                     *)
NoGap == \A v \in versions : 1 .. v \subseteq versions

(* A recorded migration has been applied, although the record is written   *)
(* by another session than the migration, but for the indexes of the third *)
(* one, whose errors are swallowed (migrations.go:57-78, 183-188).         *)
RecordedIsApplied == \A v \in versions \ {FullText} : Creates[v] \in schema

(* A replica that serves has the whole schema, but for the trigram indexes *)
(* of the third migration, whether it has run the migrations, some of      *)
(* them, or none (bootstrap/storage.go:42-47).                             *)
ServesMigrated ==
    \A r \in Replicas : step[r] = "serving" =>
        versions = Versions /\ {"posts", "audit_logs"} \subseteq schema

(* Replicas that start together and make each other exit all serve in the  *)
(* end.                                                                    *)
EventuallyServing == \A r \in Replicas : <>[](step[r] = "serving")

=============================================================================
