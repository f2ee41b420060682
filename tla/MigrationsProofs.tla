-------------------------- MODULE MigrationsProofs --------------------------
(***************************************************************************)
(* The recorded versions have no gap, what is recorded is applied, and a   *)
(* replica that serves has the whole schema, for every number of replicas  *)
(* that start, conflict with one another and stop.                         *)
(***************************************************************************)
EXTENDS Migrations, TLAPS

USE MigrationsAssumption

InLoop(r) == step[r] \in {"up", "updateVersion", "commit"}

(* A replica in the loop has found every migration before its own recorded *)
(* (it read a larger version, or committed them itself), and has applied   *)
(* its own by the time it records it.                                      *)
LoopOK(r) ==
    /\ InLoop(r) => 1 .. target[r] - 1 \subseteq versions
    /\ step[r] \in {"updateVersion", "commit"} /\ target[r] # FullText =>
          Creates[target[r]] \in schema
    /\ step[r] = "commit" => inserted[r] = target[r]

(* What a statement has found stays there: nothing is dropped.             *)
FoundOK(r) == found[r] = "present" => step[r] \in Creating /\ ObjectOf(r) \in schema

IInv ==
    /\ TypeOK
    /\ NoGap
    /\ RecordedIsApplied
    /\ ServesMigrated
    /\ \A r \in Replicas : LoopOK(r) /\ FoundOK(r)

(* The three migrations.                                                   *)
LEMMA VersionsAre == Versions = {1, 2, 3} /\ 1 .. 0 = {} /\ 1 .. 1 = {1} /\ 1 .. 2 = {1, 2}
  BY DEF Versions

LEMMA CreatesAre ==
    Creates[1] = "posts" /\ Creates[2] = "audit_logs" /\ Creates[3] = "trigrams"
  BY DEF Creates

(* Without gaps, the largest recorded version tells what is recorded.      *)
LEMMA LargestTells ==
    ASSUME TypeOK, NoGap
    PROVE  LET m == Max(versions \cup {0})
           IN  m \in 0 .. 3 /\ versions = 1 .. m
<1> DEFINE m == Max(versions \cup {0})
<1>1. versions \cup {0} \in SUBSET Nat /\ \A x \in versions \cup {0} : x <= 3
  BY VersionsAre DEF TypeOK
<1>2. m \in versions \cup {0} /\ \A x \in versions \cup {0} : x <= m
  <2> DEFINE S == versions \cup {0}
  <2>1. S \subseteq {0, 1, 2, 3} /\ 0 \in S
    BY VersionsAre DEF TypeOK
  <2>2. \E x \in S : \A y \in S : x >= y
    BY <2>1
  <2>3. Max(S) \in S /\ \A y \in S : Max(S) >= y
    BY <2>2 DEF Max
  <2> QED
    BY <2>1, <2>3
<1> HIDE DEF m
<1>3. m \in 0 .. 3
  BY <1>1, <1>2
<1>4. versions \subseteq 1 .. m
  BY <1>2, <1>3, VersionsAre DEF TypeOK
<1>5. 1 .. m \subseteq versions
  <2>1. CASE m = 0
    BY <2>1
  <2>2. CASE m \in versions
    BY <2>2 DEF NoGap
  <2> QED
    BY <1>2, <2>1, <2>2
<1> QED
  BY <1>3, <1>4, <1>5 DEF m

LEMMA InitOK == Init => IInv
  BY VersionsAre DEF Init, IInv, TypeOK, NoGap, RecordedIsApplied, ServesMigrated, LoopOK,
     InLoop, FoundOK, Steps, Creating, Objects

(* A replica that leaves the start-up has nothing to show for it.          *)
LEMMA ExitOK ==
    ASSUME IInv, NEW r \in Replicas, Exit(r), UNCHANGED <<extension, database>>,
           stops' \in Nat
    PROVE  IInv'
  BY VersionsAre DEF IInv, Exit, database, TypeOK, NoGap, RecordedIsApplied, ServesMigrated,
     LoopOK, InLoop, FoundOK, ObjectOf, Steps, Creating

LEMMA RestartOK ==
    ASSUME IInv, NEW r \in Replicas, Restart(r)
    PROVE  IInv'
  BY DEF IInv, Restart, database, TypeOK, NoGap, RecordedIsApplied, ServesMigrated,
     LoopOK, InLoop, FoundOK, ObjectOf, Steps, Creating

LEMMA LookOK ==
    ASSUME IInv, NEW r \in Replicas, Look(r)
    PROVE  IInv'
  BY DEF IInv, Look, database, TypeOK, NoGap, RecordedIsApplied, ServesMigrated,
     LoopOK, InLoop, FoundOK, ObjectOf, Steps, Creating

(* What a CREATE statement creates is an object of the schema.             *)
LEMMA ObjectType ==
    ASSUME TypeOK, NEW r \in Replicas, step[r] \in Creating
    PROVE  ObjectOf(r) \in Objects
  BY VersionsAre, CreatesAre DEF TypeOK, ObjectOf, Creating, Objects

(* A statement that is over: for a migration but the last, its object is   *)
(* there.                                                                  *)
LEMMA CreatedOK ==
    ASSUME IInv, NEW r \in Replicas, step[r] \in Creating, Created(r),
           schema \subseteq schema', schema' \subseteq Objects,
           ObjectOf(r) \in schema' \/ AtIndexes(r)
    PROVE  IInv'
<1>1. Successor[step[r]] \in {"createMigrationsTable", "getCurrentVersion", "updateVersion"}
         /\ (Successor[step[r]] = "updateVersion" <=> step[r] = "up")
  BY DEF Successor, Creating
<1>2. TypeOK'
  BY <1>1 DEF IInv, TypeOK, Created, Steps, Creating
<1>3. NoGap' /\ RecordedIsApplied' /\ ServesMigrated'
  BY <1>1 DEF IInv, TypeOK, Created, NoGap, RecordedIsApplied, ServesMigrated
<1>4. ASSUME NEW q \in Replicas PROVE LoopOK(q)' /\ FoundOK(q)'
  <2>1. CASE q # r
    BY <2>1 DEF IInv, TypeOK, Created, LoopOK, InLoop, FoundOK, ObjectOf
  <2>2. CASE q = r
    BY <1>1, <2>2 DEF IInv, TypeOK, Created, LoopOK, InLoop, FoundOK, ObjectOf, AtIndexes,
       Creating
  <2> QED
    BY <2>1, <2>2
<1> QED
  BY <1>2, <1>3, <1>4 DEF IInv

LEMMA CreateOK ==
    ASSUME IInv, NEW r \in Replicas, Create(r)
    PROVE  IInv'
<1>1. ObjectOf(r) \in Objects /\ schema \subseteq Objects
  BY ObjectType DEF IInv, Create, TypeOK
<1>2. schema \subseteq schema' /\ schema' \subseteq Objects /\ ObjectOf(r) \in schema'
  BY <1>1 DEF IInv, Create, FoundOK
<1> QED
  BY <1>2, CreatedOK DEF Create

LEMMA SkipIndexesOK ==
    ASSUME IInv, NEW r \in Replicas, SkipIndexes(r)
    PROVE  IInv'
<1>1. step[r] \in Creating /\ schema' = schema /\ schema \subseteq Objects
  BY DEF SkipIndexes, AtIndexes, Creating, IInv, TypeOK
<1> QED
  BY <1>1, CreatedOK DEF SkipIndexes

(* With all migrations recorded, the schema is whole.                      *)
LEMMA AllRecorded ==
    ASSUME RecordedIsApplied, versions = Versions
    PROVE  {"posts", "audit_logs"} \subseteq schema
  BY VersionsAre, CreatesAre DEF RecordedIsApplied, FullText

(* A turn of the loop: r goes on with the first version not recorded.      *)
LEMMA LoopStepOK ==
    ASSUME IInv, NEW r \in Replicas, NEW m \in 0 .. 3, Loop(r, m + 1), found[r] # "present",
           1 .. m \subseteq versions', versions \subseteq versions',
           TypeOK', NoGap', RecordedIsApplied',
           UNCHANGED <<schema, found>>,
           \A q \in Replicas \ {r} : inserted'[q] = inserted[q]
    PROVE  IInv'
<1>1. ASSUME NEW q \in Replicas, q # r PROVE step'[q] = step[q] /\ target'[q] = target[q]
  BY <1>1 DEF Loop, IInv, TypeOK
<1>2. target'[r] = m + 1 /\ step'[r] = IF m = 3 THEN "serving" ELSE "up"
  BY VersionsAre DEF Loop, IInv, TypeOK
<1>3. ServesMigrated'
  <2> SUFFICES ASSUME NEW q \in Replicas, step'[q] = "serving"
               PROVE  versions' = Versions /\ {"posts", "audit_logs"} \subseteq schema'
    BY DEF ServesMigrated
  <2>1. versions' \subseteq Versions
    BY DEF TypeOK
  <2>2. versions' = Versions
    <3>1. CASE q # r
      BY <2>1, <3>1, <1>1 DEF IInv, ServesMigrated
    <3>2. CASE q = r
      BY <2>1, <3>2, <1>2 DEF Versions
    <3> QED
      BY <3>1, <3>2
  <2>3. \A v \in versions' \ {FullText} : Creates[v] \in schema'
    BY DEF RecordedIsApplied
  <2> QED
    BY <2>2, <2>3, VersionsAre, CreatesAre DEF FullText
<1>4. ASSUME NEW q \in Replicas PROVE LoopOK(q)' /\ FoundOK(q)'
  <2>1. CASE q # r
    BY <2>1, <1>1 DEF IInv, LoopOK, InLoop, FoundOK, ObjectOf
  <2>2. CASE q = r
    BY <2>2, <1>2 DEF IInv, LoopOK, InLoop, FoundOK, ObjectOf
  <2> QED
    BY <2>1, <2>2
<1> QED
  BY <1>3, <1>4 DEF IInv

LEMMA GetCurrentVersionOK ==
    ASSUME IInv, NEW r \in Replicas, GetCurrentVersion(r)
    PROVE  IInv'
<1> DEFINE m == Max(versions \cup {0})
<1>1. m \in 0 .. 3 /\ versions = 1 .. m
  BY LargestTells DEF IInv
<1>2. Loop(r, m + 1) /\ step[r] = "getCurrentVersion"
      /\ UNCHANGED <<extension, schema, versions, found, inserted, stops>>
  BY DEF GetCurrentVersion, database
<1> HIDE DEF m
<1>3. TypeOK'
  BY <1>1, <1>2, VersionsAre DEF IInv, TypeOK, Loop, Steps, Creating
<1>4. NoGap' /\ RecordedIsApplied'
  BY <1>2 DEF IInv, NoGap, RecordedIsApplied
<1>5. found[r] # "present"
  BY <1>2 DEF IInv, FoundOK, Creating
<1> QED
  BY <1>1, <1>2, <1>3, <1>4, <1>5, LoopStepOK

LEMMA UpdateVersionOK ==
    ASSUME IInv, NEW r \in Replicas, UpdateVersion(r)
    PROVE  IInv'
  BY VersionsAre DEF IInv, UpdateVersion, database, TypeOK, NoGap, RecordedIsApplied,
     ServesMigrated, LoopOK, InLoop, FoundOK, ObjectOf, Steps, Creating

LEMMA CommitOK ==
    ASSUME IInv, NEW r \in Replicas, Commit(r)
    PROVE  IInv'
<1> DEFINE v == target[r]
<1>1. v \in 1 .. 3 /\ inserted[r] = v /\ 1 .. v - 1 \subseteq versions
      /\ (v # FullText => Creates[v] \in schema)
  BY VersionsAre DEF IInv, TypeOK, Commit, LoopOK, InLoop
<1>2. /\ Loop(r, v + 1) /\ step[r] = "commit"
      /\ versions' = versions \cup {v}
      /\ inserted' = [inserted EXCEPT ![r] = 0]
      /\ UNCHANGED <<extension, schema, found, stops>>
  BY <1>1 DEF Commit
<1> HIDE DEF v
<1>3. TypeOK'
  BY <1>1, <1>2, VersionsAre DEF IInv, TypeOK, Loop, Steps, Creating
<1>4. 1 .. v \subseteq versions'
  BY <1>1, <1>2
<1>5. NoGap'
  BY <1>1, <1>2, <1>4 DEF IInv, NoGap
<1>6. RecordedIsApplied'
  BY <1>1, <1>2 DEF IInv, RecordedIsApplied
<1>7. found[r] # "present"
  BY <1>2 DEF IInv, FoundOK, Creating
<1>8. \A q \in Replicas \ {r} : inserted'[q] = inserted[q]
  BY <1>2 DEF IInv, TypeOK
<1> QED
  BY <1>1, <1>2, <1>3, <1>4, <1>5, <1>6, <1>7, <1>8, LoopStepOK

LEMMA NextOK == IInv /\ [Next]_vars => IInv'
<1> SUFFICES ASSUME IInv, [Next]_vars PROVE IInv'
  OBVIOUS
<1>1. CASE UNCHANGED vars
  BY <1>1 DEF vars, database, IInv, TypeOK, NoGap, RecordedIsApplied, ServesMigrated, LoopOK,
     InLoop, FoundOK, ObjectOf
<1>2. ASSUME NEW r \in Replicas, Stop(r) PROVE IInv'
  <2>1. stops' \in Nat
    BY <1>2 DEF Stop, IInv, TypeOK
  <2> QED
    BY <1>2, <2>1, ExitOK DEF Stop
<1>3. ASSUME NEW r \in Replicas, CreateConflicts(r) \/ VersionConflicts(r) PROVE IInv'
  <2>1. stops' \in Nat
    BY <1>3 DEF CreateConflicts, VersionConflicts, IInv, TypeOK
  <2> QED
    BY <1>3, <2>1, ExitOK DEF CreateConflicts, VersionConflicts
<1> QED
  BY <1>1, <1>2, <1>3, RestartOK, LookOK, CreateOK, SkipIndexesOK, GetCurrentVersionOK,
     UpdateVersionOK, CommitOK DEF Next, Start

LEMMA Invariance == Spec => []IInv
  BY InitOK, NextOK, PTL DEF Spec

(* Every variable of the start-up has its type.                            *)
THEOREM TypeCorrect == Spec => []TypeOK
<1>1. IInv => TypeOK
  BY DEF IInv
<1> QED
  BY Invariance, <1>1, PTL

(* The recorded versions have no gap, so that MAX(version) says which      *)
(* migrations are missing.                                                 *)
THEOREM VersionsHaveNoGap == Spec => []NoGap
<1>1. IInv => NoGap
  BY DEF IInv
<1> QED
  BY Invariance, <1>1, PTL

(* A recorded migration has been applied.                                  *)
THEOREM RecordsAreTrue == Spec => []RecordedIsApplied
<1>1. IInv => RecordedIsApplied
  BY DEF IInv
<1> QED
  BY Invariance, <1>1, PTL

(* A replica that serves has the whole schema.                             *)
THEOREM ServingIsMigrated == Spec => []ServesMigrated
<1>1. IInv => ServesMigrated
  BY DEF IInv
<1> QED
  BY Invariance, <1>1, PTL

=============================================================================
