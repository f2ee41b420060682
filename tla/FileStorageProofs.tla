------------------------- MODULE FileStorageProofs -------------------------
(***************************************************************************)
(* The file backend, for every number of goroutines, contents, batches and *)
(* creates: type correctness, the mutual exclusion of the read-modify-     *)
(* write, the uniqueness of ids, and that it implements PostStore.         *)
(***************************************************************************)
EXTENDS FileStorage, WellFoundedInduction, SequenceTheorems, TLAPS

(* A bounded, inhabited set of naturals has a maximum: the largest id of a *)
(* list exists.                                                            *)
LEMMA MaxOfBounded ==
    ASSUME NEW S \in SUBSET Nat, S # {}, NEW b \in Nat, \A x \in S : x <= b
    PROVE  Max(S) \in S /\ \A x \in S : x <= Max(S)
<1> DEFINE U == {n \in Nat : \A x \in S : x <= n}
<1>1. PICK m \in U : \A n \in U : ~(<<n, m>> \in OpToRel(<, Nat))
  <2>1. b \in U
    OBVIOUS
  <2> QED
    BY <2>1, NatLessThanWellFounded, WFMin
<1>2. \A n \in U : m <= n
  <2> SUFFICES ASSUME NEW n \in U, n < m PROVE FALSE
    OBVIOUS
  <2>1. <<n, m>> \in {p \in Nat \X Nat : p[1] < p[2]}
    OBVIOUS
  <2> QED
    BY <1>1, <2>1 DEF OpToRel
<1>3. m \in S
  <2> SUFFICES ASSUME m \notin S PROVE FALSE
    OBVIOUS
  <2>1. \A x \in S : x < m
    OBVIOUS
  <2>2. m - 1 \in Nat
    <3>1. PICK x \in S : x < m
      BY <2>1
    <3> QED
      BY <3>1
  <2>3. \A x \in S : x <= m - 1
    BY <2>1
  <2> QED
    BY <2>2, <2>3, <1>2
<1>4. \A x \in S : m >= x
  OBVIOUS
<1> QED
  BY <1>3, <1>4 DEF Max

(* There is a largest id: MaxOfBounded applies.                            *)
Bounded(S) == \E b \in Nat : \A r \in S : r.id <= b

Sound(S) == S \in PostLists /\ Bounded(S) /\ Distinct(S)

(* What holds of a goroutine at each step of its call.                     *)
CallOK(p) ==
    /\ pc[p] = "idle" <=> call[p] = Idle
    /\ pc[p] = "done" <=> answer[p] # NoAnswer
    /\ pc[p] \in {"locked", "seen", "truncated"} => Valid(call[p])
    /\ pc[p] \in {"seen", "truncated"} =>
          call[p].op \in WriteOps /\ Reply(call[p], seen[p]).status = "ok"

LockOK(p) ==
    /\ pc[p] = "locked" /\ call[p].op \notin WriteOps => p \in readers
    /\ pc[p] = "locked" /\ call[p].op \in WriteOps => writer = p
    /\ pc[p] \in {"seen", "truncated"} => writer = p

ListOK(p) ==
    /\ pc[p] = "seen" => file.posts = seen[p] /\ file.state # "partial"
    /\ pc[p] = "truncated" => file = Empty

IInv ==
    /\ TypeOK
    /\ Sound(file.posts)
    /\ writer # Nobody => readers = {}
    /\ \A p \in Callers : CallOK(p) /\ LockOK(p) /\ ListOK(p) /\ Sound(seen[p])

-----------------------------------------------------------------------------
(* The operators of PostRecords.                                           *)

(* Of the fields of a request.                                             *)
LEMMA RequestFields ==
    ASSUME NEW req \in Requests
    PROVE  /\ req.op \in {"GetAll", "Count", "GetByID", "Delete", "Create", "Update", "BatchCreate"}
           /\ Asks(req) => req.id \in Nat \ {0}
           /\ req.op \in {"Create", "Update"} => req.content \in Contents \cup {Malformed}
           /\ req.op = "BatchCreate" => req.batch \in Seq(Contents)
           /\ req # Idle
<1>0. AskedIds \subseteq Nat \ {0} /\ Batches \subseteq Seq(Contents)
  BY RecordsAssumption
<1>1. CASE req \in [op : {"GetAll", "Count"}]
  BY <1>1 DEF Asks, Idle
<1>2. CASE req \in [op : {"GetByID", "Delete"}, id : AskedIds]
  <2>1. req.op \in {"GetByID", "Delete"} /\ req.id \in Nat \ {0}
    BY <1>0, <1>2
  <2> QED
    BY <2>1 DEF Idle
<1>3. CASE req \in [op : {"Create"}, content : Contents \cup {Malformed}]
  BY <1>3 DEF Asks, Idle
<1>4. CASE req \in [op : {"Update"}, id : AskedIds, content : Contents \cup {Malformed}]
  <2>1. /\ req.op = "Update" /\ req.id \in Nat \ {0}
        /\ req.content \in Contents \cup {Malformed}
    BY <1>0, <1>4
  <2> QED
    BY <2>1 DEF Idle
<1>5. CASE req \in [op : {"BatchCreate"}, batch : Batches]
  <2>1. req.op = "BatchCreate" /\ req.batch \in Seq(Contents)
    BY <1>0, <1>5
  <2> QED
    BY <2>1 DEF Asks, Idle
<1> QED
  BY <1>1, <1>2, <1>3, <1>4, <1>5 DEF Requests

LEMMA LargestIdBound ==
    ASSUME NEW S \in PostLists, Bounded(S)
    PROVE  LargestId(S) \in Nat /\ \A r \in S : r.id <= LargestId(S)
<1> DEFINE U == IdsOf(S) \cup {0}
<1>1. U \in SUBSET Nat /\ U # {} /\ \A r \in S : r.id \in U
  BY DEF PostLists, Post, IdsOf
<1>2. PICK b \in Nat : \A x \in U : x <= b
  BY DEF Bounded, IdsOf
<1>3. Max(U) \in U /\ \A x \in U : x <= Max(U)
  <2> HIDE DEF U
  <2> QED
    BY <1>1, <1>2, MaxOfBounded
<1> QED
  BY <1>1, <1>3 DEF LargestId

(* A batch is added under fresh, consecutive ids.                          *)
LEMMA ExtendedSound ==
    ASSUME NEW S, Sound(S), NEW batch \in Seq(Contents)
    PROVE  Sound(Extended(S, batch))
<1> DEFINE n == Len(batch)
           m == LargestId(S)
           new == {[id |-> m + i, content |-> batch[i]] : i \in 1 .. n}
<1>1. n \in Nat /\ \A i \in 1 .. n : batch[i] \in Contents
  OBVIOUS
<1>2. m \in Nat /\ \A r \in S : r.id <= m
  BY LargestIdBound DEF Sound
<1>3. S \in SUBSET Post /\ Distinct(S)
  BY DEF Sound, PostLists
<1>4. Extended(S, batch) = S \cup new
  BY DEF Extended
<1> HIDE DEF n, m
<1>5. \A r \in new : r \in Post /\ r.id > m /\ r.id <= m + n
  BY <1>1, <1>2 DEF Post
<1>6. \A r, s \in new : r.id = s.id => r = s
  BY <1>1, <1>2
<1> HIDE DEF new
<1>7. S \cup new \in PostLists
  BY <1>3, <1>5 DEF PostLists
<1>8. Bounded(S \cup new)
  <2>1. m + n \in Nat /\ \A r \in S \cup new : r.id <= m + n
    BY <1>1, <1>2, <1>3, <1>5 DEF Post
  <2> QED
    BY <2>1 DEF Bounded
<1>9. Distinct(S \cup new)
  <2>1. \A r \in S : r.id \in Nat
    BY <1>3 DEF Post
  <2>2. \A r \in new : r.id \in Nat
    BY <1>5 DEF Post
  <2>3. \A r \in S, s \in new : r.id # s.id
    BY <1>2, <1>5, <2>1, <2>2
  <2> QED
    BY <1>3, <1>6, <2>3 DEF Distinct
<1> QED
  BY <1>4, <1>7, <1>8, <1>9 DEF Sound

LEMMA ReplacedSound ==
    ASSUME NEW S, Sound(S), NEW i, NEW c \in Contents
    PROVE  Sound(Replaced(S, i, c))
<1> DEFINE f(r) == IF r.id = i THEN [r EXCEPT !.content = c] ELSE r
<1>1. \A r \in Post : f(r) \in Post /\ f(r).id = r.id
  BY DEF Post
<1>2. S \in SUBSET Post
  BY DEF Sound, PostLists
<1>3. Replaced(S, i, c) = {f(r) : r \in S}
  BY DEF Replaced
<1> HIDE DEF f
<1> QED
  BY <1>1, <1>2, <1>3 DEF Sound, PostLists, Bounded, Distinct

LEMMA WithoutSound ==
    ASSUME NEW S, Sound(S), NEW i
    PROVE  Sound(Without(S, i))
  BY DEF Sound, Without, PostLists, Bounded, Distinct

LEMMA AfterSound ==
    ASSUME NEW S, Sound(S), NEW req \in Requests, Valid(req)
    PROVE  Sound(After(req, S))
<1>1. CASE req.op = "Create"
  <2>1. <<req.content>> \in Seq(Contents)
    BY <1>1, RequestFields DEF Valid
  <2> QED
    BY <1>1, <2>1, ExtendedSound DEF After
<1>2. CASE req.op = "BatchCreate"
  BY <1>2, RequestFields, ExtendedSound DEF After
<1>3. CASE req.op = "Update"
  BY <1>3, RequestFields, ReplacedSound DEF After, Valid
<1>4. CASE req.op = "Delete"
  BY <1>4, WithoutSound DEF After
<1>5. CASE req.op \in {"GetAll", "Count", "GetByID"}
  BY <1>5 DEF After
<1> QED
  BY <1>1, <1>2, <1>3, <1>4, <1>5, RequestFields

(* An answer of the store is a well-formed one, and says more than that    *)
(* the call is under way.                                                  *)
LEMMA ReplyType ==
    ASSUME NEW S, Sound(S), NEW req \in Requests, Valid(req)
    PROVE  Reply(req, S) \in Answers /\ Reply(req, S) # NoAnswer
<1>1. S \subseteq Post /\ After(req, S) \ S \subseteq Post
  BY AfterSound DEF Sound, PostLists
<1>2. ASSUME NEW status \in Statuses, NEW T \in SUBSET Post
      PROVE  Answer(status, T) \in Answers /\ Answer(status, T) # NoAnswer
  BY DEF Answer, NoAnswer, Answers, Statuses, PostLists
<1>3. \E status \in Statuses, T \in SUBSET Post : Reply(req, S) = Answer(status, T)
  <2>1. {r \in S : r.id = req.id} \in SUBSET Post /\ {} \in SUBSET Post /\ S \in SUBSET Post
    BY <1>1
  <2>2. "ok" \in Statuses /\ "notfound" \in Statuses
    BY DEF Statuses
  <2> HIDE DEF Statuses
  <2> QED
    BY <1>1, <2>1, <2>2 DEF Reply
<1> QED
  BY <1>2, <1>3

(* A call that is not answered "ok" changes nothing, and neither does a    *)
(* read.                                                                   *)
LEMMA AfterSame ==
    ASSUME NEW S \in PostLists, NEW req \in Requests,
           req.op \notin WriteOps \/ Reply(req, S).status # "ok"
    PROVE  After(req, S) = S
<1>1. CASE req.op \notin WriteOps
  BY <1>1 DEF WriteOps, After
<1>2. CASE Reply(req, S).status # "ok"
  <2>1. Asks(req) /\ req.id \notin IdsOf(S)
    BY <1>2 DEF Reply, Answer
  <2>2. \A r \in S : r.id # req.id
    BY <2>1 DEF IdsOf
  <2> QED
    BY <2>1, <2>2 DEF After, Asks, Replaced, Without
<1> QED
  BY <1>1, <1>2

-----------------------------------------------------------------------------
(* The invariant, action by action.                                        *)

LEMMA InitIInv == Init => IInv
<1> SUFFICES ASSUME Init PROVE IInv
  OBVIOUS
<1>1. Sound({})
  BY DEF Sound, PostLists, Bounded, Distinct
<1>2. TypeOK
  BY FileStorageAssumption
  DEF Init, TypeOK, Files, Whole, PostLists, PCs, NoAnswer
<1>3. ASSUME NEW p \in Callers PROVE CallOK(p) /\ LockOK(p) /\ ListOK(p) /\ Sound(seen[p])
  BY <1>1 DEF Init, CallOK, LockOK, ListOK
<1> QED
  BY <1>1, <1>2, <1>3 DEF Init, IInv, Whole

(* The parts of the invariant about p, given what the lock excludes.       *)
POK(p) == CallOK(p) /\ LockOK(p) /\ ListOK(p) /\ Sound(seen[p])

(* A goroutine that does not move keeps its part when the lock it holds    *)
(* stays with it and the file changes only under another's write lock.     *)
LEMMA OthersOK ==
    ASSUME IInv, NEW q \in Callers,
           pc'[q] = pc[q], call'[q] = call[q], answer'[q] = answer[q], seen'[q] = seen[q],
           writer = q => writer' = q,
           q \in readers => q \in readers',
           file' = file \/ writer # q
    PROVE  POK(q)'
<1>1. CallOK(q)' /\ Sound(seen[q])'
  BY DEF IInv, CallOK, Sound, Bounded, Distinct
<1>2. LockOK(q)'
  BY DEF IInv, LockOK
<1>3. ListOK(q)'
  BY DEF IInv, LockOK, ListOK
<1> QED
  BY <1>1, <1>2, <1>3 DEF POK

LEMMA StepsOfOne ==
    ASSUME IInv, NEW p \in Callers,
           \A q \in Callers \ {p} :
              /\ pc'[q] = pc[q] /\ call'[q] = call[q]
              /\ answer'[q] = answer[q] /\ seen'[q] = seen[q]
              /\ writer = q => writer' = q
              /\ q \in readers => q \in readers',
           file' = file \/ writer = p,
           TypeOK', POK(p)', Sound(file'.posts), writer' # Nobody => readers' = {}
    PROVE  IInv'
<1>1. \A q \in Callers \ {p} : file' = file \/ writer # q
  OBVIOUS
<1>2. \A q \in Callers \ {p} : POK(q)'
  BY <1>1, OthersOK
<1>3. Sound(file.posts)'
  BY DEF Sound, PostLists, Bounded, Distinct
<1> QED
  BY <1>2, <1>3 DEF IInv, POK

(* Steps that touch neither the file nor the lists.                        *)
LEMMA InvokeIInv ==
    ASSUME IInv, NEW p \in Callers, Invoke(p)
    PROVE  IInv'
<1> USE DEF IInv, TypeOK
<1>1. PICK req \in Requests :
          /\ asked + AsksFor(req) <= MaxCreates
          /\ asked' = asked + AsksFor(req)
          /\ call' = [call EXCEPT ![p] = req]
  BY DEF Invoke
<1>2. AsksFor(req) \in Nat
  BY RequestFields DEF AsksFor
<1>3. asked' \in 0 .. MaxCreates
  BY <1>1, <1>2, FileStorageAssumption
<1>4. TypeOK'
  BY <1>1, <1>3 DEF Invoke, GoTo, PCs, lock
<1>5. POK(p)'
  BY <1>1, RequestFields DEF Invoke, GoTo, POK, CallOK, LockOK, ListOK, lock
<1> QED
  BY <1>1, <1>4, <1>5, StepsOfOne DEF Invoke, GoTo, lock

LEMMA AcquireIInv ==
    ASSUME IInv, NEW p \in Callers, Acquire(p)
    PROVE  IInv'
<1> USE DEF IInv, TypeOK
<1>1. CASE RLock(p)
  <2>1. TypeOK'
    BY <1>1 DEF RLock, GoTo, PCs
  <2>2. Valid(call[p])
    BY <1>1 DEF RLock, Valid, WriteOps
  <2>3. POK(p)'
    BY <1>1, <2>2 DEF RLock, GoTo, POK, CallOK, LockOK, ListOK, Valid
  <2> QED
    BY <1>1, <2>1, <2>3, StepsOfOne DEF RLock, GoTo
<1>2. CASE Lock(p)
  <2>1. TypeOK'
    BY <1>2 DEF Lock, GoTo, PCs
  <2>2. POK(p)'
    BY <1>2 DEF Lock, GoTo, POK, CallOK, LockOK, ListOK, Valid
  <2>3. \A q \in Callers : writer # q
    BY <1>2, FileStorageAssumption DEF Lock
  <2> QED
    BY <1>2, <2>1, <2>2, <2>3, StepsOfOne DEF Lock, GoTo
<1> QED
  BY <1>1, <1>2 DEF Acquire

LEMMA AnswerTypes ==
    \A status \in Statuses : Answer(status, {}) \in Answers /\ Answer(status, {}) # NoAnswer
  BY DEF Answer, Answers, NoAnswer, Statuses, PostLists

(* A call that ends with a. *)
LEMMA FinishedOK ==
    ASSUME IInv, NEW p \in Callers, NEW a \in Answers, a # NoAnswer, AnswerWith(p, a),
           GoTo(p, "done"), pc[p] # "idle", UNCHANGED call, Sound(seen'[p])
    PROVE  /\ POK(p)'
           /\ pc' \in [Callers -> PCs]
           /\ answer' \in [Callers -> Answers \cup {NoAnswer}]
<1> USE DEF IInv, TypeOK
<1>1. pc'[p] = "done" /\ answer'[p] = a /\ call[p] # Idle
  BY DEF GoTo, AnswerWith, CallOK
<1>2. Sound(seen[p])'
  BY DEF Sound, PostLists, Bounded, Distinct
<1>3. POK(p)'
  BY <1>1, <1>2 DEF POK, CallOK, LockOK, ListOK
<1> QED
  BY <1>3 DEF GoTo, AnswerWith, PCs

LEMMA RejectIInv ==
    ASSUME IInv, NEW p \in Callers, Reject(p) \/ FileError(p)
    PROVE  IInv'
<1> USE DEF IInv, TypeOK
<1>1. PICK status \in Statuses : AnswerWith(p, Answer(status, {}))
  BY DEF Reject, FileError, Statuses
<1>2. GoTo(p, "done") /\ pc[p] # "idle" /\ UNCHANGED <<file, lock, call, seen, asked>>
  BY DEF Reject, FileError
<1>3. /\ POK(p)'
      /\ pc' \in [Callers -> PCs]
      /\ answer' \in [Callers -> Answers \cup {NoAnswer}]
  BY <1>1, <1>2, AnswerTypes, FinishedOK
<1>4. TypeOK'
  BY <1>2, <1>3 DEF lock
<1> QED
  BY <1>1, <1>2, <1>3, <1>4, StepsOfOne DEF lock, GoTo, AnswerWith

(* The request of a goroutine that is not idle.                            *)
LEMMA OpenCall ==
    ASSUME IInv, NEW p \in Callers, pc[p] # "idle"
    PROVE  call[p] \in Requests
  BY DEF IInv, TypeOK, CallOK

LEMMA ReadIInv ==
    ASSUME IInv, NEW p \in Callers, Read(p)
    PROVE  IInv'
<1> USE DEF IInv, TypeOK
<1> DEFINE reply == Reply(call[p], file.posts)
<1>1. /\ pc[p] = "locked" /\ file.state # "partial"
      /\ seen' = [seen EXCEPT ![p] = file.posts]
      /\ UNCHANGED <<file, lock, call, asked>>
  BY DEF Read
<1>2. call[p] \in Requests /\ Valid(call[p])
  BY <1>1, OpenCall DEF CallOK
<1>3. seen' \in [Callers -> PostLists] /\ seen'[p] = file.posts /\ Sound(seen'[p])
  BY <1>1 DEF Sound
<1>4. CASE /\ call[p].op \in WriteOps /\ reply.status = "ok"
           /\ GoTo(p, "seen") /\ UNCHANGED answer
  <2>1. TypeOK'
    BY <1>1, <1>3, <1>4 DEF GoTo, PCs, lock
  <2>2. pc'[p] = "seen" /\ writer = p
    BY <1>1, <1>4 DEF GoTo, LockOK
  <2>3. CallOK(p)'
    BY <1>1, <1>2, <1>3, <1>4, <2>2 DEF CallOK
  <2>4. LockOK(p)' /\ ListOK(p)'
    BY <1>1, <1>3, <2>2 DEF LockOK, ListOK, lock
  <2>5. Sound(seen[p])'
    BY <1>3 DEF Sound, PostLists, Bounded, Distinct
  <2> QED
    BY <1>1, <1>4, <2>1, <2>3, <2>4, <2>5, StepsOfOne DEF lock, GoTo, POK
<1>5. CASE AnswerWith(p, reply) /\ GoTo(p, "done")
  <2>1. reply \in Answers /\ reply # NoAnswer
    BY <1>2, ReplyType
  <2>2. /\ POK(p)'
        /\ pc' \in [Callers -> PCs]
        /\ answer' \in [Callers -> Answers \cup {NoAnswer}]
    BY <1>1, <1>3, <1>5, <2>1, FinishedOK
  <2>3. TypeOK'
    BY <1>1, <1>3, <2>2 DEF lock
  <2> QED
    BY <1>1, <1>5, <2>2, <2>3, StepsOfOne DEF lock, GoTo, AnswerWith
<1> QED
  BY <1>4, <1>5 DEF Read

LEMMA TruncateIInv ==
    ASSUME IInv, NEW p \in Callers, Truncate(p)
    PROVE  IInv'
<1> USE DEF IInv, TypeOK
<1>1. writer = p /\ Sound(Empty.posts)
  BY DEF Truncate, LockOK, Sound, PostLists, Bounded, Distinct, Empty
<1>2. TypeOK'
  BY DEF Truncate, GoTo, PCs, Files, lock
<1>3. POK(p)'
  <2>1. CallOK(p)'
    BY DEF Truncate, GoTo, CallOK
  <2>2. LockOK(p)' /\ ListOK(p)'
    BY <1>1 DEF Truncate, GoTo, LockOK, ListOK, lock
  <2>3. Sound(seen[p])'
    BY DEF Truncate, Sound, PostLists, Bounded, Distinct
  <2> QED
    BY <2>1, <2>2, <2>3 DEF POK
<1> QED
  BY <1>1, <1>2, <1>3, StepsOfOne DEF Truncate, GoTo, lock

LEMMA WriteIInv ==
    ASSUME IInv, NEW p \in Callers, Write(p) \/ WriteFails(p)
    PROVE  IInv'
<1> USE DEF IInv, TypeOK
<1>1. /\ pc[p] = "truncated" /\ writer = p /\ GoTo(p, "done")
      /\ UNCHANGED <<lock, call, seen, asked>>
  BY DEF Write, WriteFails, LockOK
<1>2. call[p] \in Requests /\ Valid(call[p])
  BY <1>1, OpenCall DEF CallOK
<1>3. Sound(After(call[p], seen[p])) /\ Sound({})
  BY <1>2, AfterSound DEF Sound, PostLists, Bounded, Distinct
<1>4. file' \in Files /\ Sound(file'.posts)
  BY <1>3 DEF Write, WriteFails, Files, Whole, Empty, Partial, Sound
<1>5. PICK a \in Answers : a # NoAnswer /\ AnswerWith(p, a)
  <2>1. CASE Write(p)
    BY <1>2, <2>1, ReplyType DEF Write
  <2>2. CASE WriteFails(p)
    BY <2>2, AnswerTypes DEF WriteFails, Statuses
  <2> QED
    BY <2>1, <2>2
<1>6. /\ POK(p)'
      /\ pc' \in [Callers -> PCs]
      /\ answer' \in [Callers -> Answers \cup {NoAnswer}]
  BY <1>1, <1>5, FinishedOK
<1>7. TypeOK'
  BY <1>1, <1>4, <1>6 DEF lock
<1> QED
  BY <1>1, <1>4, <1>5, <1>6, <1>7, StepsOfOne DEF lock, GoTo, AnswerWith

LEMMA ReturnIInv ==
    ASSUME IInv, NEW p \in Callers, Return(p)
    PROVE  IInv'
<1> USE DEF IInv, TypeOK
<1>1. Sound({}) /\ {} \in PostLists
  BY DEF Sound, PostLists, Bounded, Distinct
<1>2. TypeOK'
  BY <1>1 DEF Return, GoTo, PCs
<1>3. seen'[p] = {} /\ pc'[p] = "idle" /\ call'[p] = Idle /\ answer'[p] = NoAnswer
  BY DEF Return, GoTo
<1>4. POK(p)'
  <2>1. Sound(seen[p])'
    BY <1>1, <1>3 DEF Sound, PostLists, Bounded, Distinct
  <2> QED
    BY <1>3, <2>1 DEF POK, CallOK, LockOK, ListOK
<1>5. \A q \in Callers \ {p} :
         /\ pc'[q] = pc[q] /\ call'[q] = call[q]
         /\ answer'[q] = answer[q] /\ seen'[q] = seen[q]
         /\ writer = q => writer' = q
         /\ q \in readers => q \in readers'
  BY DEF Return, GoTo
<1>6. writer' # Nobody => readers' = {}
  BY DEF Return
<1>7. UNCHANGED file
  BY DEF Return
<1> QED
  BY <1>2, <1>4, <1>5, <1>6, <1>7, StepsOfOne

LEMMA CrashIInv ==
    ASSUME IInv, Crash
    PROVE  IInv'
<1> USE DEF IInv, TypeOK
<1>1. Sound({}) /\ {} \in PostLists
  BY DEF Sound, PostLists, Bounded, Distinct
<1>2. file' \in {file, Empty, Partial}
  BY DEF Crash
<1>3. file' \in Files /\ Sound(file'.posts)
  BY <1>1, <1>2 DEF Files, Empty, Partial
<1>4. TypeOK'
  BY <1>1, <1>3 DEF Crash, PCs
<1>5. Sound(file.posts)' /\ \A p \in Callers : Sound(seen[p])'
  BY <1>1, <1>3 DEF Crash, Sound, PostLists, Bounded, Distinct
<1>6. \A p \in Callers : CallOK(p)' /\ LockOK(p)' /\ ListOK(p)'
  BY DEF Crash, CallOK, LockOK, ListOK
<1> QED
  BY <1>4, <1>5, <1>6 DEF Crash

LEMMA NextIInv == IInv /\ [Next]_vars => IInv'
<1> SUFFICES ASSUME IInv, [Next]_vars PROVE IInv'
  OBVIOUS
<1>1. ASSUME NEW p \in Callers, Invoke(p) \/ Acquire(p) \/ Proceed(p) PROVE IInv'
  BY <1>1, InvokeIInv, AcquireIInv, RejectIInv, ReadIInv, TruncateIInv, WriteIInv, ReturnIInv
  DEF Proceed
<1>2. CASE UNCHANGED vars
  BY <1>2 DEF vars, IInv, TypeOK, Sound, Bounded, Distinct, CallOK, LockOK, ListOK
<1> QED
  BY <1>1, <1>2, CrashIInv DEF Next

(* The file store never leaves its types: ids are naturals above 0, and    *)
(* the list of every goroutine is a list of posts.                         *)
THEOREM TypeCorrect == Spec => []TypeOK
<1>1. IInv => TypeOK
  BY DEF IInv
<1> QED
  BY <1>1, InitIInv, NextIInv, PTL DEF Spec

(* largest + 1 on a list that no other goroutine is extending never hands  *)
(* out an id twice (file.go:103-110, 244-251).                             *)
THEOREM IdsAreUnique == Spec => []UniqueIds
<1>1. IInv => UniqueIds
  BY DEF IInv, Sound, UniqueIds
<1> QED
  BY <1>1, InitIInv, NextIInv, PTL DEF Spec

(* The mutex keeps every read-modify-write of the file apart from all      *)
(* other operations (file.go:89-117).                                      *)
THEOREM WritesAreIsolated == Spec => []NoInterleavedWrite
<1>1. IInv => NoInterleavedWrite
  <2> SUFFICES ASSUME IInv, NEW p \in Callers
               PROVE  /\ pc[p] = "seen" => file.posts = seen[p]
                      /\ pc[p] = "truncated" =>
                            \A q \in Callers \ {p} : pc[q] \notin {"locked", "seen", "truncated"}
    BY DEF NoInterleavedWrite
  <2>1. pc[p] = "seen" => file.posts = seen[p]
    BY DEF IInv, ListOK
  <2>2. ASSUME pc[p] = "truncated", NEW q \in Callers \ {p}
        PROVE  pc[q] \notin {"locked", "seen", "truncated"}
    BY <2>2, FileStorageAssumption DEF IInv, LockOK
  <2> QED
    BY <2>1, <2>2
<1> QED
  BY <1>1, InitIInv, NextIInv, PTL DEF Spec

-----------------------------------------------------------------------------
(* Refinement of PostStore.  The operators that PostStore takes from       *)
(* PostRecords are those of this module.                                   *)
LEMMA SameRecords ==
    /\ Store!Idle = Idle /\ Store!NoAnswer = NoAnswer
    /\ Store!Requests = Requests /\ Store!WriteOps = WriteOps
    /\ \A req : Store!Valid(req) <=> Valid(req)
    /\ \A req, S : Store!After(req, S) = After(req, S) /\ Store!Reply(req, S) = Reply(req, S)
    /\ \A status, S : Store!Answer(status, S) = Answer(status, S)
<1>1. \A status, S : Store!Answer(status, S) = Answer(status, S)
  BY DEF Store!Answer, Answer
<1>2. \A S : Store!IdsOf(S) = IdsOf(S)
  BY DEF Store!IdsOf, IdsOf
<1>3. \A S : Store!LargestId(S) = LargestId(S)
  BY <1>2 DEF Store!LargestId, LargestId, Store!Max, Max
<1>4. \A S, batch : Store!Extended(S, batch) = Extended(S, batch)
  BY <1>3 DEF Store!Extended, Extended
<1>5. \A req, S : Store!After(req, S) = After(req, S)
  BY <1>4 DEF Store!After, After, Store!Replaced, Replaced, Store!Without, Without
<1>6. \A req, S : Store!Reply(req, S) = Reply(req, S)
  BY <1>1, <1>2, <1>5 DEF Store!Reply, Reply, Store!Asks, Asks
<1>7. Store!Idle = Idle /\ Store!NoAnswer = NoAnswer
  BY <1>1 DEF Store!Idle, Idle, Store!NoAnswer, NoAnswer
<1>8. Store!Requests = Requests /\ Store!WriteOps = WriteOps
  BY DEF Store!Requests, Requests, Store!WriteOps, WriteOps
<1>9. \A req : Store!Valid(req) <=> Valid(req)
  BY DEF Store!Valid, Valid
<1> QED
  BY <1>1, <1>5, <1>6, <1>7, <1>8, <1>9

(* At most one goroutine has truncated the file, and then its own list is  *)
(* the one in force.                                                       *)
LEMMA InForce ==
    ASSUME IInv
    PROVE  /\ \A p \in Callers : pc[p] = "truncated" => ListInForce = seen[p]
           /\ (\A p \in Callers : pc[p] # "truncated") => ListInForce = file.posts
<1>1. ASSUME NEW p \in Callers, pc[p] = "truncated" PROVE ListInForce = seen[p]
  <2>1. \A q \in Callers : pc[q] = "truncated" <=> q = p
    BY <1>1 DEF IInv, LockOK
  <2>2. (CHOOSE q \in Callers : pc[q] = "truncated") = p
    BY <1>1, <2>1
  <2> QED
    BY <1>1, <2>2 DEF ListInForce, Truncating
<1> QED
  BY <1>1 DEF ListInForce, Truncating

(* A step that leaves the file, and the set of truncating goroutines and   *)
(* their lists, leaves the list in force.                                  *)
LEMMA SameList ==
    ASSUME IInv, IInv', UNCHANGED file,
           \A p \in Callers : (pc'[p] = "truncated") <=> (pc[p] = "truncated"),
           \A p \in Callers : pc[p] = "truncated" => seen'[p] = seen[p]
    PROVE  UNCHANGED <<ListInForce, file.state # "partial">>
<1>1. CASE \A p \in Callers : pc[p] # "truncated"
  BY <1>1 DEF ListInForce, Truncating
<1>2. CASE \E p \in Callers : pc[p] = "truncated"
  <2>1. PICK p \in Callers : pc[p] = "truncated"
    BY <1>2
  <2>2. ListInForce = seen[p]
    BY <2>1, InForce
  <2>3. \A q \in Callers : pc'[q] = "truncated" <=> q = p
    BY <2>1 DEF IInv, LockOK
  <2>4. ListInForce' = seen'[p]
    BY <2>1, <2>3 DEF ListInForce, Truncating
  <2> QED
    BY <2>1, <2>2, <2>4
<1> QED
  BY <1>1, <1>2

LEMMA InvokeStep ==
    ASSUME IInv, IInv', NEW p \in Callers, Invoke(p)
    PROVE  Store!Invoke(p)
<1>1. UNCHANGED <<ListInForce, file.state # "partial">>
  BY SameList DEF Invoke, GoTo, IInv, TypeOK
<1>2. call[p] = Idle
  BY DEF Invoke, IInv, CallOK
<1>3. UNCHANGED answer /\ \E req \in Requests : call' = [call EXCEPT ![p] = req]
  BY DEF Invoke
<1> QED
  BY <1>1, <1>2, <1>3, SameRecords DEF Store!Invoke

LEMMA AcquireStep ==
    ASSUME IInv, IInv', NEW p \in Callers, Acquire(p)
    PROVE  UNCHANGED Store!vars
<1>1. UNCHANGED <<ListInForce, file.state # "partial">>
  BY SameList DEF Acquire, Lock, RLock, GoTo, IInv, TypeOK
<1>2. UNCHANGED <<call, answer>>
  BY DEF Acquire, Lock, RLock
<1> QED
  BY <1>1, <1>2 DEF Store!vars

(* A call that is under way is open in PostStore.                          *)
LEMMA OpenStep ==
    ASSUME IInv, NEW p \in Callers, pc[p] \notin {"idle", "done"}
    PROVE  Store!Open(p)
  BY SameRecords DEF IInv, CallOK, Store!Open

LEMMA RejectStep ==
    ASSUME IInv, IInv', NEW p \in Callers, Reject(p) \/ FileError(p)
    PROVE  Store!Reject(p) \/ Store!Fail(p)
<1>1. UNCHANGED <<ListInForce, file.state # "partial">>
  BY SameList DEF Reject, FileError, GoTo, IInv, TypeOK
<1>2. Store!Open(p)
  BY OpenStep DEF Reject, FileError
<1> QED
  BY <1>1, <1>2, SameRecords DEF Reject, FileError, AnswerWith, Store!Reject, Store!Fail

LEMMA ReadStep ==
    ASSUME IInv, IInv', NEW p \in Callers, Read(p)
    PROVE  Store!Commit(p) \/ UNCHANGED Store!vars
<1> DEFINE reply == Reply(call[p], file.posts)
<1>1. UNCHANGED <<ListInForce, file.state # "partial">>
  BY SameList DEF Read, GoTo, IInv, TypeOK
<1>2. CASE UNCHANGED answer
  BY <1>1, <1>2 DEF Read, Store!vars
<1>3. CASE (call[p].op \notin WriteOps \/ reply.status # "ok") /\ AnswerWith(p, reply)
  <2>1. pc[p] = "locked" /\ file.state # "partial" /\ UNCHANGED call
    BY DEF Read
  <2>2. Store!Open(p) /\ Valid(call[p]) /\ call[p] \in Requests
    BY <2>1, OpenStep, OpenCall DEF IInv, CallOK
  <2>3. ListInForce = file.posts
    <3>1. \A q \in Callers : pc[q] # "truncated"
      BY <2>1, FileStorageAssumption DEF IInv, LockOK
    <3> QED
      BY <3>1, InForce
  <2>4. After(call[p], file.posts) = file.posts
    BY <1>3, <2>2, AfterSame DEF IInv, Sound
  <2> QED
    BY <1>1, <1>3, <2>1, <2>2, <2>3, <2>4, SameRecords DEF AnswerWith, Store!Commit
<1> QED
  BY <1>2, <1>3 DEF Read

(* The truncation is not seen: the list in memory takes over.              *)
LEMMA TruncateStep ==
    ASSUME IInv, IInv', NEW p \in Callers, Truncate(p)
    PROVE  UNCHANGED Store!vars
<1>1. /\ pc[p] = "seen" /\ pc'[p] = "truncated" /\ file' = Empty
      /\ UNCHANGED <<call, answer, seen>>
  BY DEF Truncate, GoTo, IInv, TypeOK
<1>2. \A q \in Callers : pc[q] # "truncated"
  BY <1>1 DEF IInv, LockOK
<1>3. ListInForce = file.posts /\ file.posts = seen[p] /\ file.state # "partial"
  BY <1>1, <1>2, InForce DEF IInv, ListOK
<1>4. \A q \in Callers : pc'[q] = "truncated" <=> q = p
  BY <1>1, <1>2 DEF Truncate, GoTo, IInv, TypeOK
<1>5. (CHOOSE q \in Callers : pc'[q] = "truncated") = p
  BY <1>4
<1>6. ListInForce' = seen[p]
  BY <1>1, <1>5 DEF ListInForce, Truncating
<1>7. file'.state # "partial"
  BY <1>1 DEF Empty
<1> QED
  BY <1>1, <1>3, <1>6, <1>7 DEF Store!vars

LEMMA WriteStep ==
    ASSUME IInv, IInv', NEW p \in Callers, Write(p) \/ WriteFails(p)
    PROVE  Store!Commit(p) \/ Store!Tear(p)
<1>1. pc[p] = "truncated" /\ GoTo(p, "done") /\ UNCHANGED call
  BY DEF Write, WriteFails
<1>2. Store!Open(p) /\ Valid(call[p]) /\ call[p].op \in WriteOps /\ file.state # "partial"
  BY <1>1, OpenStep DEF IInv, CallOK, ListOK, Empty
<1>3. ListInForce = seen[p]
  BY <1>1, InForce
<1>4. ListInForce' = file'.posts
  <2>1. \A q \in Callers : pc'[q] # "truncated"
    BY <1>1 DEF GoTo, IInv, TypeOK, LockOK
  <2> QED
    BY <2>1 DEF ListInForce, Truncating
<1>5. CASE Write(p)
  <2>1. /\ file'.posts = After(call[p], seen[p]) /\ file'.state # "partial"
        /\ AnswerWith(p, Reply(call[p], seen[p]))
    BY <1>5 DEF Write, Whole
  <2> QED
    BY <1>1, <1>2, <1>3, <1>4, <2>1, SameRecords DEF AnswerWith, Store!Commit
<1>6. CASE WriteFails(p)
  <2>1. file'.posts = {} /\ AnswerWith(p, Answer("error", {}))
    BY <1>6 DEF WriteFails, Empty, Partial
  <2> QED
    BY <1>1, <1>2, <1>4, <2>1, SameRecords DEF AnswerWith, Store!Tear, Store!Torn
<1> QED
  BY <1>5, <1>6

LEMMA ReturnStep ==
    ASSUME IInv, IInv', NEW p \in Callers, Return(p)
    PROVE  Store!Return(p)
<1>1. UNCHANGED <<ListInForce, file.state # "partial">>
  BY SameList DEF Return, GoTo, IInv, TypeOK
<1>2. answer[p] # NoAnswer
  BY DEF Return, IInv, CallOK
<1> QED
  BY <1>1, <1>2, SameRecords DEF Return, Store!Return

LEMMA CrashStep ==
    ASSUME IInv, IInv', Crash
    PROVE  Store!Crash
<1>1. ListInForce' = file'.posts
  BY DEF Crash, ListInForce, Truncating
<1>2. call' = [p \in Callers |-> Store!Idle] /\ answer' = [p \in Callers |-> Store!NoAnswer]
  BY SameRecords DEF Crash
<1>3. CASE \E p \in Callers : pc[p] = "truncated"
  <2>1. PICK p \in Callers : pc[p] = "truncated"
    BY <1>3
  <2>2. Store!Open(p) /\ call[p].op \in WriteOps /\ file.state # "partial"
    BY <2>1, OpenStep DEF IInv, CallOK, ListOK, Empty
  <2>3. file'.posts = {}
    BY <2>1 DEF Crash, Empty, Partial
  <2>4. Store!Torn(p)
    BY <1>1, <2>2, <2>3, SameRecords DEF Store!Torn
  <2> QED
    BY <1>2, <2>4 DEF Store!Crash
<1>4. CASE \A p \in Callers : pc[p] # "truncated"
  <2>1. UNCHANGED file /\ ListInForce = file.posts
    BY <1>4, InForce DEF Crash
  <2> QED
    BY <1>1, <1>2, <2>1 DEF Store!Crash
<1> QED
  BY <1>3, <1>4

(* Every call on the file backend takes effect at one instant, on the      *)
(* whole list, and its answer is that of this instant; a list is lost only *)
(* by a write cut short (file.go:84-117, 300-307).                         *)
THEOREM Refinement == Spec => Implements
<1>1. Init => Store!Init
  <2> SUFFICES ASSUME Init PROVE Store!Init
    OBVIOUS
  <2>1. ListInForce = {} /\ file.state # "partial"
    BY DEF Init, ListInForce, Truncating, Whole
  <2> QED
    BY <2>1, SameRecords DEF Init, Store!Init
<1>2. IInv /\ IInv' /\ [Next]_vars => [Store!Next]_(Store!vars)
  <2> SUFFICES ASSUME IInv, IInv', [Next]_vars PROVE Store!Next \/ UNCHANGED Store!vars
    OBVIOUS
  <2>1. ASSUME NEW p \in Callers, Invoke(p) \/ Acquire(p) \/ Proceed(p)
        PROVE  Store!Next \/ UNCHANGED Store!vars
    BY <2>1, InvokeStep, AcquireStep, RejectStep, ReadStep, TruncateStep, WriteStep, ReturnStep
    DEF Proceed, Store!Next
  <2>2. CASE Crash
    BY <2>2, CrashStep DEF Store!Next
  <2>3. CASE UNCHANGED vars
    BY <2>3 DEF vars, Store!vars, ListInForce, Truncating
  <2> QED
    BY <2>1, <2>2, <2>3 DEF Next
<1> QED
  BY <1>1, <1>2, InitIInv, NextIInv, PTL DEF Spec, Implements, Store!Spec

=============================================================================
