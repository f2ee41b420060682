---------------------------- MODULE FileStorage ----------------------------
(***************************************************************************)
(* The JSON-file backend (internal/storage/file.go) as the request         *)
(* goroutines of one server process use it: every operation takes the      *)
(* RWMutex, reads the whole file, computes the new list and rewrites the   *)
(* file with os.WriteFile, which truncates it first and writes afterwards. *)
(* The process may die between any two of these steps, and every file      *)
(* operation may fail.                                                     *)
(***************************************************************************)
EXTENDS PostRecords

CONSTANTS
    Callers,    \* the request goroutines
    MaxCreates  \* bound: posts that Create and BatchCreate may ask for

Nobody == "nobody"

ASSUME FileStorageAssumption == MaxCreates \in Nat /\ Nobody \notin Callers

VARIABLES
    file,       \* the file: its state, and the list it holds when it is whole
    writer,     \* the goroutine holding fs.mu for writing, or Nobody
    readers,    \* the goroutines holding fs.mu for reading
    pc,         \* where each goroutine is in its call
    call,       \* the call each goroutine executes, or Idle
    answer,     \* what that call will return, or NoAnswer
    seen,       \* the list each goroutine read from the file (a local variable)
    asked       \* how many posts have been asked for, against MaxCreates

vars == <<file, writer, readers, pc, call, answer, seen, asked>>

Idle == [op |-> "Idle"]
NoAnswer == Answer("pending", {})

Whole(S) == [state |-> "whole", posts |-> S]
(* Nothing written after the truncation: readFromFile takes it for an      *)
(* empty list.                                                             *)
Empty == [state |-> "empty", posts |-> {}]
(* A prefix of the JSON text: readFromFile fails on it.                    *)
Partial == [state |-> "partial", posts |-> {}]

Files == {Empty, Partial} \cup [state : {"whole"}, posts : PostLists]

(* NewFileStorage: the file is created with an empty list.                 *)
Init ==
    /\ file = Whole({})
    /\ writer = Nobody
    /\ readers = {}
    /\ pc = [p \in Callers |-> "idle"]
    /\ call = [p \in Callers |-> Idle]
    /\ answer = [p \in Callers |-> NoAnswer]
    /\ seen = [p \in Callers |-> {}]
    /\ asked = 0

GoTo(p, label) == pc' = [pc EXCEPT ![p] = label]
AnswerWith(p, a) == answer' = [answer EXCEPT ![p] = a]
lock == <<writer, readers>>

AsksFor(req) ==
    CASE req.op = "Create" -> 1
      [] req.op = "BatchCreate" -> Len(req.batch)
      [] OTHER -> 0

Invoke(p) ==
    /\ pc[p] = "idle"
    /\ \E req \in Requests :
          /\ asked + AsksFor(req) <= MaxCreates
          /\ asked' = asked + AsksFor(req)
          /\ call' = [call EXCEPT ![p] = req]
    /\ GoTo(p, "called")
    /\ UNCHANGED <<file, lock, answer, seen>>

(* Create and Update return Validate's error without taking the lock.      *)
Reject(p) ==
    /\ pc[p] = "called"
    /\ ~Valid(call[p])
    /\ AnswerWith(p, Answer("invalid", {}))
    /\ GoTo(p, "done")
    /\ UNCHANGED <<file, lock, call, seen, asked>>

RLock(p) ==
    /\ pc[p] = "called"
    /\ call[p].op \notin WriteOps
    /\ writer = Nobody
    /\ readers' = readers \cup {p}
    /\ GoTo(p, "locked")
    /\ UNCHANGED <<file, writer, call, answer, seen, asked>>

(* Mutant of Lock: a writer does not wait for the other writers.           *)
LockBesideWriter(p) ==
    /\ pc[p] = "called"
    /\ Valid(call[p])
    /\ call[p].op \in WriteOps
    /\ readers = {}
    /\ writer' = p
    /\ GoTo(p, "locked")
    /\ UNCHANGED <<file, readers, call, answer, seen, asked>>

Lock(p) ==
    /\ pc[p] = "called"
    /\ Valid(call[p])
    /\ call[p].op \in WriteOps
    /\ writer = Nobody
    /\ readers = {}
    /\ writer' = p
    /\ GoTo(p, "locked")
    /\ UNCHANGED <<file, readers, call, answer, seen, asked>>

(* readFromFile and what follows it in memory: a read, and a write that    *)
(* does not find its post, are answered; another write goes on to the      *)
(* file.                                                                   *)
Read(p) ==
    /\ pc[p] = "locked"
    /\ file.state # "partial"
    /\ seen' = [seen EXCEPT ![p] = file.posts]
    /\ LET reply == Reply(call[p], file.posts)
       IN  \/ /\ call[p].op \in WriteOps
              /\ reply.status = "ok"
              /\ GoTo(p, "seen")
              /\ UNCHANGED answer
           \/ /\ call[p].op \notin WriteOps \/ reply.status # "ok"
              /\ AnswerWith(p, reply)
              /\ GoTo(p, "done")
    /\ UNCHANGED <<file, lock, call, asked>>

(* The file operation of the current step fails and leaves the file as it  *)
(* is: the read (always, on a partial file), or the open that truncates.   *)
FileError(p) ==
    /\ pc[p] \in {"locked", "seen"}
    /\ AnswerWith(p, Answer("error", {}))
    /\ GoTo(p, "done")
    /\ UNCHANGED <<file, lock, call, seen, asked>>

(* os.WriteFile, first half: the file is opened with O_TRUNC.              *)
Truncate(p) ==
    /\ pc[p] = "seen"
    /\ file' = Empty
    /\ GoTo(p, "truncated")
    /\ UNCHANGED <<lock, call, answer, seen, asked>>

(* Mutant of Write: a batch is written without the posts there were (an    *)
(* earlier version of BatchCreate did so: file.go:224-229).                *)
WriteBatchAlone(p) ==
    /\ pc[p] = "truncated"
    /\ LET after == After(call[p], seen[p])
       IN  file' = Whole(IF call[p].op = "BatchCreate" THEN after \ seen[p] ELSE after)
    /\ AnswerWith(p, Reply(call[p], seen[p]))
    /\ GoTo(p, "done")
    /\ UNCHANGED <<lock, call, seen, asked>>

(* os.WriteFile, second half.                                              *)
Write(p) ==
    /\ pc[p] = "truncated"
    /\ file' = Whole(After(call[p], seen[p]))
    /\ AnswerWith(p, Reply(call[p], seen[p]))
    /\ GoTo(p, "done")
    /\ UNCHANGED <<lock, call, seen, asked>>

WriteFails(p) ==
    /\ pc[p] = "truncated"
    /\ file' \in {Empty, Partial}
    /\ AnswerWith(p, Answer("error", {}))
    /\ GoTo(p, "done")
    /\ UNCHANGED <<lock, call, seen, asked>>

(* Mutant of Return: an error path that forgets to unlock.                 *)
ReturnLocked(p) ==
    /\ pc[p] = "done"
    /\ writer' = IF writer = p /\ answer[p].status = "ok" THEN Nobody ELSE writer
    /\ readers' = readers \ {p}
    /\ call' = [call EXCEPT ![p] = Idle]
    /\ answer' = [answer EXCEPT ![p] = NoAnswer]
    /\ seen' = [seen EXCEPT ![p] = {}]
    /\ GoTo(p, "idle")
    /\ UNCHANGED <<file, asked>>

(* The deferred unlock and the return.                                     *)
Return(p) ==
    /\ pc[p] = "done"
    /\ writer' = IF writer = p THEN Nobody ELSE writer
    /\ readers' = readers \ {p}
    /\ call' = [call EXCEPT ![p] = Idle]
    /\ answer' = [answer EXCEPT ![p] = NoAnswer]
    /\ seen' = [seen EXCEPT ![p] = {}]
    /\ GoTo(p, "idle")
    /\ UNCHANGED <<file, asked>>

(* The process dies and is started again.  The file keeps what has been    *)
(* written to it: after a truncation, nothing or a part of the text.       *)
(* NewFileStorage leaves a file that exists alone.                         *)
Crash ==
    /\ IF \E p \in Callers : pc[p] = "truncated"
       THEN file' \in {Empty, Partial}
       ELSE UNCHANGED file
    /\ writer' = Nobody
    /\ readers' = {}
    /\ pc' = [p \in Callers |-> "idle"]
    /\ call' = [p \in Callers |-> Idle]
    /\ answer' = [p \in Callers |-> NoAnswer]
    /\ seen' = [p \in Callers |-> {}]
    /\ UNCHANGED asked

Acquire(p) == RLock(p) \/ Lock(p)
Proceed(p) ==
    Reject(p) \/ Read(p) \/ FileError(p) \/ Truncate(p) \/ Write(p) \/ WriteFails(p) \/ Return(p)

Next == Crash \/ \E p \in Callers : Invoke(p) \/ Acquire(p) \/ Proceed(p)

(* A goroutine that holds the lock runs on.  A goroutine that waits for    *)
(* the lock gets it if it is free again and again: sync.RWMutex blocks new *)
(* readers behind a waiting writer and hands a starving writer the lock.   *)
Fairness == \A p \in Callers : WF_vars(Proceed(p)) /\ SF_vars(Acquire(p))

Spec == Init /\ [][Next]_vars
FairSpec == Spec /\ Fairness

-----------------------------------------------------------------------------
PCs == {"idle", "called", "locked", "seen", "truncated", "done"}

(* Every variable has its type.                                            *)
TypeOK ==
    /\ file \in Files
    /\ writer \in Callers \cup {Nobody}
    /\ readers \subseteq Callers
    /\ pc \in [Callers -> PCs]
    /\ call \in [Callers -> Requests \cup {Idle}]
    /\ answer \in [Callers -> Answers \cup {NoAnswer}]
    /\ seen \in [Callers -> PostLists]
    /\ asked \in 0 .. MaxCreates

(* No two posts of a list share an id, in the file and in every list a     *)
(* goroutine holds: ids are handed out as largest + 1 on a list that no    *)
(* other goroutine is extending (file.go:103-110).                         *)
Distinct(S) == \A r, s \in S : r.id = s.id => r = s
UniqueIds ==
    /\ Distinct(file.posts)
    /\ \A p \in Callers : Distinct(seen[p])

(* Between the read of a write operation and the rewrite of the file, the  *)
(* file still holds the list that was read, and nobody reads the file      *)
(* while it is truncated: the read-modify-write is not interleaved with    *)
(* any other operation.                                                    *)
NoInterleavedWrite ==
    \A p \in Callers :
        /\ pc[p] = "seen" => file.posts = seen[p]
        /\ pc[p] = "truncated" =>
              \A q \in Callers \ {p} : pc[q] \notin {"locked", "seen", "truncated"}

(* Every call returns, through whichever of the return paths: no path      *)
(* leaves the mutex locked.                                                *)
CallsReturn == \A p \in Callers : pc[p] = "called" ~> pc[p] = "idle"

(* The list as the callers see it: while the file is truncated, the list   *)
(* the writer holds in memory still counts, for its call is still open.    *)
Truncating == \E p \in Callers : pc[p] = "truncated"
ListInForce ==
    IF Truncating THEN seen[CHOOSE p \in Callers : pc[p] = "truncated"] ELSE file.posts

Store == INSTANCE PostStore
    WITH posts <- ListInForce, readable <- file.state # "partial"

(* Each operation is atomic and returns what the list was at one instant   *)
(* of the call; the list is lost only when a write is cut short.           *)
Implements == Store!Spec

=============================================================================
