------------------------------ MODULE JobQueue ------------------------------
(***************************************************************************)
(* What the work queues of the system promise: a job that the broker has   *)
(* stored is kept until a handler has been through it, and may be handled  *)
(* more than once before that.  A job may be lost only on its way in.      *)
(* Reanalysis and Notifications implement this specification.              *)
(***************************************************************************)
EXTENDS Integers

CONSTANT Jobs

VARIABLES
    status,   \* what has become of each job
    runs      \* how often each has been handled to its end

vars == <<status, runs>>

Init ==
    /\ status = [j \in Jobs |-> "new"]
    /\ runs = [j \in Jobs |-> 0]

(* A producer hands the job over; the broker stores it or never sees it.   *)
Enqueue(j) ==
    /\ status[j] = "new"
    /\ \E s \in {"queued", "lost"} : status' = [status EXCEPT ![j] = s]
    /\ UNCHANGED runs

Handle(j) ==
    /\ status[j] = "queued"
    /\ runs' = [runs EXCEPT ![j] = @ + 1]
    /\ UNCHANGED status

(* A handler whose connection is gone may come to its end after another    *)
(* one has finished the job.                                               *)
HandleLate(j) ==
    /\ status[j] = "done"
    /\ runs' = [runs EXCEPT ![j] = @ + 1]
    /\ UNCHANGED status

Finish(j) ==
    /\ status[j] = "queued"
    /\ runs[j] > 0
    /\ status' = [status EXCEPT ![j] = "done"]
    /\ UNCHANGED runs

Next == \E j \in Jobs : Enqueue(j) \/ Handle(j) \/ HandleLate(j) \/ Finish(j)

Spec == Init /\ [][Next]_vars

=============================================================================
