----------------------------- MODULE Reanalysis -----------------------------
(***************************************************************************)
(* On-demand reanalysis over RabbitMQ.  The gateway publishes a job on the *)
(* channel it opened when it started and answers 202; the processes of     *)
(* reanalysis-worker consume the queue, call postsvc, and ack, or nack     *)
(* with requeue.  RabbitMQ is external: a queue whose deliveries belong to *)
(* a channel until they are acked, and return when the channel is lost.    *)
(* The order in which it hands out jobs is left open.                      *)
(***************************************************************************)
EXTENDS Integers

CONSTANTS
    Jobs,        \* the requests for a reanalysis
    Workers,     \* the processes of reanalysis-worker
    Faults,      \* which faults happen: "publish", "worker", "postsvc"
    MaxFaults,   \* bound: faults of a channel or a worker
    MaxOutages,  \* bound: outages of postsvc
    NoJob

ASSUME ReanalysisAssumption ==
    /\ NoJob \notin Jobs
    /\ MaxFaults \in Nat /\ MaxOutages \in Nat

VARIABLES
    channel,     \* the gateway's channel: "open", or "closed" for good
    answer,      \* what the client of each job was told, or "none"
    ready,       \* the jobs in the queue
    held,        \* the unacked deliveries of each worker
    linked,      \* whether the worker's channel is open
    step,        \* where each worker is in Consume
    running,     \* the job its handler is at, or NoJob
    runs,        \* history: how often each job has been run to its end
    faults,      \* how many channels of the gateway, and how many workers or
                 \* channels of theirs, were lost, against MaxFaults
    postsvc,     \* "up" or "down"
    outages      \* how often it went down, against MaxOutages

gateway == <<channel, answer>>
broker == <<ready, held>>
worker == <<linked, step, running>>
service == <<postsvc, outages>>
vars == <<gateway, broker, worker, runs, faults, service>>

Init ==
    /\ channel = "open"
    /\ answer = [j \in Jobs |-> "none"]
    /\ ready = {}
    /\ held = [w \in Workers |-> {}]
    /\ linked = [w \in Workers |-> TRUE]
    /\ step = [w \in Workers |-> "idle"]
    /\ running = [w \in Workers |-> NoJob]
    /\ runs = [j \in Jobs |-> 0]
    /\ faults = [f \in {"publish", "worker"} |-> 0]
    /\ postsvc = "up"
    /\ outages = 0

Fault(f) ==
    /\ f \in Faults
    /\ faults["publish"] + faults["worker"] < MaxFaults
    /\ faults' = [faults EXCEPT ![f] = @ + 1]

-----------------------------------------------------------------------------
(* The gateway: ReanalyzePosts and Client.Publish, without confirms.       *)

Answered(j, a) ==
    /\ answer[j] = "none"
    /\ answer' = [answer EXCEPT ![j] = a]

Publish(j) ==
    /\ channel = "open"
    /\ Answered(j, "202")
    /\ ready' = ready \cup {j}
    /\ UNCHANGED <<channel, held, worker, runs, faults, service>>

(* The connection breaks after the frame was written to it.                *)
PublishLost(j) ==
    /\ channel = "open"
    /\ Answered(j, "202")
    /\ Fault("publish")
    /\ channel' = "closed"
    /\ UNCHANGED <<broker, worker, runs, service>>

PublishFails(j) ==
    /\ channel = "closed"
    /\ Answered(j, "500")
    /\ UNCHANGED <<channel, broker, worker, runs, faults, service>>

(* Nothing opens the gateway's channel again but a restart of its process. *)
LoseGatewayChannel ==
    /\ channel = "open"
    /\ Fault("publish")
    /\ channel' = "closed"
    /\ UNCHANGED <<answer, broker, worker, runs, service>>

RestartGateway ==
    /\ channel = "closed"
    /\ Fault("publish")
    /\ channel' = "open"
    /\ UNCHANGED <<answer, broker, worker, runs, service>>

-----------------------------------------------------------------------------
(* The workers: Client.Consume with the handler of main.                   *)

(* Mutant of Deliver: the job stays in the queue.                          *)
DeliverCopy(w, j) ==
    /\ linked[w] /\ j \in ready
    /\ held' = [held EXCEPT ![w] = @ \cup {j}]
    /\ UNCHANGED <<ready, gateway, worker, runs, faults, service>>

(* No prefetch limit is set.                                               *)
Deliver(w, j) ==
    /\ linked[w] /\ j \in ready
    /\ ready' = ready \ {j}
    /\ held' = [held EXCEPT ![w] = @ \cup {j}]
    /\ UNCHANGED <<gateway, worker, runs, faults, service>>

Take(w, j) ==
    /\ step[w] = "idle" /\ j \in held[w]
    /\ step' = [step EXCEPT ![w] = "run"]
    /\ running' = [running EXCEPT ![w] = j]
    /\ UNCHANGED <<gateway, broker, linked, runs, faults, service>>

Succeed(w) ==
    /\ step[w] = "run" /\ postsvc = "up"
    /\ runs' = [runs EXCEPT ![running[w]] = @ + 1]
    /\ step' = [step EXCEPT ![w] = "ack"]
    /\ UNCHANGED <<gateway, broker, linked, running, faults, service>>

Fail(w) ==
    /\ step[w] = "run" /\ postsvc = "down"
    /\ step' = [step EXCEPT ![w] = "nack"]
    /\ UNCHANGED <<gateway, broker, linked, running, runs, faults, service>>

Done(w) ==
    /\ held' = [held EXCEPT ![w] = @ \ {running[w]}]
    /\ step' = [step EXCEPT ![w] = "idle"]
    /\ running' = [running EXCEPT ![w] = NoJob]

(* Mutant of Ack: the successful delivery is requeued.                     *)
AckRequeues(w) ==
    /\ step[w] = "ack"
    /\ Done(w)
    /\ ready' = ready \cup ({running[w]} \cap held[w])
    /\ UNCHANGED <<gateway, linked, runs, faults, service>>

(* On a channel that is lost, an ack or nack fails, and the error is       *)
(* ignored: the delivery is not the worker's any more.                     *)
Ack(w) ==
    /\ step[w] = "ack"
    /\ Done(w)
    /\ UNCHANGED <<gateway, ready, linked, runs, faults, service>>

(* Mutant of Nack: Nack(false, false), without requeue.                    *)
NackDrops(w) ==
    /\ step[w] = "nack"
    /\ Done(w)
    /\ UNCHANGED <<gateway, ready, linked, runs, faults, service>>

Nack(w) ==
    /\ step[w] = "nack"
    /\ Done(w)
    /\ ready' = ready \cup ({running[w]} \cap held[w])
    /\ UNCHANGED <<gateway, linked, runs, faults, service>>

(* What a lost channel held returns to the queue.                          *)
Unlinked(w) ==
    /\ ready' = ready \cup held[w]
    /\ held' = [held EXCEPT ![w] = {}]
    /\ linked' = [linked EXCEPT ![w] = FALSE]

(* A handler that is at a job goes on with it.                             *)
LoseChannel(w) ==
    /\ linked[w]
    /\ Fault("worker")
    /\ Unlinked(w)
    /\ UNCHANGED <<gateway, step, running, runs, service>>

(* Mutant of Exit: a closed delivery channel does not end the loop.        *)
WaitForEver(w) ==
    /\ step[w] = "idle" /\ ~linked[w]
    /\ UNCHANGED vars

(* The delivery channel is closed: Consume returns and main exits.         *)
Exit(w) ==
    /\ step[w] = "idle" /\ ~linked[w]
    /\ step' = [step EXCEPT ![w] = "down"]
    /\ UNCHANGED <<gateway, broker, linked, running, runs, faults, service>>

(* Mutant of Kill: what the worker was at is kept for its restart.         *)
KillInPlace(w) ==
    /\ step[w] # "down"
    /\ Fault("worker")
    /\ Unlinked(w)
    /\ step' = [step EXCEPT ![w] = "down"]
    /\ UNCHANGED <<gateway, running, runs, service>>

Kill(w) ==
    /\ step[w] # "down"
    /\ Fault("worker")
    /\ Unlinked(w)
    /\ step' = [step EXCEPT ![w] = "down"]
    /\ running' = [running EXCEPT ![w] = NoJob]
    /\ UNCHANGED <<gateway, runs, service>>

RestartWorker(w) ==
    /\ step[w] = "down"
    /\ step' = [step EXCEPT ![w] = "idle"]
    /\ linked' = [linked EXCEPT ![w] = TRUE]
    /\ UNCHANGED <<gateway, broker, running, runs, faults, service>>

-----------------------------------------------------------------------------
(* postsvc, as the workers see it.                                         *)

PostsvcStops ==
    /\ "postsvc" \in Faults
    /\ postsvc = "up" /\ outages < MaxOutages
    /\ postsvc' = "down"
    /\ outages' = outages + 1
    /\ UNCHANGED <<gateway, broker, worker, runs, faults>>

PostsvcStarts ==
    /\ postsvc = "down"
    /\ postsvc' = "up"
    /\ UNCHANGED <<gateway, broker, worker, runs, faults, outages>>

Request(j) == Publish(j) \/ PublishLost(j) \/ PublishFails(j)

Consume(w) ==
    \/ \E j \in Jobs : Deliver(w, j) \/ Take(w, j)
    \/ Succeed(w) \/ Fail(w) \/ Ack(w) \/ Nack(w) \/ Exit(w) \/ RestartWorker(w)

Next ==
    \/ \E j \in Jobs : Request(j)
    \/ LoseGatewayChannel \/ RestartGateway
    \/ \E w \in Workers : Consume(w) \/ LoseChannel(w) \/ Kill(w)
    \/ PostsvcStops \/ PostsvcStarts

(* A live worker runs on, one that has exited is started again (the        *)
(* deployment restarts it), and postsvc comes back.                        *)
Fairness == WF_vars(PostsvcStarts) /\ \A w \in Workers : WF_vars(Consume(w))

Spec == Init /\ [][Next]_vars
FairSpec == Spec /\ Fairness

-----------------------------------------------------------------------------
AtJob(w) == step[w] \in {"run", "ack", "nack"}

(* Every variable has its type: a worker is at a job exactly while its     *)
(* handler runs or its delivery is settled.                                *)
TypeOK ==
    /\ channel \in {"open", "closed"}
    /\ answer \in [Jobs -> {"none", "202", "500"}]
    /\ ready \subseteq Jobs
    /\ held \in [Workers -> SUBSET Jobs]
    /\ linked \in [Workers -> BOOLEAN]
    /\ step \in [Workers -> {"down", "idle", "run", "ack", "nack"}]
    /\ running \in [Workers -> Jobs \cup {NoJob}]
    /\ \A w \in Workers : AtJob(w) <=> running[w] # NoJob
    /\ runs \in [Jobs -> Nat]
    /\ faults \in [{"publish", "worker"} -> Nat] /\ outages \in Nat
    /\ postsvc \in {"up", "down"}

(* "each job must be handled by exactly one worker" (rabbitmq.go:6-7), as  *)
(* far as the code keeps it: no two workers that are both connected are at *)
(* the same job.                                                           *)
OneWorkerPerJob ==
    \A v, w \in Workers : v # w /\ linked[v] /\ linked[w] /\ AtJob(v) =>
        running[v] # running[w]

(* A job is run again only because a worker or its channel was lost before *)
(* the ack (rabbitmq.go:74-78); losses of the gateway's channel cause none.*)
RunsHaveCause == \A j \in Jobs : runs[j] <= 1 + faults["worker"]

(* The queue as the promise of JobQueue: a job that the broker has stored  *)
(* is kept until it has been run, whatever fails.                          *)
InBroker(j) == j \in ready \/ \E w \in Workers : j \in held[w]
Status ==
    [j \in Jobs |->
        CASE answer[j] = "none" -> "new"
          [] InBroker(j) -> "queued"
          [] ~InBroker(j) /\ runs[j] > 0 -> "done"
          [] OTHER -> "lost"]
Queue == INSTANCE JobQueue WITH status <- Status
KeptUntilRun == Queue!Spec

(* Every job that the broker has stored is run in the end, through         *)
(* failures of the workers and of postsvc.                                 *)
EventuallyRun == \A j \in Jobs : InBroker(j) ~> runs[j] > 0

=============================================================================
