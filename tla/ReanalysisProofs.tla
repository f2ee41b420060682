-------------------------- MODULE ReanalysisProofs --------------------------
(***************************************************************************)
(* No two connected workers are at one job, every run of a job has its     *)
(* cause, and the queue keeps the promise of JobQueue, for every number of *)
(* jobs and workers and through every failure of channels, workers and     *)
(* postsvc.                                                                *)
(***************************************************************************)
EXTENDS Reanalysis, FiniteSetTheorems, TLAPS

USE ReanalysisAssumption

(* A job is in the queue or with one connected worker, and was accepted;   *)
(* nothing runs before.                                                    *)
BrokerOK ==
    /\ \A w \in Workers : held[w] \cap ready = {}
    /\ \A v, w \in Workers : v # w => held[v] \cap held[w] = {}
    /\ \A w \in Workers : ~linked[w] => held[w] = {}
    /\ \A j \in Jobs : InBroker(j) => answer[j] = "202"
    /\ \A j \in Jobs : answer[j] = "none" => runs[j] = 0

(* What a worker is at is its own delivery while it is connected; a job    *)
(* that the broker does not have any more has been run.                    *)
WorkerOK(w) ==
    /\ step[w] = "down" => ~linked[w]
    /\ AtJob(w) /\ linked[w] => running[w] \in held[w]
    /\ AtJob(w) => answer[running[w]] = "202"
    /\ AtJob(w) => InBroker(running[w]) \/ runs[running[w]] > 0
    /\ step[w] = "ack" => runs[running[w]] > 0

IInv == TypeOK /\ BrokerOK /\ \A w \in Workers : WorkerOK(w)

LEMMA InitIInv == Init => IInv
  BY DEF Init, IInv, TypeOK, BrokerOK, WorkerOK, AtJob, InBroker

LEMMA RequestKeeps ==
    ASSUME IInv, NEW j \in Jobs, Request(j)
    PROVE  IInv'
<1> USE DEF IInv, Request, Publish, PublishLost, PublishFails, Answered, Fault,
            gateway, broker, worker, service, AtJob, InBroker
<1>1. TypeOK'
  BY DEF TypeOK
<1>2. ~InBroker(j) /\ answer[j] = "none"
  BY DEF BrokerOK, TypeOK
<1>3. BrokerOK'
  BY <1>2 DEF BrokerOK, TypeOK
<1>4. \A w \in Workers : WorkerOK(w)'
  BY DEF WorkerOK, TypeOK
<1> QED
  BY <1>1, <1>3, <1>4

LEMMA DeliverKeeps ==
    ASSUME IInv, NEW w \in Workers, NEW j \in Jobs, Deliver(w, j)
    PROVE  IInv'
<1> USE DEF IInv, Deliver, gateway, worker, service, AtJob
<1>1. TypeOK'
  BY DEF TypeOK
<1>2. \A i \in Jobs : InBroker(i)' <=> InBroker(i)
  BY DEF InBroker, TypeOK
<1>3. BrokerOK'
  <2>1. \A i \in Jobs : InBroker(i)' => answer'[i] = "202"
    BY <1>2 DEF BrokerOK
  <2>2. \A v \in Workers : held'[v] \cap ready' = {} /\ (~linked'[v] => held'[v] = {})
    BY DEF BrokerOK, TypeOK
  <2>3. \A u, v \in Workers : u # v => held'[u] \cap held'[v] = {}
    BY DEF BrokerOK, TypeOK
  <2>4. \A i \in Jobs : answer'[i] = "none" => runs'[i] = 0
    BY DEF BrokerOK
  <2> QED
    BY <2>1, <2>2, <2>3, <2>4 DEF BrokerOK
<1>4. \A v \in Workers : WorkerOK(v)'
  BY <1>2 DEF WorkerOK, TypeOK
<1> QED
  BY <1>1, <1>3, <1>4

(* Steps of a worker that leave the broker alone.                          *)
LEMMA HandlerKeeps ==
    ASSUME IInv, NEW w \in Workers,
           (\E j \in Jobs : Take(w, j)) \/ Succeed(w) \/ Fail(w) \/ Exit(w) \/ RestartWorker(w)
    PROVE  IInv'
<1> USE DEF IInv, gateway, broker, worker, service, AtJob, InBroker
<1>1. TypeOK'
  <2>1. CASE \E j \in Jobs : Take(w, j)
    BY <2>1 DEF Take, TypeOK
  <2>2. CASE Succeed(w)
    BY <2>2 DEF Succeed, TypeOK
  <2>3. CASE Fail(w) \/ Exit(w) \/ RestartWorker(w)
    BY <2>3 DEF Fail, Exit, RestartWorker, TypeOK
  <2> QED
    BY <2>1, <2>2, <2>3
<1> USE DEF Take, Succeed, Fail, Exit, RestartWorker
<1>2. BrokerOK'
  BY DEF BrokerOK, WorkerOK, TypeOK
<1>3. \A v \in Workers : WorkerOK(v)'
  BY DEF BrokerOK, WorkerOK, TypeOK
<1> QED
  BY <1>1, <1>2, <1>3

(* A delivery leaves the broker only when its job has been run.            *)
LEMMA SettleKeeps ==
    ASSUME IInv, NEW w \in Workers, Ack(w) \/ Nack(w)
    PROVE  IInv'
<1> DEFINE j == running[w]
<1> USE DEF IInv, Ack, Nack, Done, gateway, service, AtJob
<1>1. TypeOK'
  BY DEF TypeOK
<1>2. j \in Jobs
  BY DEF TypeOK
<1>3. \A i \in Jobs : InBroker(i)' => InBroker(i)
  BY DEF InBroker, TypeOK
<1>4. \A i \in Jobs : InBroker(i) => InBroker(i)' \/ runs[i] > 0
  BY DEF InBroker, TypeOK, WorkerOK
<1>5. BrokerOK'
  <2>1. \A i \in Jobs : InBroker(i)' => answer'[i] = "202"
    BY <1>3 DEF BrokerOK
  <2>2. \A v \in Workers : held'[v] \cap ready' = {} /\ (~linked'[v] => held'[v] = {})
    BY DEF BrokerOK, TypeOK
  <2>3. \A u, v \in Workers : u # v => held'[u] \cap held'[v] = {}
    BY DEF BrokerOK, TypeOK
  <2>4. \A i \in Jobs : answer'[i] = "none" => runs'[i] = 0
    BY DEF BrokerOK
  <2> QED
    BY <2>1, <2>2, <2>3, <2>4 DEF BrokerOK
<1>6. \A v \in Workers : WorkerOK(v)'
  <2> SUFFICES ASSUME NEW v \in Workers PROVE WorkerOK(v)'
    OBVIOUS
  <2>1. CASE v = w
    BY <2>1 DEF WorkerOK, TypeOK
  <2>2. CASE v # w
    BY <1>4, <2>2 DEF WorkerOK, TypeOK
  <2> QED
    BY <2>1, <2>2
<1> QED
  BY <1>1, <1>5, <1>6

(* A lost channel gives back all that it held.                             *)
LEMMA LossKeeps ==
    ASSUME IInv, NEW w \in Workers, LoseChannel(w) \/ Kill(w)
    PROVE  IInv'
<1> USE DEF IInv, Unlinked, Fault, gateway, service, AtJob
<1>1. TypeOK'
  <2>1. CASE LoseChannel(w)
    BY <2>1 DEF LoseChannel, TypeOK
  <2>2. CASE Kill(w)
    BY <2>2 DEF Kill, TypeOK
  <2> QED
    BY <2>1, <2>2
<1> USE DEF LoseChannel, Kill
<1>2. \A i \in Jobs : InBroker(i)' <=> InBroker(i)
  BY DEF InBroker, TypeOK
<1>3. BrokerOK'
  <2>1. \A i \in Jobs : InBroker(i)' => answer'[i] = "202"
    BY <1>2 DEF BrokerOK
  <2>2. \A v \in Workers : held'[v] \cap ready' = {} /\ (~linked'[v] => held'[v] = {})
    BY DEF BrokerOK, TypeOK
  <2>3. \A u, v \in Workers : u # v => held'[u] \cap held'[v] = {}
    BY DEF BrokerOK, TypeOK
  <2>4. \A i \in Jobs : answer'[i] = "none" => runs'[i] = 0
    BY DEF BrokerOK
  <2> QED
    BY <2>1, <2>2, <2>3, <2>4 DEF BrokerOK
<1>4. \A v \in Workers : WorkerOK(v)'
  BY <1>2 DEF WorkerOK, TypeOK
<1> QED
  BY <1>1, <1>3, <1>4

(* Steps that touch neither the queue nor a worker.                        *)
LEMMA OthersKeep ==
    ASSUME IInv, \/ LoseGatewayChannel \/ RestartGateway \/ PostsvcStops \/ PostsvcStarts
                 \/ UNCHANGED vars
    PROVE  IInv'
  BY DEF IInv, LoseGatewayChannel, RestartGateway, PostsvcStops, PostsvcStarts, Fault, vars,
         gateway, broker, worker, service, TypeOK, BrokerOK, WorkerOK, AtJob, InBroker

LEMMA NextIInv == IInv /\ [Next]_vars => IInv'
  BY RequestKeeps, DeliverKeeps, HandlerKeeps, SettleKeeps, LossKeeps, OthersKeep
     DEF Next, Consume

LEMMA Invariance == Spec => []IInv
  BY InitIInv, NextIInv, PTL DEF Spec

(* Every variable keeps its type.                                          *)
THEOREM TypeCorrect == Spec => []TypeOK
<1>1. IInv => TypeOK
  BY DEF IInv
<1> QED
  BY Invariance, <1>1, PTL

(* No two connected workers are at one job: deliveries are disjoint, and a *)
(* connected worker is at a delivery of its own.                           *)
THEOREM WorkersAreApart == Spec => []OneWorkerPerJob
<1>1. IInv => OneWorkerPerJob
  <2> SUFFICES ASSUME IInv, NEW v \in Workers, NEW w \in Workers, v # w,
                      linked[v], linked[w], AtJob(v), running[v] = running[w]
               PROVE  FALSE
    BY DEF OneWorkerPerJob
  <2>1. AtJob(w)
    BY DEF IInv, TypeOK
  <2>2. running[v] \in held[v] /\ running[v] \in held[w]
    BY <2>1 DEF IInv, WorkerOK
  <2> QED
    BY <2>2 DEF IInv, BrokerOK
<1> QED
  BY Invariance, <1>1, PTL

-----------------------------------------------------------------------------
(* Every run of a job is paid for by its acceptance or by a fault.         *)

(* The workers that run the job although their channel is lost.            *)
Late(j) == {w \in Workers : step[w] = "run" /\ running[w] = j /\ ~linked[w]}

(* The run that the queue still owes the job: none while its delivery      *)
(* waits for the ack.                                                      *)
Acking(j) == \E w \in Workers : step[w] = "ack" /\ running[w] = j /\ linked[w]
Owed(j) == answer[j] = "none" \/ (InBroker(j) /\ ~Acking(j))
Due(j) == IF Owed(j) THEN 1 ELSE 0

Account(j) ==
    /\ IsFiniteSet(Late(j))
    /\ runs[j] + Cardinality(Late(j)) + Due(j) <= 1 + faults["worker"]

(* A step that adds nothing to the account.                                *)
LEMMA NothingAdded ==
    ASSUME IInv, IInv', NEW j \in Jobs, Account(j),
           runs'[j] = runs[j], Late(j)' \subseteq Late(j), Owed(j)' => Owed(j),
           faults'["worker"] >= faults["worker"]
    PROVE  Account(j)'
<1>1. /\ IsFiniteSet(Late(j)') /\ Cardinality(Late(j)') \in Nat /\ Cardinality(Late(j)) \in Nat
      /\ Cardinality(Late(j)') <= Cardinality(Late(j))
  BY FS_Subset, FS_CardinalityType DEF Account
<1>2. Due(j)' <= Due(j) /\ Due(j) \in {0, 1} /\ Due(j)' \in {0, 1}
  BY DEF Due
<1>3. runs[j] \in Nat /\ faults["worker"] \in Nat /\ faults'["worker"] \in Nat
  BY DEF IInv, TypeOK
<1>4. runs[j] + Cardinality(Late(j)) + Due(j) <= 1 + faults["worker"]
  BY DEF Account
<1>5. runs'[j] + Cardinality(Late(j)') + Due(j)' <= 1 + faults'["worker"]
  BY <1>1, <1>2, <1>3, <1>4
<1> QED
  BY <1>1, <1>5 DEF Account

LEMMA RequestAccount ==
    ASSUME IInv, IInv', NEW i \in Jobs, Request(i), NEW j \in Jobs, Account(j)
    PROVE  Account(j)'
<1> USE DEF Request, Publish, PublishLost, PublishFails, Answered, Fault,
            gateway, broker, worker, service
<1>1. runs'[j] = runs[j] /\ Late(j)' \subseteq Late(j) /\ faults'["worker"] >= faults["worker"]
  BY DEF Late, IInv, TypeOK
<1>2. Owed(j)' => Owed(j)
  <2>1. CASE i = j
    BY <2>1 DEF Owed, IInv, TypeOK
  <2>2. CASE i # j
    BY <2>2 DEF Owed, InBroker, Acking, IInv, TypeOK
  <2> QED
    BY <2>1, <2>2
<1> QED
  BY <1>1, <1>2, NothingAdded

LEMMA QuietAccount ==
    ASSUME IInv, IInv', NEW w \in Workers, NEW j \in Jobs, Account(j),
           \/ \E i \in Jobs : Deliver(w, i) \/ Take(w, i)
           \/ Fail(w) \/ Nack(w) \/ Exit(w) \/ RestartWorker(w)
    PROVE  Account(j)'
<1> USE DEF Deliver, Take, Fail, Nack, Done, Exit, RestartWorker,
            gateway, broker, worker, service
<1>1. runs'[j] = runs[j] /\ faults' = faults /\ answer' = answer /\ faults["worker"] \in Nat
  BY DEF IInv, TypeOK
<1>2. Late(j)' \subseteq Late(j)
  BY DEF Late, IInv, BrokerOK, TypeOK
<1>3. InBroker(j)' => InBroker(j)
  BY DEF InBroker, IInv, TypeOK
<1>4. Acking(j) => Acking(j)'
  BY DEF Acking, IInv, WorkerOK, TypeOK
<1> QED
  BY <1>1, <1>2, <1>3, <1>4, NothingAdded DEF Owed

(* The ack ends the wait of its own delivery, which is gone.               *)
LEMMA AckAccount ==
    ASSUME IInv, IInv', NEW w \in Workers, NEW j \in Jobs, Account(j), Ack(w)
    PROVE  Account(j)'
<1> USE DEF Ack, Done, gateway, service
<1>1. runs'[j] = runs[j] /\ faults' = faults /\ answer' = answer /\ faults["worker"] \in Nat
  BY DEF IInv, TypeOK
<1>2. Late(j)' \subseteq Late(j)
  BY DEF Late, IInv, TypeOK
<1>3. Owed(j)' => Owed(j)
  <2>1. InBroker(j)' => InBroker(j)
    BY DEF InBroker, IInv, TypeOK
  <2>2. CASE running[w] = j /\ linked[w]
    <3>1. j \in held[w]
      BY <2>2 DEF IInv, WorkerOK, AtJob
    <3>2. ~InBroker(j)'
      BY <2>2, <3>1 DEF InBroker, IInv, BrokerOK, TypeOK
    <3> QED
      BY <1>1, <3>2 DEF Owed
  <2>3. CASE ~(running[w] = j /\ linked[w])
    <3>1. Acking(j) => Acking(j)'
      BY <2>3 DEF Acking, IInv, TypeOK
    <3> QED
      BY <1>1, <2>1, <3>1 DEF Owed
  <2> QED
    BY <2>2, <2>3
<1> QED
  BY <1>1, <1>2, <1>3, NothingAdded

(* A job that a connected worker runs is owed: nobody else is at its ack.  *)
LEMMA RunningIsOwed ==
    ASSUME IInv, NEW w \in Workers, step[w] = "run", linked[w]
    PROVE  Owed(running[w])
<1>1. running[w] \in held[w]
  BY DEF IInv, WorkerOK, AtJob
<1>2. ASSUME NEW v \in Workers, step[v] = "ack", running[v] = running[w], linked[v]
      PROVE  FALSE
  <2>1. running[w] \in held[v] /\ v # w
    BY <1>2 DEF IInv, WorkerOK, AtJob
  <2> QED
    BY <1>1, <2>1 DEF IInv, BrokerOK
<1> QED
  BY <1>1, <1>2 DEF Owed, InBroker, Acking

LEMMA SucceedAccount ==
    ASSUME IInv, IInv', NEW w \in Workers, NEW j \in Jobs, Account(j), Succeed(w)
    PROVE  Account(j)'
<1> USE DEF Succeed, gateway, broker, service
<1>1. /\ faults' = faults /\ answer' = answer /\ faults["worker"] \in Nat
      /\ runs[j] \in Nat /\ runs'[j] = IF running[w] = j THEN runs[j] + 1 ELSE runs[j]
  BY DEF IInv, TypeOK
<1>2. Late(j)' = Late(j) \ {w}
  BY DEF Late, IInv, TypeOK
<1>3. Owed(j)' => Owed(j)
  BY DEF Owed, InBroker, Acking, IInv, TypeOK
<1>4. CASE running[w] # j
  BY <1>1, <1>2, <1>3, <1>4, NothingAdded
<1>5. CASE running[w] = j
  <2>1. /\ IsFiniteSet(Late(j)') /\ Cardinality(Late(j)) \in Nat
        /\ Cardinality(Late(j)') = IF w \in Late(j) THEN Cardinality(Late(j)) - 1
                                                    ELSE Cardinality(Late(j))
    BY <1>2, FS_RemoveElement, FS_CardinalityType DEF Account
  <2>2. runs[j] + Cardinality(Late(j)) + Due(j) <= 1 + faults["worker"]
    BY DEF Account
  <2>3. CASE linked[w]
    <3>1. Due(j) = 1
      BY <1>5, <2>3, RunningIsOwed DEF Due
    <3>2. Acking(j)' /\ answer[j] = "202"
      BY <1>5, <2>3 DEF Acking, IInv, TypeOK, WorkerOK, AtJob
    <3>3. Due(j)' = 0
      BY <1>1, <3>2 DEF Due, Owed
    <3>4. Cardinality(Late(j)') = Cardinality(Late(j))
      BY <2>1, <2>3 DEF Late
    <3> QED
      BY <1>1, <1>5, <2>1, <2>2, <3>1, <3>3, <3>4 DEF Account
  <2>4. CASE ~linked[w]
    <3>1. Cardinality(Late(j)') = Cardinality(Late(j)) - 1
      BY <1>5, <2>1, <2>4 DEF Late
    <3>2. Due(j)' <= Due(j) /\ Due(j) \in {0, 1} /\ Due(j)' \in {0, 1}
      BY <1>3 DEF Due
    <3>3. runs'[j] + Cardinality(Late(j)') + Due(j)' <= 1 + faults'["worker"]
      BY <1>1, <1>5, <2>1, <2>2, <3>1, <3>2
    <3> QED
      BY <2>1, <3>3 DEF Account
  <2> QED
    BY <2>3, <2>4
<1> QED
  BY <1>4, <1>5

(* A lost channel makes one more run possible: that of the worker that     *)
(* goes on, or that of a delivery whose ack is not heard.                  *)
LEMMA LossAccount ==
    ASSUME IInv, IInv', NEW w \in Workers, NEW j \in Jobs, Account(j),
           LoseChannel(w) \/ Kill(w)
    PROVE  Account(j)'
<1> USE DEF LoseChannel, Kill, Unlinked, Fault, gateway, service
<1>1. /\ faults'["worker"] = faults["worker"] + 1 /\ faults["worker"] \in Nat
      /\ runs[j] \in Nat /\ runs'[j] = runs[j]
  BY DEF IInv, TypeOK
<1>2. /\ IsFiniteSet(Late(j)) /\ Cardinality(Late(j)) \in Nat
      /\ runs[j] + Cardinality(Late(j)) + Due(j) <= 1 + faults["worker"]
  BY FS_CardinalityType DEF Account
<1>3. Due(j) \in {0, 1} /\ Due(j)' \in {0, 1}
  BY DEF Due
<1>4. CASE Late(j)' \subseteq Late(j)
  <2>1. IsFiniteSet(Late(j)') /\ Cardinality(Late(j)') \in Nat
        /\ Cardinality(Late(j)') <= Cardinality(Late(j))
    BY <1>2, <1>4, FS_Subset, FS_CardinalityType
  <2>2. runs'[j] + Cardinality(Late(j)') + Due(j)' <= 1 + faults'["worker"]
    BY <1>1, <1>2, <1>3, <2>1
  <2> QED
    BY <2>1, <2>2 DEF Account
<1>5. CASE ~(Late(j)' \subseteq Late(j))
  <2>1. linked[w] /\ step[w] = "run" /\ running[w] = j /\ Late(j)' \subseteq Late(j) \cup {w}
    BY <1>5 DEF Late, IInv, TypeOK
  <2>2. Due(j) = 1
    BY <2>1, RunningIsOwed DEF Due
  <2> DEFINE more == Late(j) \cup {w}
  <2>3. IsFiniteSet(more) /\ Cardinality(more) \in Nat /\ Cardinality(more) <= Cardinality(Late(j)) + 1
    <3>1. /\ IsFiniteSet(more)
          /\ Cardinality(more) = IF w \in Late(j) THEN Cardinality(Late(j)) ELSE Cardinality(Late(j)) + 1
      BY <1>2, FS_AddElement
    <3> QED
      BY <1>2, <3>1
  <2>4. /\ IsFiniteSet(Late(j)') /\ Cardinality(Late(j)') \in Nat
        /\ Cardinality(Late(j)') <= Cardinality(more)
    BY <2>1, <2>3, FS_Subset, FS_CardinalityType
  <2>5. runs'[j] + Cardinality(Late(j)') + Due(j)' <= 1 + faults'["worker"]
    BY <1>1, <1>2, <1>3, <2>2, <2>3, <2>4
  <2> QED
    BY <2>4, <2>5 DEF Account
<1> QED
  BY <1>4, <1>5

LEMMA OthersAccount ==
    ASSUME IInv, IInv', NEW j \in Jobs, Account(j),
           \/ LoseGatewayChannel \/ RestartGateway \/ PostsvcStops \/ PostsvcStarts
           \/ UNCHANGED vars
    PROVE  Account(j)'
<1> USE DEF LoseGatewayChannel, RestartGateway, PostsvcStops, PostsvcStarts, Fault, vars,
            gateway, broker, worker, service
<1>1. runs'[j] = runs[j] /\ faults'["worker"] >= faults["worker"]
  BY DEF IInv, TypeOK
<1>2. Late(j)' \subseteq Late(j) /\ (Owed(j)' => Owed(j))
  BY DEF Late, Owed, InBroker, Acking
<1> QED
  BY <1>1, <1>2, NothingAdded

LEMMA NextAccount ==
    ASSUME IInv, IInv', [Next]_vars, \A j \in Jobs : Account(j)
    PROVE  \A j \in Jobs : Account(j)'
  BY RequestAccount, QuietAccount, AckAccount, SucceedAccount, LossAccount, OthersAccount
     DEF Next, Consume

(* A job is run more than once only for a worker or a channel of a worker  *)
(* that was lost before the ack.                                           *)
THEOREM RunsAreDue == Spec => []RunsHaveCause
<1> DEFINE Accounts == \A j \in Jobs : Account(j)
<1>1. Init => Accounts
  <2> SUFFICES ASSUME Init, NEW j \in Jobs PROVE Account(j)
    OBVIOUS
  <2>1. Late(j) = {} /\ runs[j] = 0 /\ faults["worker"] = 0 /\ Due(j) \in {0, 1}
    BY DEF Init, Late, Due
  <2> QED
    BY <2>1, FS_EmptySet DEF Account
<1>2. IInv /\ IInv' /\ Accounts /\ [Next]_vars => Accounts'
  BY NextAccount
<1>3. IInv /\ Accounts => RunsHaveCause
  <2> SUFFICES ASSUME IInv, NEW j \in Jobs, Account(j) PROVE runs[j] <= 1 + faults["worker"]
    BY DEF RunsHaveCause
  <2>1. Cardinality(Late(j)) \in Nat /\ Due(j) \in {0, 1} /\ runs[j] \in Nat /\ faults["worker"] \in Nat
    BY FS_CardinalityType DEF Account, Due, IInv, TypeOK
  <2>2. runs[j] + Cardinality(Late(j)) + Due(j) <= 1 + faults["worker"]
    BY DEF Account
  <2> QED
    BY <2>1, <2>2
<1> QED
  BY Invariance, <1>1, <1>2, <1>3, PTL DEF Spec

-----------------------------------------------------------------------------
(* The refinement of JobQueue.                                             *)

(* The four kinds of status exclude one another.                           *)
LEMMA StatusIs ==
    ASSUME IInv, NEW j \in Jobs
    PROVE  /\ answer[j] = "none" <=> Status[j] = "new"
           /\ InBroker(j) <=> Status[j] = "queued"
           /\ answer[j] # "none" /\ ~InBroker(j) /\ runs[j] > 0 <=> Status[j] = "done"
           /\ answer[j] # "none" /\ ~InBroker(j) /\ ~(runs[j] > 0) <=> Status[j] = "lost"
<1>1. (InBroker(j) => answer[j] # "none") /\ (answer[j] = "none" => ~(runs[j] > 0))
  BY DEF IInv, BrokerOK
<1>2. CASE answer[j] = "none"
  BY <1>1, <1>2 DEF Status
<1>3. CASE InBroker(j)
  BY <1>1, <1>3 DEF Status
<1>4. CASE answer[j] # "none" /\ ~InBroker(j)
  BY <1>4 DEF Status
<1> QED
  BY <1>2, <1>3, <1>4

LEMMA StatusFn == Status = [j \in Jobs |-> Status[j]] /\ Status' = [j \in Jobs |-> Status'[j]]
  BY DEF Status

LEMMA StatusIsNext ==
    ASSUME IInv', NEW j \in Jobs
    PROVE  /\ answer'[j] = "none" <=> Status'[j] = "new"
           /\ InBroker(j)' <=> Status'[j] = "queued"
           /\ answer'[j] # "none" /\ ~InBroker(j)' /\ runs'[j] > 0 <=> Status'[j] = "done"
           /\ answer'[j] # "none" /\ ~InBroker(j)' /\ ~(runs'[j] > 0) <=> Status'[j] = "lost"
<1>1. (InBroker(j)' => answer'[j] # "none") /\ (answer'[j] = "none" => ~(runs'[j] > 0))
  BY DEF IInv, BrokerOK
<1>2. CASE answer'[j] = "none"
  BY <1>1, <1>2 DEF Status
<1>3. CASE InBroker(j)'
  BY <1>1, <1>3 DEF Status
<1>4. CASE answer'[j] # "none" /\ ~InBroker(j)'
  BY <1>4 DEF Status
<1> QED
  BY <1>2, <1>3, <1>4

(* Where a job is, and whether it has been run, is all that its status     *)
(* depends on.                                                             *)
LEMMA SameStatus ==
    ASSUME IInv, IInv', answer' = answer, runs' = runs,
           \A j \in Jobs : InBroker(j)' <=> InBroker(j)
    PROVE  UNCHANGED Queue!vars
<1>1. \A j \in Jobs : Status'[j] = Status[j]
  BY DEF Status
<1> QED
  BY <1>1, StatusFn DEF Queue!vars

LEMMA RequestImplements ==
    ASSUME IInv, IInv', NEW j \in Jobs, Request(j)
    PROVE  Queue!Next
<1> USE DEF Request, Publish, PublishLost, PublishFails, Answered, Fault,
            gateway, broker, worker, service
<1>1. answer[j] = "none" /\ answer'[j] # "none" /\ runs' = runs
  BY DEF IInv, TypeOK
<1>2. ASSUME NEW i \in Jobs, i # j
      PROVE  Status'[i] = Status[i]
  <2>1. answer'[i] = answer[i] /\ (InBroker(i)' <=> InBroker(i))
    BY <1>2 DEF InBroker, IInv, TypeOK
  <2> QED
    BY <1>1, <2>1 DEF Status
<1>3. runs[j] = 0
  BY <1>1 DEF IInv, BrokerOK
<1>4. Status[j] = "new" /\ Status'[j] \in {"queued", "lost"}
  BY <1>1, <1>3, StatusIs, StatusIsNext
<1>5. Status' = [Status EXCEPT ![j] = Status'[j]]
  BY <1>2, StatusFn
<1>6. Queue!Enqueue(j)
  BY <1>1, <1>4, <1>5 DEF Queue!Enqueue
<1> QED
  BY <1>6 DEF Queue!Next

(* A handler that comes to its end has run the job, in the queue or late.  *)
LEMMA SucceedImplements ==
    ASSUME IInv, IInv', NEW w \in Workers, Succeed(w)
    PROVE  Queue!Next
<1> DEFINE j == running[w]
<1> USE DEF Succeed, gateway, broker, service
<1>1. j \in Jobs /\ answer[j] = "202" /\ (InBroker(j) \/ runs[j] > 0)
  BY DEF IInv, TypeOK, WorkerOK, AtJob
<1>2. runs' = [runs EXCEPT ![j] = @ + 1] /\ runs[j] \in Nat /\ runs'[j] > 0
  BY <1>1 DEF IInv, TypeOK
<1>3. \A i \in Jobs : Status'[i] = Status[i]
  <2> SUFFICES ASSUME NEW i \in Jobs PROVE Status'[i] = Status[i]
    OBVIOUS
  <2>1. answer' = answer /\ (InBroker(i)' <=> InBroker(i))
    BY DEF InBroker
  <2>2. CASE i = j
    BY <1>1, <1>2, <2>1, <2>2, StatusIs, StatusIsNext
  <2>3. CASE i # j
    <3>1. runs'[i] = runs[i]
      BY <1>1, <1>2, <2>3 DEF IInv, TypeOK
    <3> QED
      BY <2>1, <3>1 DEF Status
  <2> QED
    BY <2>2, <2>3
<1>4. Status' = Status
  BY <1>3, StatusFn
<1>5. Status[j] \in {"queued", "done"}
  BY <1>1, StatusIs
<1>6. Queue!Handle(j) \/ Queue!HandleLate(j)
  BY <1>2, <1>4, <1>5 DEF Queue!Handle, Queue!HandleLate
<1> QED
  BY <1>1, <1>6 DEF Queue!Next

(* The ack of a delivery finishes its job; that of a lost one says nothing.*)
LEMMA AckImplements ==
    ASSUME IInv, IInv', NEW w \in Workers, Ack(w)
    PROVE  [Queue!Next]_Queue!vars
<1> USE DEF Ack, Done, gateway, service
<1>0. PICK j \in Jobs : j = running[w]
  BY DEF IInv, TypeOK, AtJob
<1>1. runs[j] > 0 /\ answer[j] = "202" /\ answer' = answer /\ runs' = runs
  BY <1>0 DEF IInv, TypeOK, WorkerOK, AtJob
<1>2. CASE linked[w]
  <2>1. j \in held[w]
    BY <1>0, <1>2 DEF IInv, WorkerOK, AtJob
  <2>2. InBroker(j) /\ ~InBroker(j)'
    BY <1>0, <2>1 DEF InBroker, IInv, BrokerOK, TypeOK
  <2>3. \A i \in Jobs : i # j => (InBroker(i)' <=> InBroker(i))
    BY <1>0 DEF InBroker, IInv, TypeOK
  <2>4. \A i \in Jobs : i # j => Status'[i] = Status[i]
    BY <1>1, <2>3 DEF Status
  <2>5. Status[j] = "queued" /\ Status'[j] = "done"
    BY <1>1, <2>2, StatusIs, StatusIsNext
  <2>6. Status' = [Status EXCEPT ![j] = "done"]
    BY <2>4, <2>5, StatusFn
  <2>7. Queue!Finish(j)
    BY <1>1, <2>5, <2>6 DEF Queue!Finish
  <2> QED
    BY <1>1, <2>7 DEF Queue!Next
<1>3. CASE ~linked[w]
  <2>1. held' = held
    BY <1>3 DEF IInv, BrokerOK, TypeOK
  <2>2. \A i \in Jobs : InBroker(i)' <=> InBroker(i)
    BY <2>1 DEF InBroker
  <2> QED
    BY <1>1, <2>2, SameStatus
<1> QED
  BY <1>2, <1>3

LEMMA QuietImplements ==
    ASSUME IInv, IInv', NEW w \in Workers,
           \/ \E j \in Jobs : Deliver(w, j) \/ Take(w, j)
           \/ Fail(w) \/ Nack(w) \/ Exit(w) \/ RestartWorker(w) \/ LoseChannel(w) \/ Kill(w)
    PROVE  UNCHANGED Queue!vars
<1> USE DEF Deliver, Take, Fail, Nack, Done, Exit, RestartWorker, LoseChannel, Kill, Unlinked,
            gateway, broker, worker, service
<1>1. answer' = answer /\ runs' = runs
  OBVIOUS
<1>2. \A j \in Jobs : InBroker(j)' <=> InBroker(j)
  BY DEF InBroker, IInv, TypeOK
<1> QED
  BY <1>1, <1>2, SameStatus

LEMMA OthersImplement ==
    ASSUME IInv, IInv',
           \/ LoseGatewayChannel \/ RestartGateway \/ PostsvcStops \/ PostsvcStarts
           \/ UNCHANGED vars
    PROVE  UNCHANGED Queue!vars
<1>1. /\ answer' = answer /\ runs' = runs
      /\ \A j \in Jobs : InBroker(j)' <=> InBroker(j)
  BY DEF LoseGatewayChannel, RestartGateway, PostsvcStops, PostsvcStarts, vars,
         gateway, broker, worker, service, InBroker
<1> QED
  BY <1>1, SameStatus

LEMMA NextImplements ==
    ASSUME IInv, IInv', [Next]_vars
    PROVE  [Queue!Next]_Queue!vars
  BY RequestImplements, SucceedImplements, AckImplements, QuietImplements, OthersImplement
     DEF Next, Consume

(* The queue keeps the promise of JobQueue: a stored job is kept until it  *)
(* has been run.                                                           *)
THEOREM Refinement == Spec => KeptUntilRun
<1>1. Init => Queue!Init
  BY DEF Init, Queue!Init, Status, InBroker
<1>2. IInv /\ IInv' /\ [Next]_vars => [Queue!Next]_Queue!vars
  BY NextImplements
<1> QED
  BY Invariance, <1>1, <1>2, PTL DEF Spec, KeptUntilRun, Queue!Spec

=============================================================================
