------------------------ MODULE NotificationsProofs ------------------------
(***************************************************************************)
(* Every delivery of a recheck has its cause, and the delayed topic keeps  *)
(* the promise of JobQueue, for every number of posts and consumers and    *)
(* whatever faults happen.                                                 *)
(***************************************************************************)
EXTENDS Notifications, TLAPS

(* The messages of a post are those of its three attempts.                 *)
LEMMA MessageIs ==
    ASSUME NEW m \in Messages
    PROVE  m[1] \in Posts /\ m[2] \in {1, 2, 3} /\ m = <<m[1], m[2]>>
  BY DEF Messages, Attempts

LEMMA CopiesAre ==
    ASSUME NEW n \in Posts
    PROVE  /\ Copies(n) = {<<n, 1>>, <<n, 2>>, <<n, 3>>}
           /\ Copies(n) \subseteq Messages
           /\ \A m \in Copies(n) : m[1] = n
<1>1. Attempts = {1, 2, 3}
  BY DEF Attempts
<1> QED
  BY <1>1 DEF Copies, Messages

(* Nothing moves before the sender is done with the post.                  *)
SendingOK ==
    \A m \in Messages : sender[m[1]] # "over" => message[m] \in {"absent", "delayed"}

(* A message that a handler has been through was delivered, and one that   *)
(* no consumer has seen was not.                                           *)
DeliveredOK ==
    \A m \in Messages :
        /\ message[m] \in {"handled", "consumed"} => delivered[m] > 0
        /\ message[m] \in {"absent", "delayed"} => delivered[m] = 0

IInv == TypeOK /\ SendingOK /\ DeliveredOK

LEMMA InitIInv == Init => IInv
  BY MessageIs, 1 \in Attempts
     DEF Init, IInv, TypeOK, SendingOK, DeliveredOK, Held, Attempts

LEMMA NewMessage ==
    ASSUME IInv, NEW n \in Posts
    PROVE  <<n, attempt[n]>> \in Messages
  BY DEF IInv, TypeOK, Messages

LEMMA PublishingKeeps ==
    ASSUME IInv, NEW n \in Posts, Create(n) \/ Publishing(n)
    PROVE  IInv'
<1> USE DEF IInv, Create, Publishing, Send, AnswerLost, SendFails, GiveUp, Again, Over, Stored,
            group
<1>0. sender[n] # "over"
  OBVIOUS
<1>1. \/ UNCHANGED message
      \/ /\ sender[n] = "sending"
         /\ message' = [message EXCEPT ![<<n, attempt[n]>>] = "delayed"]
  OBVIOUS
<1>2. \A m \in Messages :
          \/ message'[m] = message[m]
          \/ sender[n] = "sending" /\ m[1] = n /\ message'[m] = "delayed"
  BY <1>1, NewMessage, MessageIs DEF TypeOK
<1>3. \A i \in Posts : i # n => sender'[i] = sender[i]
  BY DEF TypeOK
<1>4. \A m \in Messages :
          \/ message'[m] = message[m]
          \/ ~Held(m) /\ message[m] \in {"absent", "delayed"}
  BY <1>2 DEF SendingOK, Held
<1>5. TypeOK'
  <2>1. sender' \in [Posts -> {"none", "sending", "over"}] /\ attempt' \in [Posts -> Attempts]
    BY DEF TypeOK
  <2>2. message' \in [Messages -> {"absent", "delayed", "ready", "pulled", "handled", "consumed"}]
    BY <1>1, NewMessage DEF TypeOK
  <2>3. \A m \in Messages : Held(m)' <=> Held(m)
    BY <1>2, <1>4 DEF Held
  <2> QED
    BY <2>1, <2>2, <2>3 DEF TypeOK
<1>6. SendingOK'
  BY <1>0, <1>2, <1>3, MessageIs DEF SendingOK
<1>7. DeliveredOK'
  BY <1>2, <1>4 DEF DeliveredOK
<1> QED
  BY <1>5, <1>6, <1>7

LEMMA ConsumingKeeps ==
    ASSUME IInv, NEW m \in Messages,
           Release(m) \/ Consuming(m) \/ Reassign(m)
    PROVE  IInv'
<1> USE DEF IInv, Release, Consuming, Pull, Deliver, Consumed, Answered, Reassign, Returned,
            producer, group, Held
<1>1. TypeOK'
  BY DEF TypeOK
<1>2. SendingOK'
  BY DEF SendingOK, TypeOK
<1>3. DeliveredOK'
  BY DEF DeliveredOK, TypeOK
<1> QED
  BY <1>1, <1>2, <1>3

LEMMA ConsumersKeep ==
    ASSUME IInv, NEW c \in Consumers, Lose(c) \/ Restart(c)
    PROVE  IInv'
<1> USE DEF IInv, Lose, Restart, Returned, producer, Held
<1>1. TypeOK'
  BY DEF TypeOK
<1>2. SendingOK'
  BY DEF SendingOK, TypeOK
<1>3. DeliveredOK'
  BY DEF DeliveredOK, TypeOK
<1> QED
  BY <1>1, <1>2, <1>3

LEMMA NextKeeps ==
    ASSUME IInv, [Next]_vars
    PROVE  IInv'
<1>1. CASE UNCHANGED vars
  BY <1>1 DEF vars, producer, group, IInv, TypeOK, SendingOK, DeliveredOK, Held
<1> QED
  BY <1>1, PublishingKeeps, ConsumingKeeps, ConsumersKeep DEF Next

LEMMA Invariance == Spec => []IInv
  BY InitIInv, NextKeeps, PTL DEF Spec

(* TypeOK is an invariant: a message is with a consumer exactly while it   *)
(* is handled, and that consumer is live.                                  *)
THEOREM TypeCorrect == Spec => []TypeOK
<1>1. IInv => TypeOK
  BY DEF IInv
<1> QED
  BY <1>1, Invariance, PTL

-----------------------------------------------------------------------------
(* The deliveries of a message and the one still owed to it.               *)
Owed(m) == IF message[m] \in {"handled", "consumed"} THEN 0 ELSE 1
Accounts == \A m \in Messages : delivered[m] + Owed(m) <= 1 + losses

LEMMA NextAccounts ==
    ASSUME IInv, Accounts, [Next]_vars
    PROVE  Accounts'
<1> USE DEF IInv, TypeOK, Accounts, Owed
<1>1. CASE UNCHANGED vars
  BY <1>1 DEF vars, producer, group
<1>2. ASSUME NEW n \in Posts, Create(n) \/ Publishing(n)
      PROVE  Accounts'
  <2> USE DEF Create, Publishing, Send, AnswerLost, SendFails, GiveUp, Again, Over, Stored, group
  <2>1. \A m \in Messages : delivered'[m] = delivered[m] /\ losses' = losses
    BY <1>2
  <2>2. \A m \in Messages : message'[m] # message[m] => m[1] = n /\ sender[n] = "sending"
    BY <1>2, NewMessage
  <2>3. \A m \in Messages : message'[m] # message[m] => message[m] \in {"absent", "delayed"}
    BY <2>2, MessageIs DEF SendingOK
  <2>4. \A m \in Messages : Owed(m)' = Owed(m) \/ (Owed(m) = 1 /\ Owed(m)' \in {0, 1})
    BY <2>3
  <2> QED
    BY <2>1, <2>4
<1>3. ASSUME NEW m \in Messages, Release(m) \/ Consuming(m)
      PROVE  Accounts'
  BY <1>3 DEF Release, Consuming, Pull, Deliver, Consumed, Answered, producer, group
<1>4. ASSUME NEW m \in Messages, Reassign(m)
      PROVE  Accounts'
  BY <1>4 DEF Reassign, Returned, Held, producer
<1>5. ASSUME NEW c \in Consumers, Lose(c) \/ Restart(c)
      PROVE  Accounts'
  BY <1>5 DEF Lose, Restart, Returned, Held, producer
<1> QED
  BY <1>1, <1>2, <1>3, <1>4, <1>5 DEF Next

(* DeliveriesHaveCause is an invariant: a recheck is delivered at most     *)
(* once more than messages went from a consumer back to the broker.        *)
THEOREM DeliveriesAreDue == Spec => []DeliveriesHaveCause
<1>1. Init => Accounts
  BY DEF Init, Accounts, Owed
<1>2. IInv /\ Accounts /\ [Next]_vars => Accounts'
  BY NextAccounts
<1>3. IInv /\ Accounts => DeliveriesHaveCause
  BY DEF Accounts, Owed, DeliveriesHaveCause, IInv, TypeOK
<1> QED
  BY <1>1, <1>2, <1>3, Invariance, PTL DEF Spec

-----------------------------------------------------------------------------
(* The refinement of JobQueue.                                             *)

(* The four kinds of status, before a step and after it.                   *)
LEMMA StatusIs ==
    ASSUME NEW n \in Posts
    PROVE  /\ Status[n] = "new" <=> sender[n] # "over"
           /\ Status[n] = "lost" <=> sender[n] = "over" /\ Absent(n)
           /\ Status[n] = "done" <=> sender[n] = "over" /\ ~Absent(n) /\ Finished(n)
           /\ Status[n] = "queued" <=> sender[n] = "over" /\ ~Finished(n)
<1>1. Absent(n) => Finished(n)
  BY DEF Absent, Finished
<1> QED
  BY <1>1 DEF Status

LEMMA StatusIsNext ==
    ASSUME NEW n \in Posts
    PROVE  /\ Status'[n] = "new" <=> sender'[n] # "over"
           /\ Status'[n] = "lost" <=> sender'[n] = "over" /\ Absent(n)'
           /\ Status'[n] = "done" <=> sender'[n] = "over" /\ ~Absent(n)' /\ Finished(n)'
           /\ Status'[n] = "queued" <=> sender'[n] = "over" /\ ~Finished(n)'
<1>1. Absent(n)' => Finished(n)'
  BY DEF Absent, Finished
<1> QED
  BY <1>1 DEF Status

LEMMA AreFunctions ==
    /\ Status = [n \in Posts |-> Status[n]] /\ Status' = [n \in Posts |-> Status'[n]]
    /\ Deliveries = [n \in Posts |-> Deliveries[n]]
    /\ Deliveries' = [n \in Posts |-> Deliveries'[n]]
  BY DEF Status, Deliveries

(* What the messages of a post and its sender are is all that its status   *)
(* depends on.                                                             *)
LEMMA SamePost ==
    ASSUME NEW n \in Posts, sender'[n] = sender[n],
           \A m \in Copies(n) : message'[m] = message[m]
    PROVE  Status'[n] = Status[n]
<1>1. Copies(n)' = Copies(n)
  BY DEF Copies
<1>2. (Absent(n)' <=> Absent(n)) /\ (Finished(n)' <=> Finished(n))
  BY <1>1 DEF Absent, Finished
<1> QED
  BY <1>2 DEF Status

LEMMA SameDeliveries ==
    ASSUME NEW n \in Posts, \A m \in Copies(n) : delivered'[m] = delivered[m]
    PROVE  Deliveries'[n] = Deliveries[n]
  BY CopiesAre DEF Deliveries

(* A post without a copy that changes is as it was; a post all of whose    *)
(* changing copies are in the hands of the group stays queued.             *)
LEMMA QuietPosts ==
    ASSUME sender' = sender,
           \A m \in Messages :
              \/ message'[m] = message[m]
              \/ /\ message[m] \in {"delayed", "ready", "pulled", "handled"}
                 /\ message'[m] \in {"delayed", "ready", "pulled", "handled"}
    PROVE  Status' = Status
<1> SUFFICES ASSUME NEW n \in Posts PROVE Status'[n] = Status[n]
  BY AreFunctions
<1>1. CASE \A m \in Copies(n) : message'[m] = message[m]
  BY <1>1, SamePost
<1>2. CASE \E m \in Copies(n) : message'[m] # message[m]
  <2>1. ~Finished(n) /\ ~Finished(n)'
    BY <1>2, CopiesAre DEF Finished
  <2> QED
    BY <2>1, StatusIs, StatusIsNext
<1> QED
  BY <1>1, <1>2

(* One more delivery of one message is one more of its post.               *)
LEMMA OneMore ==
    ASSUME TypeOK, NEW m \in Messages, delivered' = [delivered EXCEPT ![m] = @ + 1]
    PROVE  Deliveries' = [Deliveries EXCEPT ![m[1]] = @ + 1]
<1>1. m[1] \in Posts /\ m \in Copies(m[1])
  BY MessageIs, CopiesAre
<1>2. ASSUME NEW n \in Posts, n # m[1]
      PROVE  Deliveries'[n] = Deliveries[n]
  <2>1. \A k \in Copies(n) : delivered'[k] = delivered[k]
    BY <1>2, CopiesAre DEF TypeOK
  <2> QED
    BY <2>1, SameDeliveries
<1>3. Deliveries'[m[1]] = Deliveries[m[1]] + 1
  <2> DEFINE n == m[1]
  <2>1. <<n, 1>> \in Messages /\ <<n, 2>> \in Messages /\ <<n, 3>> \in Messages
    BY <1>1, CopiesAre
  <2>2. delivered[<<n, 1>>] \in Nat /\ delivered[<<n, 2>>] \in Nat /\ delivered[<<n, 3>>] \in Nat
    BY <2>1 DEF TypeOK
  <2>3. Deliveries[n] = delivered[<<n, 1>>] + delivered[<<n, 2>>] + delivered[<<n, 3>>]
    BY <1>1 DEF Deliveries
  <2>4. Deliveries'[n] = delivered'[<<n, 1>>] + delivered'[<<n, 2>>] + delivered'[<<n, 3>>]
    BY <1>1 DEF Deliveries
  <2>5. m = <<n, 1>> \/ m = <<n, 2>> \/ m = <<n, 3>>
    BY <1>1, CopiesAre
  <2>6. \A k \in Messages : delivered'[k] = IF k = m THEN delivered[k] + 1 ELSE delivered[k]
    BY DEF TypeOK
  <2>7. <<n, 1>> # <<n, 2>> /\ <<n, 1>> # <<n, 3>> /\ <<n, 2>> # <<n, 3>>
    OBVIOUS
  <2> HIDE DEF n
  <2> QED
    BY <2>1, <2>2, <2>3, <2>4, <2>5, <2>6, <2>7
<1> QED
  BY <1>1, <1>2, <1>3, AreFunctions

LEMMA PublishingImplements ==
    ASSUME IInv, NEW n \in Posts, Create(n) \/ Publishing(n)
    PROVE  [Queue!Next]_Queue!vars
<1> USE DEF Create, Publishing, Send, AnswerLost, SendFails, GiveUp, Again, Over, Stored, group
<1>1. \A m \in Messages : m[1] # n => message'[m] = message[m]
  BY NewMessage, MessageIs DEF IInv, TypeOK
<1>2. \A i \in Posts : i # n => Status'[i] = Status[i]
  <2> SUFFICES ASSUME NEW i \in Posts, i # n PROVE Status'[i] = Status[i]
    OBVIOUS
  <2>1. \A m \in Copies(i) : message'[m] = message[m]
    BY <1>1, CopiesAre
  <2>2. sender'[i] = sender[i]
    BY DEF IInv, TypeOK
  <2> QED
    BY <2>1, <2>2, SamePost
<1>3. Deliveries' = Deliveries
  BY AreFunctions, SameDeliveries
<1>4. Status[n] = "new"
  BY StatusIs
<1>5. \A m \in Copies(n) : message'[m] \in {"absent", "delayed"}
  <2>1. \A m \in Copies(n) : message[m] \in {"absent", "delayed"}
    BY CopiesAre DEF IInv, SendingOK
  <2> QED
    BY <2>1, CopiesAre, NewMessage DEF IInv, TypeOK
<1>6. Status'[n] \in {"new", "lost", "queued"}
  BY <1>5, StatusIsNext, CopiesAre DEF Finished, Absent
<1>7. CASE Status'[n] = "new"
  BY <1>2, <1>3, <1>4, <1>7, AreFunctions DEF Queue!vars
<1>8. CASE Status'[n] \in {"lost", "queued"}
  <2>1. Status' = [Status EXCEPT ![n] = Status'[n]]
    BY <1>2, AreFunctions
  <2> QED
    BY <1>3, <1>4, <1>8, <2>1 DEF Queue!Next, Queue!Enqueue
<1> QED
  BY <1>6, <1>7, <1>8

(* A handler that comes to its end delivers a message of a queued post.    *)
LEMMA DeliveryImplements ==
    ASSUME IInv, NEW m \in Messages, message[m] = "pulled", sender' = sender,
           \A k \in Messages : message'[k] = IF k = m THEN message'[m] ELSE message[k],
           message'[m] \in {"ready", "handled"},
           delivered' = [delivered EXCEPT ![m] = @ + 1]
    PROVE  Queue!Next
<1>1. m[1] \in Posts /\ m \in Copies(m[1]) /\ sender[m[1]] = "over"
  BY MessageIs, CopiesAre DEF IInv, SendingOK
<1>2. Status[m[1]] = "queued"
  BY <1>1, StatusIs DEF Finished
<1>3. Status' = Status
  BY QuietPosts
<1>4. Deliveries' = [Deliveries EXCEPT ![m[1]] = @ + 1]
  BY OneMore DEF IInv
<1> QED
  BY <1>1, <1>2, <1>3, <1>4 DEF Queue!Next, Queue!Handle

(* The answer to the last message of a post finishes it.                   *)
LEMMA ConsumedImplements ==
    ASSUME IInv, NEW m \in Messages, Consumed(m)
    PROVE  [Queue!Next]_Queue!vars
<1> DEFINE n == m[1]
<1> USE DEF Consumed, Answered, producer
<1>1. n \in Posts /\ m \in Copies(n) /\ sender[n] = "over" /\ delivered[m] > 0
  BY MessageIs, CopiesAre DEF IInv, SendingOK, DeliveredOK
<1>2. Deliveries' = Deliveries
  BY AreFunctions, SameDeliveries
<1>3. Deliveries[n] > 0
  <2>1. <<n, 1>> \in Messages /\ <<n, 2>> \in Messages /\ <<n, 3>> \in Messages
    BY <1>1, CopiesAre
  <2>2. delivered[<<n, 1>>] \in Nat /\ delivered[<<n, 2>>] \in Nat /\ delivered[<<n, 3>>] \in Nat
    BY <2>1 DEF IInv, TypeOK
  <2>3. m = <<n, 1>> \/ m = <<n, 2>> \/ m = <<n, 3>>
    BY <1>1, CopiesAre
  <2> QED
    BY <1>1, <2>2, <2>3 DEF Deliveries
<1>4. Status[n] = "queued"
  BY <1>1, StatusIs DEF Finished
<1>5. \A i \in Posts : i # n => Status'[i] = Status[i]
  <2> SUFFICES ASSUME NEW i \in Posts, i # n PROVE Status'[i] = Status[i]
    OBVIOUS
  <2>1. \A k \in Copies(i) : message'[k] = message[k]
    BY CopiesAre DEF IInv, TypeOK
  <2> QED
    BY <2>1, SamePost
<1>6. Status'[n] \in {"queued", "done"}
  <2>1. sender'[n] = "over" /\ message'[m] = "consumed"
    BY <1>1 DEF IInv, TypeOK
  <2>2. ~Absent(n)'
    BY <1>1, <2>1 DEF Absent, Copies
  <2> QED
    BY <1>1, <2>1, <2>2, StatusIsNext
<1>7. Status' = [Status EXCEPT ![n] = Status'[n]]
  BY <1>5, AreFunctions
<1>8. CASE Status'[n] = "queued"
  BY <1>2, <1>4, <1>7, <1>8, AreFunctions DEF Queue!vars
<1>9. CASE Status'[n] = "done"
  <2>1. Queue!Finish(n)
    BY <1>2, <1>3, <1>4, <1>7, <1>9 DEF Queue!Finish
  <2> QED
    BY <1>1, <2>1 DEF Queue!Next
<1> QED
  BY <1>6, <1>8, <1>9

LEMMA ReassignImplements ==
    ASSUME IInv, NEW m \in Messages, Reassign(m)
    PROVE  [Queue!Next]_Queue!vars
<1> USE DEF Reassign, Returned, Held, producer
<1>1. sender' = sender /\ message'[m] = "ready"
  OBVIOUS
<1>2. \A k \in Messages : k # m => message'[k] = message[k]
  OBVIOUS
<1>3. CASE UNCHANGED delivered
  <2>1. Status' = Status
    BY <1>1, <1>2, QuietPosts
  <2>2. Deliveries' = Deliveries
    BY <1>3, AreFunctions, SameDeliveries
  <2> QED
    BY <2>1, <2>2 DEF Queue!vars
<1>4. CASE message[m] = "pulled" /\ delivered' = [delivered EXCEPT ![m] = @ + 1]
  BY <1>1, <1>2, <1>4, DeliveryImplements
<1> QED
  BY <1>3, <1>4

(* Steps that only move messages between the broker and its consumers.     *)
LEMMA QuietImplements ==
    ASSUME IInv,
           \/ \E m \in Messages : Release(m) \/ \E c \in Consumers : Pull(c, m)
           \/ \E c \in Consumers : Lose(c) \/ Restart(c)
           \/ UNCHANGED vars
    PROVE  UNCHANGED Queue!vars
<1> USE DEF Release, Pull, Lose, Restart, Returned, Held, vars, producer, group
<1>1. sender' = sender /\ delivered' = delivered
  OBVIOUS
<1>2. Deliveries' = Deliveries
  BY <1>1, AreFunctions, SameDeliveries
<1>3. \A m \in Messages :
          \/ message'[m] = message[m]
          \/ /\ message[m] \in {"delayed", "ready", "pulled", "handled"}
             /\ message'[m] \in {"delayed", "ready", "pulled", "handled"}
  BY DEF IInv, TypeOK
<1>4. Status' = Status
  BY <1>1, <1>3, QuietPosts
<1> QED
  BY <1>2, <1>4 DEF Queue!vars

LEMMA NextImplements ==
    ASSUME IInv, [Next]_vars
    PROVE  [Queue!Next]_Queue!vars
<1>1. ASSUME NEW m \in Messages, Deliver(m)
      PROVE  Queue!Next
  <2>1. \A k \in Messages : message'[k] = IF k = m THEN message'[m] ELSE message[k]
    BY <1>1 DEF Deliver, IInv, TypeOK
  <2>2. message'[m] = "handled"
    BY <1>1 DEF Deliver, IInv, TypeOK
  <2> QED
    BY <1>1, <2>1, <2>2, DeliveryImplements DEF Deliver, producer
<1> QED
  BY <1>1, PublishingImplements, ConsumedImplements, ReassignImplements, QuietImplements
     DEF Next, Consuming

(* KeptUntilDelivered: the delayed topic, its senders and its consumers    *)
(* implement JobQueue.                                                     *)
THEOREM Refinement == Spec => KeptUntilDelivered
<1>1. Init => Queue!Init
  <2> SUFFICES ASSUME Init PROVE Queue!Init
    OBVIOUS
  <2>1. ASSUME NEW n \in Posts PROVE Deliveries[n] = 0
    <3>1. <<n, 1>> \in Messages /\ <<n, 2>> \in Messages /\ <<n, 3>> \in Messages
      BY CopiesAre
    <3> QED
      BY <3>1 DEF Init, Deliveries
  <2>2. \A n \in Posts : Status[n] = "new"
    BY StatusIs DEF Init
  <2> QED
    BY <2>1, <2>2, AreFunctions DEF Queue!Init
<1>2. IInv /\ [Next]_vars => [Queue!Next]_Queue!vars
  BY NextImplements
<1> QED
  BY Invariance, <1>1, <1>2, PTL DEF Spec, KeptUntilDelivered, Queue!Spec

=============================================================================
