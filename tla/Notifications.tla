---------------------------- MODULE Notifications ----------------------------
(***************************************************************************)
(* The scheduled recheck of a new post over RocketMQ.  After CreatePost    *)
(* has published its event, postsvc sends a delayed message, with retries; *)
(* the broker releases it after ten seconds to the consumer group          *)
(* notification-consumer.  RocketMQ is external: it keeps a message until  *)
(* the consumer has returned, and delivers it again when the consumer is   *)
(* lost before that.                                                       *)
(***************************************************************************)
EXTENDS Integers

CONSTANTS
    Posts,         \* the posts that are created
    Consumers,     \* the processes of notification-consumer
    Faults,    \* which faults happen: "send", "answer", "consumer"
    MaxLosses,     \* bound: losses of consumers, and queues that move
    Nobody

(* producer.WithRetry(2): SendSync tries three times.                      *)
Attempts == 1 .. 3
Messages == Posts \X Attempts

ASSUME NotificationsAssumption ==
    /\ Nobody \notin Consumers
    /\ MaxLosses \in Nat

VARIABLES
    sender,      \* where PublishScheduledRecheck is, by post
    attempt,     \* the attempt it is at
    message,     \* where the message of each attempt is
    holder,      \* the consumer that handles it, or Nobody
    live,        \* the consumers that run
    delivered,   \* history: how often each message was delivered
    losses       \* how often messages went from a consumer back to the broker

producer == <<sender, attempt>>
group == <<holder, live, delivered, losses>>
vars == <<producer, message, group>>

Init ==
    /\ sender = [n \in Posts |-> "none"]
    /\ attempt = [n \in Posts |-> 1]
    /\ message = [m \in Messages |-> "absent"]
    /\ holder = [m \in Messages |-> Nobody]
    /\ live = Consumers
    /\ delivered = [m \in Messages |-> 0]
    /\ losses = 0

-----------------------------------------------------------------------------
(* postsvc: CreatePost and Producer.PublishDelayed.                        *)

Create(n) ==
    /\ sender[n] = "none"
    /\ sender' = [sender EXCEPT ![n] = "sending"]
    /\ UNCHANGED <<attempt, message, group>>

Stored(n) == message' = [message EXCEPT ![<<n, attempt[n]>>] = "delayed"]

Over(n) == sender' = [sender EXCEPT ![n] = "over"]

(* The client of RocketMQ tries again after an error, and gives up after   *)
(* the last attempt: the error is logged.                                  *)
Again(n) ==
    IF attempt[n] + 1 \in Attempts
    THEN attempt' = [attempt EXCEPT ![n] = @ + 1] /\ UNCHANGED sender
    ELSE Over(n) /\ UNCHANGED attempt

Send(n) ==
    /\ sender[n] = "sending"
    /\ Stored(n)
    /\ Over(n)
    /\ UNCHANGED <<attempt, group>>

AnswerLost(n) ==
    /\ "answer" \in Faults
    /\ sender[n] = "sending"
    /\ Stored(n)
    /\ Again(n)
    /\ UNCHANGED group

SendFails(n) ==
    /\ "send" \in Faults
    /\ sender[n] = "sending"
    /\ Again(n)
    /\ UNCHANGED <<message, group>>

(* The three seconds of the context are over, or postsvc dies.             *)
GiveUp(n) ==
    /\ sender[n] = "sending"
    /\ Over(n)
    /\ UNCHANGED <<attempt, message, group>>

-----------------------------------------------------------------------------
(* The broker and the consumer group.                                      *)

(* The delay of ten seconds is longer than the three of the sender.        *)
Release(m) ==
    /\ message[m] = "delayed"
    /\ sender[m[1]] = "over"
    /\ message' = [message EXCEPT ![m] = "ready"]
    /\ UNCHANGED <<producer, group>>

Pull(c, m) ==
    /\ c \in live /\ message[m] = "ready"
    /\ message' = [message EXCEPT ![m] = "pulled"]
    /\ holder' = [holder EXCEPT ![m] = c]
    /\ UNCHANGED <<producer, live, delivered, losses>>

(* The handler never fails: it records the delivery.                       *)
Deliver(m) ==
    /\ message[m] = "pulled"
    /\ message' = [message EXCEPT ![m] = "handled"]
    /\ delivered' = [delivered EXCEPT ![m] = @ + 1]
    /\ UNCHANGED <<producer, holder, live, losses>>

Answered(m, at) ==
    /\ message' = [message EXCEPT ![m] = at]
    /\ holder' = [holder EXCEPT ![m] = Nobody]
    /\ UNCHANGED <<producer, live, delivered, losses>>

(* Mutants of Consumed: the answer is ConsumeRetryLater; the answer does   *)
(* not wait for the handler; there is no answer.                           *)
RetryLater(m) == message[m] = "handled" /\ Answered(m, "ready")
ConsumedFirst(m) == message[m] \in {"pulled", "handled"} /\ Answered(m, "consumed")
NeverConsumed(m) == message[m] = "handled" /\ UNCHANGED vars

(* ConsumeSuccess.                                                         *)
Consumed(m) == message[m] = "handled" /\ Answered(m, "consumed")

Held(m) == message[m] \in {"pulled", "handled"}

(* The messages in S are delivered again, to whoever pulls them.           *)
Returned(S) ==
    /\ losses < MaxLosses
    /\ losses' = losses + 1
    /\ message' = [m \in Messages |-> IF m \in S THEN "ready" ELSE message[m]]
    /\ holder' = [m \in Messages |-> IF m \in S THEN Nobody ELSE holder[m]]
    /\ UNCHANGED producer

(* Mutant of Lose: the broker goes on waiting for the consumer.            *)
LoseAlone(c) ==
    /\ "consumer" \in Faults
    /\ c \in live
    /\ live' = live \ {c}
    /\ Returned({})
    /\ UNCHANGED delivered

(* The consumer dies, or is shut down while a handler runs.                *)
Lose(c) ==
    /\ "consumer" \in Faults
    /\ c \in live
    /\ live' = live \ {c}
    /\ Returned({m \in Messages : Held(m) /\ holder[m] = c})
    /\ UNCHANGED delivered

(* The group gives a queue to another consumer; the handler of the old one *)
(* may still come to its end.                                              *)
Reassign(m) ==
    /\ "consumer" \in Faults
    /\ Held(m)
    /\ Returned({m})
    /\ \/ UNCHANGED delivered
       \/ message[m] = "pulled" /\ delivered' = [delivered EXCEPT ![m] = @ + 1]
    /\ UNCHANGED live

Restart(c) ==
    /\ c \notin live
    /\ live' = live \cup {c}
    /\ UNCHANGED <<producer, message, holder, delivered, losses>>

Publishing(n) == Send(n) \/ AnswerLost(n) \/ SendFails(n) \/ GiveUp(n)
Consuming(m) == (\E c \in Consumers : Pull(c, m)) \/ Deliver(m) \/ Consumed(m)

Next ==
    \/ \E n \in Posts : Create(n) \/ Publishing(n)
    \/ \E m \in Messages : Release(m) \/ Consuming(m) \/ Reassign(m)
    \/ \E c \in Consumers : Lose(c) \/ Restart(c)

(* A message that is due is released and handled while a consumer is live, *)
(* a consumer that was lost is started again, and a send comes to its end. *)
Fairness ==
    /\ \A m \in Messages : WF_vars(Release(m)) /\ WF_vars(Consuming(m))
    /\ \A c \in Consumers : WF_vars(Restart(c))
    /\ \A n \in Posts : WF_vars(Publishing(n))

Spec == Init /\ [][Next]_vars
FairSpec == Spec /\ Fairness

-----------------------------------------------------------------------------
(* Every variable has its type: a message is held exactly while it is      *)
(* handled, and by a consumer that is live.                                *)
TypeOK ==
    /\ sender \in [Posts -> {"none", "sending", "over"}]
    /\ attempt \in [Posts -> Attempts]
    /\ message \in [Messages -> {"absent", "delayed", "ready", "pulled", "handled", "consumed"}]
    /\ holder \in [Messages -> Consumers \cup {Nobody}]
    /\ live \subseteq Consumers
    /\ \A m \in Messages : IF Held(m) THEN holder[m] \in live ELSE holder[m] = Nobody
    /\ delivered \in [Messages -> Nat]
    /\ losses \in Nat

(* A message is delivered again only because a consumer lost it before its *)
(* answer: the handler's error is the only other cause, and it returns     *)
(* none (rocketmq.go:119-128, notification-consumer main.go:53-65).        *)
DeliveriesHaveCause == \A m \in Messages : delivered[m] <= 1 + losses

(* The messages of one post as a job of JobQueue: once stored, it is kept  *)
(* until it has been delivered.                                            *)
Copies(n) == {<<n, k>> : k \in Attempts}
Absent(n) == \A m \in Copies(n) : message[m] = "absent"
Finished(n) == \A m \in Copies(n) : message[m] \in {"absent", "consumed"}
Status ==
    [n \in Posts |->
        CASE sender[n] # "over" -> "new"
          [] sender[n] = "over" /\ Absent(n) -> "lost"
          [] sender[n] = "over" /\ ~Absent(n) /\ Finished(n) -> "done"
          [] OTHER -> "queued"]
Deliveries == [n \in Posts |-> delivered[<<n, 1>>] + delivered[<<n, 2>>] + delivered[<<n, 3>>]]
Queue == INSTANCE JobQueue WITH Jobs <- Posts, status <- Status, runs <- Deliveries
KeptUntilDelivered == Queue!Spec

(* Every recheck that the broker has stored is delivered in the end.       *)
EventuallyDelivered ==
    \A m \in Messages : message[m] # "absent" ~> message[m] = "consumed" /\ delivered[m] > 0

=============================================================================
