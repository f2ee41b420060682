----------------------------- MODULE PostEvents -----------------------------
(***************************************************************************)
(* The stream of post events: postsvc publishes an event after a service   *)
(* call that succeeded, kafka.Producer writes it to a partition of the     *)
(* topic, and the processes of the consumer group analytics-consumer run   *)
(* kafka.Consumer.Consume: fetch a message, count it, commit its offset.   *)
(* The broker (partitions, offsets, the group) is external: it is modelled *)
(* as far as segmentio/kafka-go is used.                                   *)
(***************************************************************************)
EXTENDS Integers, Sequences, FiniteSets

CONSTANTS
    Handlers,    \* the request goroutines of postsvc
    Consumers,   \* the processes of the consumer group
    Partitions,  \* the partitions of post.events
    Posts,       \* the ids of the posts
    Faults,      \* which faults happen: "publish", "stop"
    MaxCalls,    \* bound: service calls that lead to an event, or should
    MaxStops,    \* bound: consumer processes that stop
    Nobody       \* no consumer

ASSUME PostEventsAssumption ==
    /\ MaxCalls \in Nat /\ MaxStops \in Nat
    /\ IsFiniteSet(Consumers)
    /\ Nobody \notin Consumers

VARIABLES
    calls,       \* the posts that service calls have changed, in their order
    toPublish,   \* the call whose event each handler has to publish, or None
    log,         \* the topic; in every message, how often it was counted
    committed,   \* the offset the group has committed, by partition
    owner,       \* the consumer each partition is assigned to
    position,    \* the offset up to which its owner has fetched
    step,        \* where each consumer is in its loop
    message,     \* the message it is at: a partition and an offset
    generation,  \* history: how often the partitions have been assigned
    stops        \* how many consumers have stopped, against MaxStops

postsvc == <<calls, toPublish>>
group == <<owner, position, generation, stops>>
vars == <<postsvc, log, committed, group, step, message>>

None == 0
NoMessage == [offset |-> 0]

Init ==
    /\ calls = <<>>
    /\ toPublish = [h \in Handlers |-> None]
    /\ log = [p \in Partitions |-> <<>>]
    /\ committed = [p \in Partitions |-> 0]
    /\ owner \in [Partitions -> Consumers]
    /\ position = [p \in Partitions |-> 0]
    /\ step = [c \in Consumers |-> "fetch"]
    /\ message = [c \in Consumers |-> NoMessage]
    /\ generation = 1
    /\ stops = 0

-----------------------------------------------------------------------------
(* postsvc.                                                                *)

(* CreatePost, UpdatePost, DeletePost: the service call has succeeded.     *)
Serve(h) ==
    /\ toPublish[h] = None
    /\ Len(calls) < MaxCalls
    /\ \E i \in Posts : calls' = Append(calls, i)
    /\ toPublish' = [toPublish EXCEPT ![h] = Len(calls) + 1]
    /\ UNCHANGED <<log, committed, group, step, message>>

(* BatchCreatePosts returns without an event.                              *)
ServeBatch(h) ==
    /\ toPublish[h] = None
    /\ Len(calls) < MaxCalls
    /\ \E i \in Posts : calls' = Append(calls, i)
    /\ UNCHANGED <<toPublish, log, committed, group, step, message>>

(* The balancer is LeastBytes, which does not look at the key.             *)
Written(h, p) ==
    log' = [log EXCEPT ![p] = Append(@, [call |-> toPublish[h], counted |-> 0])]

Publish(h, p) ==
    /\ toPublish[h] # None
    /\ Written(h, p)
    /\ toPublish' = [toPublish EXCEPT ![h] = None]
    /\ UNCHANGED <<calls, committed, group, step, message>>

(* The process dies first, or the write fails or does not end in time: the *)
(* error is logged.                                                        *)
Lose(h) ==
    /\ "publish" \in Faults
    /\ toPublish[h] # None
    /\ toPublish' = [toPublish EXCEPT ![h] = None]
    /\ UNCHANGED <<calls, log, committed, group, step, message>>

-----------------------------------------------------------------------------
(* The analytics consumer.                                                 *)

(* Mutant of Fetch: the reader runs one message ahead of the partition.    *)
FetchPastEnd(c, p) ==
    /\ step[c] = "fetch"
    /\ owner[p] = c
    /\ position[p] <= Len(log[p])
    /\ position' = [position EXCEPT ![p] = @ + 1]
    /\ message' = [message EXCEPT ![c] = [partition |-> p, offset |-> position[p] + 1]]
    /\ step' = [step EXCEPT ![c] = "handle"]
    /\ UNCHANGED <<postsvc, log, committed, owner, generation, stops>>

Fetch(c, p) ==
    /\ step[c] = "fetch"
    /\ owner[p] = c
    /\ position[p] < Len(log[p])
    /\ position' = [position EXCEPT ![p] = @ + 1]
    /\ message' = [message EXCEPT ![c] = [partition |-> p, offset |-> position[p] + 1]]
    /\ step' = [step EXCEPT ![c] = "handle"]
    /\ UNCHANGED <<postsvc, log, committed, owner, generation, stops>>

(* Every message parses: Publish writes no other, and the handler's branch *)
(* for one that does not (main.go:61-64) is never taken.                   *)
Handle(c) ==
    /\ step[c] = "handle"
    /\ LET m == message[c]
       IN  log' = [log EXCEPT ![m.partition][m.offset].counted = @ + 1]
    /\ step' = [step EXCEPT ![c] = "commit"]
    /\ UNCHANGED <<postsvc, committed, group, message>>

(* Mutant of Commit: the offset is committed before the message is handled *)
(* (the reader's ReadMessage instead of FetchMessage and CommitMessages).  *)
CommitFirst(c) ==
    /\ step[c] \in {"handle", "commit"}
    /\ LET m == message[c]
       IN  committed' = [committed EXCEPT ![m.partition] = m.offset]
    /\ IF step[c] = "handle" THEN UNCHANGED <<step, message>>
       ELSE /\ step' = [step EXCEPT ![c] = "fetch"]
            /\ message' = [message EXCEPT ![c] = NoMessage]
    /\ UNCHANGED <<postsvc, log, group>>

(* Mutant of Commit: a commit that fails sends the message back to the     *)
(* handler.                                                                *)
CommitRetries(c) ==
    /\ step[c] = "commit"
    /\ step' = [step EXCEPT ![c] = "handle"]
    /\ UNCHANGED <<postsvc, log, committed, group, message>>

(* The group coordinator checks the generation of the commit, not who owns *)
(* the partition: a commit that comes after a rebalance is accepted, and   *)
(* may set the offset back, or ends the process (Stop).                    *)
Commit(c) ==
    /\ step[c] = "commit"
    /\ LET m == message[c]
       IN  committed' = [committed EXCEPT ![m.partition] = m.offset]
    /\ step' = [step EXCEPT ![c] = "fetch"]
    /\ message' = [message EXCEPT ![c] = NoMessage]
    /\ UNCHANGED <<postsvc, log, group>>

(* Mutant of Rebalance: every owner goes on where the last one was.        *)
RebalanceInPlace(members) ==
    /\ owner' \in [Partitions -> IF members = {} THEN {Nobody} ELSE members]
    /\ generation' = generation + 1
    /\ UNCHANGED position

(* The partitions are assigned to the live members of the group, and are   *)
(* read on from the committed offsets.                                     *)
Rebalance(members) ==
    /\ owner' \in [Partitions -> IF members = {} THEN {Nobody} ELSE members]
    /\ generation' = generation + 1
    /\ position' = committed

Members == {c \in Consumers : step[c] # "down"}

(* The process is killed, or Consume returns an error and main exits.      *)
Stop(c) ==
    /\ "stop" \in Faults
    /\ stops < MaxStops
    /\ stops' = stops + 1
    /\ step[c] # "down"
    /\ step' = [step EXCEPT ![c] = "down"]
    /\ message' = [message EXCEPT ![c] = NoMessage]
    /\ Rebalance(Members \ {c})
    /\ UNCHANGED <<postsvc, log, committed>>

Restart(c) ==
    /\ step[c] = "down"
    /\ step' = [step EXCEPT ![c] = "fetch"]
    /\ Rebalance(Members \cup {c})
    /\ UNCHANGED <<postsvc, log, committed, message, stops>>

Produce(h) ==
    \/ Serve(h) \/ ServeBatch(h) \/ Lose(h)
    \/ \E p \in Partitions : Publish(h, p)

Consume(c) == (\E p \in Partitions : Fetch(c, p)) \/ Handle(c) \/ Commit(c)

Next ==
    \/ \E h \in Handlers : Produce(h)
    \/ \E c \in Consumers : Consume(c) \/ Stop(c) \/ Restart(c)

(* The loop of a live consumer runs on, and a stopped process is started   *)
(* again (the deployment restarts it).                                     *)
Fairness == \A c \in Consumers : WF_vars(Consume(c)) /\ WF_vars(Restart(c))

Spec == Init /\ [][Next]_vars
FairSpec == Spec /\ Fairness

-----------------------------------------------------------------------------
Steps == {"fetch", "handle", "commit", "down"}
Messages == [call : Nat \ {0}, counted : Nat]
Fetched == [partition : Partitions, offset : Nat \ {0}]
AtMessage(c) == step[c] \in {"handle", "commit"}

(* Every variable has its type: an event is that of a call that was made,  *)
(* and a consumer is only ever at a message that exists.                   *)
TypeOK ==
    /\ calls \in Seq(Posts)
    /\ toPublish \in [Handlers -> 0 .. Len(calls)]
    /\ log \in [Partitions -> Seq(Messages)]
    /\ \A p \in Partitions : \A o \in 1 .. Len(log[p]) : log[p][o].call <= Len(calls)
    /\ committed \in [Partitions -> Nat]
    /\ owner \in [Partitions -> Consumers \cup {Nobody}]
    /\ position \in [Partitions -> Nat]
    /\ \A p \in Partitions : committed[p] <= Len(log[p]) /\ position[p] <= Len(log[p])
    /\ step \in [Consumers -> Steps]
    /\ message \in [Consumers -> Fetched \cup {NoMessage}]
    /\ \A c \in Consumers : AtMessage(c) =>
          message[c] \in Fetched /\ message[c].offset <= Len(log[message[c].partition])
    /\ generation \in Nat /\ stops \in Nat

(* No event is skipped: whatever stops, and however the partitions move    *)
(* between the consumers, an offset is committed only when every message   *)
(* up to it has been counted (kafka.go:73-89).                             *)
CommittedWasCounted ==
    \A p \in Partitions : \A o \in 1 .. committed[p] : log[p][o].counted > 0

(* Redelivery is bounded: a message is counted at most once for every time *)
(* the partitions have been assigned, so without a rebalance the counters  *)
(* of the consumers are exact (kafka.go:73-89, analytics main.go:59-71).   *)
OncePerGeneration ==
    \A p \in Partitions : \A o \in 1 .. Len(log[p]) : log[p][o].counted <= generation

(* Every message in the topic is counted in the end.                       *)
EventuallyCounted ==
    \A p \in Partitions, o \in 1 .. MaxCalls :
        Len(log[p]) >= o ~> (Len(log[p]) >= o /\ log[p][o].counted > 0)

=============================================================================
