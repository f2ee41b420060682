-------------------------- MODULE PostEventsProofs --------------------------
(***************************************************************************)
(* No event is skipped and redelivery is bounded (CommittedWasCounted and  *)
(* OncePerGeneration), for every number of consumers, partitions, calls    *)
(* and stops.                                                              *)
(***************************************************************************)
EXTENDS PostEvents, SequenceTheorems, FiniteSetTheorems, TLAPS

USE PostEventsAssumption

Counted(p, o) == log[p][o].counted > 0

(* Consumer c holds the message (p, o) and has not counted it yet.         *)
Pending(c, p, o) ==
    step[c] = "handle" /\ message[c].partition = p /\ message[c].offset = o

(* A consumer that holds a message holds the first that may be uncounted.  *)
HeldOK(c) ==
    AtMessage(c) =>
        LET m == message[c]
        IN  /\ \A o \in 1 .. m.offset - 1 : Counted(m.partition, o)
            /\ step[c] = "commit" => Counted(m.partition, m.offset)

(* What has been fetched from p since it was assigned is counted, but for  *)
(* the message its owner holds.                                            *)
FetchedOK(p) ==
    \A o \in 1 .. position[p] :
        Counted(p, o) \/ \E c \in Consumers : owner[p] = c /\ Pending(c, p, o)

NothingSkipped ==
    /\ CommittedWasCounted
    /\ \A c \in Consumers : HeldOK(c)
    /\ \A p \in Partitions : FetchedOK(p)

(* The consumers that are about to count the message (p, o).               *)
Holders(p, o) == {c \in Consumers : Pending(c, p, o)}

(* Every assignment of the partitions lets a message be counted once: it   *)
(* has been, a consumer is about to, or the owner has not come to it yet.  *)
Left(p, o) == IF position[p] < o THEN 1 ELSE 0
RedeliveryOK ==
    /\ generation > 0
    /\ \A p \in Partitions : \A o \in 1 .. Len(log[p]) :
          log[p][o].counted + Cardinality(Holders(p, o)) + Left(p, o) <= generation

-----------------------------------------------------------------------------
(* The two actions that change the topic.                                  *)

LEMMA LogFields ==
    ASSUME TypeOK, NEW p \in Partitions
    PROVE  /\ Len(log[p]) \in Nat
           /\ \A o \in 1 .. Len(log[p]) : log[p][o] \in Messages
  BY DEF TypeOK

LEMMA WrittenLog ==
    ASSUME TypeOK, NEW h \in Handlers, NEW p \in Partitions,
           toPublish[h] # None, Written(h, p)
    PROVE  /\ log' \in [Partitions -> Seq(Messages)]
           /\ \A q \in Partitions \ {p} : log'[q] = log[q]
           /\ Len(log'[p]) = Len(log[p]) + 1
           /\ \A o \in 1 .. Len(log[p]) : log'[p][o] = log[p][o]
           /\ log'[p][Len(log[p]) + 1] = [call |-> toPublish[h], counted |-> 0]
<1> DEFINE new == [call |-> toPublish[h], counted |-> 0]
<1>1. new \in Messages
  <2>1. Len(calls) \in Nat
    BY DEF TypeOK
  <2> QED
    BY <2>1 DEF TypeOK, Messages, None
<1>2. log[p] \in Seq(Messages) /\ log' = [log EXCEPT ![p] = Append(log[p], new)]
  BY DEF TypeOK, Written
<1> HIDE DEF new
<1>3. log'[p] = Append(log[p], new) /\ \A q \in Partitions \ {p} : log'[q] = log[q]
  BY <1>2 DEF TypeOK
<1>4. /\ Append(log[p], new) \in Seq(Messages)
      /\ Len(Append(log[p], new)) = Len(log[p]) + 1
      /\ \A o \in 1 .. Len(log[p]) : Append(log[p], new)[o] = log[p][o]
      /\ Append(log[p], new)[Len(log[p]) + 1] = new
  BY <1>1, <1>2, AppendProperties
<1>5. log' \in [Partitions -> Seq(Messages)]
  BY <1>2, <1>4 DEF TypeOK
<1> QED
  BY <1>3, <1>4, <1>5 DEF new

LEMMA HandleLog ==
    ASSUME TypeOK, NEW c \in Consumers, Handle(c)
    PROVE  /\ log' \in [Partitions -> Seq(Messages)]
           /\ \A q \in Partitions : Len(log'[q]) = Len(log[q])
           /\ \A q \in Partitions : \A o \in 1 .. Len(log[q]) :
                 /\ log'[q][o].call = log[q][o].call
                 /\ log'[q][o].counted =
                       log[q][o].counted + IF Pending(c, q, o) THEN 1 ELSE 0
<1> DEFINE p == message[c].partition
           k == message[c].offset
           new == [call |-> log[p][k].call, counted |-> log[p][k].counted + 1]
<1>1. step[c] = "handle" /\ p \in Partitions /\ k \in 1 .. Len(log[p])
  <2>1. message[c] \in Fetched /\ k <= Len(log[p]) /\ step[c] = "handle"
    BY DEF Handle, TypeOK, AtMessage
  <2>2. p \in Partitions /\ k \in Nat \ {0}
    BY <2>1 DEF Fetched
  <2> QED
    BY <2>1, <2>2, LogFields
<1>2. log[p] \in Seq(Messages) /\ log[p][k] \in Messages /\ new \in Messages
  <2>1. log \in [Partitions -> Seq(Messages)]
    BY DEF TypeOK
  <2>2. log[p] \in Seq(Messages)
    BY <1>1, <2>1
  <2>3. log[p][k] \in Messages
    BY <1>1, <2>2, ElementOfSeq
  <2>4. new \in Messages
    BY <2>3 DEF Messages
  <2> QED
    BY <2>2, <2>3, <2>4
<1>3. log' = [log EXCEPT ![p] = [log[p] EXCEPT ![k] = new]]
  <2>1. \A r \in Messages :
           [r EXCEPT !.counted = @ + 1] = [call |-> r.call, counted |-> r.counted + 1]
    BY DEF Messages
  <2>2. log' = [log EXCEPT ![p] = [log[p] EXCEPT ![k] = [log[p][k] EXCEPT !.counted = @ + 1]]]
    BY DEF Handle
  <2> QED
    BY <1>2, <2>1, <2>2
<1> HIDE DEF new
<1>4. /\ [log[p] EXCEPT ![k] = new] \in Seq(Messages)
      /\ Len([log[p] EXCEPT ![k] = new]) = Len(log[p])
      /\ \A o \in 1 .. Len(log[p]) :
            [log[p] EXCEPT ![k] = new][o] = IF o = k THEN new ELSE log[p][o]
  BY <1>1, <1>2, ExceptSeq
<1>5. /\ log' \in [Partitions -> Seq(Messages)]
      /\ log'[p] = [log[p] EXCEPT ![k] = new]
      /\ \A q \in Partitions \ {p} : log'[q] = log[q]
  BY <1>1, <1>3, <1>4 DEF TypeOK
<1>6. ASSUME NEW q \in Partitions, NEW o \in 1 .. Len(log[q])
      PROVE  /\ log'[q][o].call = log[q][o].call
             /\ log'[q][o].counted = log[q][o].counted + IF Pending(c, q, o) THEN 1 ELSE 0
  <2>1. log[q][o].counted \in Nat
    BY LogFields DEF Messages
  <2>2. CASE q = p /\ o = k
    <3>1. log'[q][o] = new
      BY <1>1, <1>4, <1>5, <2>2
    <3>2. Pending(c, q, o)
      BY <1>1, <2>2 DEF Pending
    <3>3. new.call = log[q][o].call /\ new.counted = log[q][o].counted + 1
      BY <2>2 DEF new
    <3> QED
      BY <3>1, <3>2, <3>3
  <2>3. CASE ~(q = p /\ o = k)
    <3>1. log'[q][o] = log[q][o]
      BY <1>4, <1>5, <2>3
    <3> QED
      BY <2>1, <2>3, <3>1 DEF Pending
  <2> QED
    BY <2>2, <2>3
<1> QED
  BY <1>4, <1>5, <1>6

-----------------------------------------------------------------------------
(* Types.                                                                  *)

LEMMA RebalanceTypes ==
    ASSUME TypeOK, NEW members \in SUBSET Consumers, Rebalance(members)
    PROVE  /\ owner' \in [Partitions -> Consumers \cup {Nobody}]
           /\ position' = committed /\ generation' \in Nat
  BY DEF TypeOK, Rebalance

LEMMA TypeStep == TypeOK /\ [Next]_vars => TypeOK'
<1> SUFFICES ASSUME TypeOK, [Next]_vars PROVE TypeOK'
  OBVIOUS
<1> USE DEF postsvc, group
<1>0. Len(calls) \in Nat /\ \A p \in Partitions : Len(log[p]) \in Nat
  BY LogFields DEF TypeOK
<1>1. ASSUME NEW h \in Handlers, Serve(h)  PROVE TypeOK'
  <2>1. calls' \in Seq(Posts) /\ Len(calls') = Len(calls) + 1
    BY <1>1, AppendProperties DEF Serve, TypeOK
  <2>2. toPublish' \in [Handlers -> 0 .. Len(calls')]
    BY <1>0, <1>1, <2>1 DEF Serve, TypeOK
  <2>3. \A p \in Partitions : \A o \in 1 .. Len(log[p]) : log[p][o].call <= Len(calls')
    BY <1>0, <2>1, LogFields DEF TypeOK, Messages
  <2> QED
    BY <1>1, <2>1, <2>2, <2>3 DEF Serve, TypeOK, AtMessage
<1>2. ASSUME NEW h \in Handlers, ServeBatch(h)  PROVE TypeOK'
  <2>1. calls' \in Seq(Posts) /\ Len(calls') = Len(calls) + 1
    BY <1>2, AppendProperties DEF ServeBatch, TypeOK
  <2>2. toPublish' \in [Handlers -> 0 .. Len(calls')]
    BY <1>0, <1>2, <2>1 DEF ServeBatch, TypeOK
  <2>3. \A p \in Partitions : \A o \in 1 .. Len(log[p]) : log[p][o].call <= Len(calls')
    BY <1>0, <2>1, LogFields DEF TypeOK, Messages
  <2> QED
    BY <1>2, <2>1, <2>2, <2>3 DEF ServeBatch, TypeOK, AtMessage
<1>3. ASSUME NEW h \in Handlers, Lose(h)  PROVE TypeOK'
  BY <1>0, <1>3 DEF Lose, TypeOK, AtMessage, None
<1>4. ASSUME NEW h \in Handlers, NEW p \in Partitions, Publish(h, p)  PROVE TypeOK'
  <2>1. /\ log' \in [Partitions -> Seq(Messages)]
        /\ \A q \in Partitions \ {p} : log'[q] = log[q]
        /\ Len(log'[p]) = Len(log[p]) + 1
        /\ \A o \in 1 .. Len(log[p]) : log'[p][o] = log[p][o]
        /\ log'[p][Len(log[p]) + 1] = [call |-> toPublish[h], counted |-> 0]
    BY <1>4, WrittenLog DEF Publish
  <2>2. \A q \in Partitions : Len(log[q]) <= Len(log'[q]) /\ Len(log'[q]) \in Nat
    BY <1>0, <2>1
  <2>3. ASSUME NEW q \in Partitions, NEW o \in 1 .. Len(log'[q])
        PROVE  log'[q][o].call <= Len(calls)
    <3>1. CASE q # p
      BY <2>1, <2>3, <3>1 DEF TypeOK
    <3>2. CASE q = p /\ o \in 1 .. Len(log[p])
      BY <2>1, <2>3, <3>2 DEF TypeOK
    <3>3. CASE q = p /\ o = Len(log[p]) + 1
      BY <1>0, <2>1, <3>3 DEF TypeOK
    <3> QED
      BY <1>0, <2>1, <2>3, <3>1, <3>2, <3>3
  <2>4. toPublish' \in [Handlers -> 0 .. Len(calls)]
    BY <1>0, <1>4 DEF Publish, TypeOK, None
  <2>5. \A q \in Partitions : committed[q] <= Len(log'[q]) /\ position[q] <= Len(log'[q])
    BY <1>0, <2>2 DEF TypeOK
  <2>6. \A c \in Consumers : AtMessage(c) =>
           message[c] \in Fetched /\ message[c].offset <= Len(log'[message[c].partition])
    BY <1>0, <2>2 DEF TypeOK, Fetched
  <2> QED
    BY <1>4, <2>1, <2>3, <2>4, <2>5, <2>6 DEF Publish, TypeOK, AtMessage
<1>5. ASSUME NEW c \in Consumers, NEW p \in Partitions, Fetch(c, p)  PROVE TypeOK'
  <2>1. position[p] \in Nat /\ position[p] + 1 <= Len(log[p])
    BY <1>0, <1>5 DEF Fetch, TypeOK
  <2>2. message'[c] = [partition |-> p, offset |-> position[p] + 1] /\ message'[c] \in Fetched
    BY <1>5, <2>1 DEF Fetch, TypeOK, Fetched
  <2>3. /\ message' \in [Consumers -> Fetched \cup {NoMessage}]
        /\ \A d \in Consumers \ {c} : message'[d] = message[d] /\ step'[d] = step[d]
    BY <1>5, <2>2 DEF Fetch, TypeOK
  <2>4. /\ position' \in [Partitions -> Nat]
        /\ \A q \in Partitions : position'[q] <= Len(log[q])
    BY <1>0, <1>5, <2>1 DEF Fetch, TypeOK
  <2>5. step' \in [Consumers -> Steps]
    BY <1>5 DEF Fetch, TypeOK, Steps
  <2>6. ASSUME NEW d \in Consumers, AtMessage(d)'
        PROVE  message'[d] \in Fetched /\ message'[d].offset <= Len(log[message'[d].partition])
    <3>1. CASE d = c
      BY <2>1, <2>2, <3>1
    <3>2. CASE d # c
      BY <2>3, <2>6, <3>2 DEF TypeOK, AtMessage
    <3> QED
      BY <3>1, <3>2
  <2> QED
    BY <1>5, <2>3, <2>4, <2>5, <2>6 DEF Fetch, TypeOK
<1>6. ASSUME NEW c \in Consumers, Handle(c)  PROVE TypeOK'
  <2>1. /\ log' \in [Partitions -> Seq(Messages)]
        /\ \A q \in Partitions : Len(log'[q]) = Len(log[q])
        /\ \A q \in Partitions : \A o \in 1 .. Len(log[q]) : log'[q][o].call = log[q][o].call
    BY <1>6, HandleLog
  <2>2. \A q \in Partitions : \A o \in 1 .. Len(log'[q]) : log'[q][o].call <= Len(calls)
    BY <2>1 DEF TypeOK
  <2>3. step' \in [Consumers -> Steps] /\ \A d \in Consumers : AtMessage(d)' <=> AtMessage(d)
    BY <1>6 DEF Handle, TypeOK, Steps, AtMessage
  <2>4. \A d \in Consumers : AtMessage(d) =>
           message[d] \in Fetched /\ message[d].offset <= Len(log'[message[d].partition])
    BY <2>1 DEF TypeOK, Fetched
  <2> QED
    BY <1>6, <2>1, <2>2, <2>3, <2>4 DEF Handle, TypeOK
<1>7. ASSUME NEW c \in Consumers, Commit(c)  PROVE TypeOK'
  <2>1. message[c] \in Fetched /\ message[c].offset <= Len(log[message[c].partition])
    BY <1>7 DEF Commit, TypeOK, AtMessage
  <2>2. /\ committed' \in [Partitions -> Nat]
        /\ \A p \in Partitions : committed'[p] <= Len(log[p])
    BY <1>7, <2>1 DEF Commit, TypeOK, Fetched
  <2>3. /\ step' \in [Consumers -> Steps]
        /\ message' \in [Consumers -> Fetched \cup {NoMessage}]
        /\ \A d \in Consumers : AtMessage(d)' => AtMessage(d) /\ message'[d] = message[d]
    BY <1>7 DEF Commit, TypeOK, Steps, AtMessage
  <2> QED
    BY <1>7, <2>2, <2>3 DEF Commit, TypeOK
<1>8. ASSUME NEW c \in Consumers, Stop(c)  PROVE TypeOK'
  <2>1. /\ owner' \in [Partitions -> Consumers \cup {Nobody}]
        /\ position' = committed /\ generation' \in Nat
    BY <1>8, RebalanceTypes DEF Stop, Members
  <2>2. /\ step' \in [Consumers -> Steps]
        /\ message' \in [Consumers -> Fetched \cup {NoMessage}]
        /\ \A d \in Consumers : AtMessage(d)' => AtMessage(d) /\ message'[d] = message[d]
    BY <1>8 DEF Stop, TypeOK, Steps, AtMessage
  <2> QED
    BY <1>8, <2>1, <2>2 DEF Stop, TypeOK
<1>9. ASSUME NEW c \in Consumers, Restart(c)  PROVE TypeOK'
  <2>1. /\ owner' \in [Partitions -> Consumers \cup {Nobody}]
        /\ position' = committed /\ generation' \in Nat
    BY <1>9, RebalanceTypes DEF Restart, Members
  <2>2. /\ step' \in [Consumers -> Steps]
        /\ \A d \in Consumers : AtMessage(d)' => AtMessage(d)
    BY <1>9 DEF Restart, TypeOK, Steps, AtMessage
  <2> QED
    BY <1>9, <2>1, <2>2 DEF Restart, TypeOK
<1>10. CASE UNCHANGED vars
  BY <1>10 DEF vars, TypeOK, AtMessage
<1> QED
  BY <1>1, <1>2, <1>3, <1>4, <1>5, <1>6, <1>7, <1>8, <1>9, <1>10 DEF Next, Produce, Consume

LEMMA TypeInit == Init => TypeOK
<1> SUFFICES ASSUME Init PROVE TypeOK
  OBVIOUS
<1>1. calls = <<>> /\ \A p \in Partitions : log[p] = <<>>
  BY DEF Init
<1>2. log \in [Partitions -> Seq(Messages)] /\ \A p \in Partitions : Len(log[p]) = 0
  BY <1>1 DEF Init
<1> QED
  BY <1>1, <1>2 DEF Init, TypeOK, None, Steps, AtMessage

(* Every variable has its type.                                            *)
THEOREM TypeCorrect == Spec => []TypeOK
  BY TypeInit, TypeStep, PTL DEF Spec

-----------------------------------------------------------------------------
(* No event is skipped.                                                    *)

(* What a step does to a message that is in the topic.                     *)
LEMMA CountedStays ==
    ASSUME TypeOK, [Next]_vars
    PROVE  \A p \in Partitions : \A o \in 1 .. Len(log[p]) : Counted(p, o) => Counted(p, o)'
<1> USE DEF Counted
<1>1. CASE log' = log
  BY <1>1
<1>2. ASSUME NEW h \in Handlers, NEW q \in Partitions, Publish(h, q)
      PROVE  \A p \in Partitions : \A o \in 1 .. Len(log[p]) : log'[p][o] = log[p][o]
  BY <1>2, WrittenLog DEF Publish
<1>3. ASSUME NEW c \in Consumers, Handle(c)
      PROVE  \A p \in Partitions : \A o \in 1 .. Len(log[p]) : Counted(p, o) => Counted(p, o)'
  <2> TAKE p \in Partitions
  <2> TAKE o \in 1 .. Len(log[p])
  <2>1. log[p][o].counted \in Nat
    BY LogFields DEF Messages
  <2> QED
    BY <1>3, <2>1, HandleLog
<1>4. \/ log' = log
      \/ \E h \in Handlers, q \in Partitions : Publish(h, q)
      \/ \E c \in Consumers : Handle(c)
  BY DEF Next, Produce, Consume, Serve, ServeBatch, Lose, Fetch, Commit, Stop, Restart,
         vars, postsvc, group
<1> QED
  BY <1>1, <1>2, <1>3, <1>4

LEMMA NothingSkippedInit == Init => NothingSkipped
  BY DEF Init, NothingSkipped, CommittedWasCounted, HeldOK, AtMessage, FetchedOK

LEMMA NothingSkippedStep == TypeOK /\ NothingSkipped /\ [Next]_vars => NothingSkipped'
<1> SUFFICES ASSUME TypeOK, NothingSkipped, [Next]_vars PROVE NothingSkipped'
  OBVIOUS
<1> USE DEF postsvc, group
<1>a. /\ \A p \in Partitions : Len(log[p]) \in Nat
      /\ \A p \in Partitions : \A o \in 1 .. Len(log[p]) : Counted(p, o) => Counted(p, o)'
  BY CountedStays, LogFields
<1>b. \A p \in Partitions : /\ committed[p] \in Nat /\ committed[p] <= Len(log[p])
                            /\ position[p] \in Nat /\ position[p] <= Len(log[p])
  BY DEF TypeOK
<1>c. \A c \in Consumers : AtMessage(c) =>
         /\ message[c].partition \in Partitions
         /\ message[c].offset \in Nat \ {0}
         /\ message[c].offset <= Len(log[message[c].partition])
  BY DEF TypeOK, Fetched
\* What is counted stays counted, so the parts hold wherever nothing moves.
<1>d. \A p \in Partitions : \A o \in 1 .. committed[p] : Counted(p, o)'
  BY <1>a, <1>b DEF NothingSkipped, CommittedWasCounted, Counted
<1>e. ASSUME NEW c \in Consumers, AtMessage(c), step'[c] = step[c], message'[c] = message[c]
      PROVE  HeldOK(c)'
  <2>1. HeldOK(c)
    BY DEF NothingSkipped
  <2>2. /\ \A o \in 1 .. message[c].offset - 1 : Counted(message[c].partition, o)'
        /\ step[c] = "commit" => Counted(message[c].partition, message[c].offset)'
    BY <1>a, <1>c, <1>e, <2>1 DEF HeldOK
  <2> QED
    BY <1>e, <2>2 DEF HeldOK, Counted
<1>f. ASSUME NEW p \in Partitions, owner' = owner, position' = position,
             \A c \in Consumers : \A o \in 1 .. Len(log[p]) :
                 Pending(c, p, o) => Pending(c, p, o)' \/ Counted(p, o)'
      PROVE  FetchedOK(p)'
  <2>1. FetchedOK(p)
    BY DEF NothingSkipped
  <2>2. \A o \in 1 .. position[p] : o \in 1 .. Len(log[p])
    BY <1>b
  <2> QED
    BY <1>a, <1>f, <2>1, <2>2 DEF FetchedOK
<1>g. ASSUME position' = committed
      PROVE  \A p \in Partitions : FetchedOK(p)'
  BY <1>d, <1>g DEF FetchedOK
<1>1. CASE UNCHANGED <<committed, group, step, message>>
  <2>1. CommittedWasCounted'
    BY <1>1, <1>d DEF CommittedWasCounted, Counted
  <2>2. \A c \in Consumers : HeldOK(c)'
    BY <1>1, <1>e DEF HeldOK, AtMessage
  <2>3. \A p \in Partitions : FetchedOK(p)'
    BY <1>1, <1>f DEF Pending
  <2> QED
    BY <2>1, <2>2, <2>3 DEF NothingSkipped
<1>2. ASSUME NEW c \in Consumers, NEW p \in Partitions, Fetch(c, p)
      PROVE  NothingSkipped'
  <2>1. CommittedWasCounted'
    BY <1>2, <1>d DEF Fetch, CommittedWasCounted, Counted
  <2>2. /\ message'[c] = [partition |-> p, offset |-> position[p] + 1]
        /\ step'[c] = "handle"
        /\ \A d \in Consumers \ {c} : message'[d] = message[d] /\ step'[d] = step[d]
    BY <1>2 DEF Fetch, TypeOK
  <2>3. \A o \in 1 .. position[p] : Counted(p, o)'
    <3>1. FetchedOK(p) /\ ~ \E o \in Nat : Pending(c, p, o)
      BY <1>2 DEF NothingSkipped, Fetch, Pending
    <3> QED
      BY <1>2, <1>a, <1>b, <3>1 DEF FetchedOK, Fetch
  <2>4. ASSUME NEW d \in Consumers  PROVE HeldOK(d)'
    <3>1. CASE d = c
      BY <1>b, <2>2, <2>3, <3>1 DEF HeldOK, Counted
    <3>2. CASE d # c
      BY <1>e, <2>2, <3>2 DEF HeldOK, AtMessage
    <3> QED
      BY <3>1, <3>2
  <2>5. ASSUME NEW q \in Partitions  PROVE FetchedOK(q)'
    <3>1. CASE q = p
      <4>1. position'[p] = position[p] + 1 /\ owner'[p] = c
        BY <1>2 DEF Fetch, TypeOK
      <4> QED
        BY <1>b, <2>2, <2>3, <3>1, <4>1 DEF FetchedOK, Pending
    <3>2. CASE q # p
      <4>1. position'[q] = position[q] /\ owner' = owner
        BY <1>2, <3>2 DEF Fetch, TypeOK
      <4>2. \A d \in Consumers, o \in Nat : Pending(d, q, o) => Pending(d, q, o)'
        BY <1>2, <2>2 DEF Pending, Fetch
      <4>3. FetchedOK(q) /\ \A o \in 1 .. position[q] : o \in Nat /\ o \in 1 .. Len(log[q])
        BY <1>b DEF NothingSkipped
      <4> QED
        BY <1>a, <4>1, <4>2, <4>3 DEF FetchedOK, Pending
    <3> QED
      BY <3>1, <3>2
  <2> QED
    BY <2>1, <2>4, <2>5 DEF NothingSkipped
<1>3. ASSUME NEW c \in Consumers, Handle(c)  PROVE NothingSkipped'
  <2>1. CommittedWasCounted'
    BY <1>3, <1>d DEF Handle, CommittedWasCounted, Counted
  <2>2. /\ step[c] = "handle" /\ step'[c] = "commit" /\ message' = message
        /\ \A d \in Consumers \ {c} : step'[d] = step[d]
    BY <1>3 DEF Handle, TypeOK
  <2>3. \A p \in Partitions : \A o \in 1 .. Len(log[p]) : Pending(c, p, o) => Counted(p, o)'
    <3> TAKE p \in Partitions
    <3> TAKE o \in 1 .. Len(log[p])
    <3>1. log[p][o].counted \in Nat
      BY LogFields DEF Messages
    <3> QED
      BY <1>3, <3>1, HandleLog DEF Counted
  <2>4. ASSUME NEW d \in Consumers  PROVE HeldOK(d)'
    <3>1. CASE d = c
      <4>1. /\ AtMessage(c) /\ HeldOK(c)
            /\ Pending(c, message[c].partition, message[c].offset)
        BY <2>2 DEF AtMessage, NothingSkipped, Pending
      <4>2. /\ \A o \in 1 .. message[c].offset - 1 : Counted(message[c].partition, o)'
            /\ Counted(message[c].partition, message[c].offset)'
        BY <1>a, <1>c, <2>2, <2>3, <4>1 DEF HeldOK
      <4> QED
        BY <2>2, <3>1, <4>2 DEF HeldOK, Counted
    <3>2. CASE d # c
      BY <1>e, <2>2, <3>2 DEF HeldOK, AtMessage
    <3> QED
      BY <3>1, <3>2
  <2>5. \A p \in Partitions : FetchedOK(p)'
    <3> TAKE p \in Partitions
    <3>1. \A d \in Consumers : \A o \in 1 .. Len(log[p]) :
             Pending(d, p, o) => Pending(d, p, o)' \/ Counted(p, o)'
      BY <2>2, <2>3 DEF Pending
    <3>2. owner' = owner /\ position' = position
      BY <1>3 DEF Handle
    <3> QED
      BY <1>f, <3>1, <3>2
  <2> QED
    BY <2>1, <2>4, <2>5 DEF NothingSkipped
<1>4. ASSUME NEW c \in Consumers, Commit(c)  PROVE NothingSkipped'
  <2>1. /\ step[c] = "commit" /\ step'[c] = "fetch" /\ log' = log
        /\ \A d \in Consumers \ {c} : message'[d] = message[d] /\ step'[d] = step[d]
        /\ owner' = owner /\ position' = position
    BY <1>4 DEF Commit, TypeOK
  <2>2. /\ message[c].partition \in Partitions /\ message[c].offset \in Nat \ {0}
        /\ \A o \in 1 .. message[c].offset : Counted(message[c].partition, o)
    BY <1>c, <2>1 DEF NothingSkipped, HeldOK, AtMessage
  <2>3. CommittedWasCounted'
    <3> SUFFICES ASSUME NEW p \in Partitions, NEW o \in 1 .. committed'[p]
                 PROVE  Counted(p, o)
      BY <2>1 DEF CommittedWasCounted, Counted
    <3>1. committed'[p] = IF p = message[c].partition THEN message[c].offset ELSE committed[p]
      BY <1>4 DEF Commit, TypeOK
    <3> QED
      BY <2>2, <3>1 DEF NothingSkipped, CommittedWasCounted, Counted
  <2>4. ASSUME NEW d \in Consumers  PROVE HeldOK(d)'
    <3>1. CASE d = c
      BY <2>1, <3>1 DEF HeldOK, AtMessage
    <3>2. CASE d # c
      BY <1>e, <2>1, <3>2 DEF HeldOK, AtMessage
    <3> QED
      BY <3>1, <3>2
  <2>5. \A p \in Partitions : FetchedOK(p)'
    BY <1>f, <2>1 DEF Pending
  <2> QED
    BY <2>3, <2>4, <2>5 DEF NothingSkipped
<1>5. ASSUME NEW c \in Consumers, Stop(c) \/ Restart(c)  PROVE NothingSkipped'
  <2>1. /\ committed' = committed /\ position' = committed
        /\ step'[c] \in {"down", "fetch"}
        /\ \A d \in Consumers \ {c} : message'[d] = message[d] /\ step'[d] = step[d]
    BY <1>5 DEF Stop, Restart, Rebalance, TypeOK
  <2>2. CommittedWasCounted'
    BY <2>1, <1>d DEF CommittedWasCounted, Counted
  <2>3. ASSUME NEW d \in Consumers  PROVE HeldOK(d)'
    BY <1>e, <2>1 DEF HeldOK, AtMessage
  <2> QED
    BY <1>g, <2>1, <2>2, <2>3 DEF NothingSkipped
<1> QED
  BY <1>1, <1>2, <1>3, <1>4, <1>5
     DEF Next, Produce, Consume, Serve, ServeBatch, Lose, Publish, vars

(* No event is skipped: a committed offset has only counted messages below *)
(* it, whatever stops and however the partitions move (kafka.go:73-89).    *)
THEOREM NoEventSkipped == Spec => []CommittedWasCounted
<1>1. Init => TypeOK /\ NothingSkipped
  BY TypeInit, NothingSkippedInit
<1>2. TypeOK /\ NothingSkipped /\ [Next]_vars => (TypeOK /\ NothingSkipped)'
  BY TypeStep, NothingSkippedStep
<1>3. NothingSkipped => CommittedWasCounted
  BY DEF NothingSkipped
<1> QED
  BY <1>1, <1>2, <1>3, PTL DEF Spec

-----------------------------------------------------------------------------
(* Redelivery is bounded.                                                  *)

LEMMA HoldersFinite ==
    ASSUME NEW p, NEW o
    PROVE  /\ IsFiniteSet(Holders(p, o)) /\ Cardinality(Holders(p, o)) \in Nat
           /\ IsFiniteSet(Holders(p, o)') /\ Cardinality(Holders(p, o)') \in Nat
<1>1. Holders(p, o) \subseteq Consumers /\ Holders(p, o)' \subseteq Consumers
  BY DEF Holders
<1> QED
  BY <1>1, FS_Subset, FS_CardinalityType

(* Nobody holds a message that is not in the topic yet.                    *)
LEMMA HeldIsInTopic ==
    ASSUME TypeOK, NEW p \in Partitions
    PROVE  Holders(p, Len(log[p]) + 1) = {}
<1>1. ASSUME NEW c \in Consumers, Pending(c, p, Len(log[p]) + 1)  PROVE FALSE
  <2>1. message[c].offset <= Len(log[p]) /\ Len(log[p]) \in Nat
    BY <1>1, LogFields DEF TypeOK, Pending, AtMessage
  <2> QED
    BY <1>1, <2>1 DEF Pending
<1> QED
  BY <1>1 DEF Holders

LEMMA RedeliveryInit == Init => RedeliveryOK
<1> SUFFICES ASSUME Init PROVE RedeliveryOK
  OBVIOUS
<1>1. \A p \in Partitions : Len(log[p]) = 0
  BY DEF Init
<1> QED
  BY <1>1 DEF Init, RedeliveryOK

LEMMA RedeliveryStep == TypeOK /\ RedeliveryOK /\ [Next]_vars => RedeliveryOK'
<1> SUFFICES ASSUME TypeOK, RedeliveryOK, [Next]_vars PROVE RedeliveryOK'
  OBVIOUS
<1> USE DEF postsvc, group
<1>a. /\ generation \in Nat /\ generation > 0
      /\ \A p \in Partitions : position[p] \in Nat /\ Len(log[p]) \in Nat
      /\ \A p \in Partitions : position[p] <= Len(log[p])
  BY LogFields DEF TypeOK, RedeliveryOK
<1>b. \A p \in Partitions : \A o \in 1 .. Len(log[p]) :
         /\ log[p][o].counted \in Nat
         /\ log[p][o].counted + Cardinality(Holders(p, o)) + Left(p, o) <= generation
  BY LogFields DEF Messages, RedeliveryOK
<1>1. CASE UNCHANGED <<log, group>> /\ \A p, o : Holders(p, o)' = Holders(p, o)
  BY <1>1 DEF RedeliveryOK, Left
<1>2. ASSUME NEW h \in Handlers, NEW q \in Partitions, Publish(h, q)
      PROVE  RedeliveryOK'
  <2>1. /\ \A p \in Partitions \ {q} : log'[p] = log[p]
        /\ Len(log'[q]) = Len(log[q]) + 1
        /\ \A o \in 1 .. Len(log[q]) : log'[q][o] = log[q][o]
        /\ log'[q][Len(log[q]) + 1] = [call |-> toPublish[h], counted |-> 0]
    BY <1>2, WrittenLog DEF Publish
  <2>2. \A p, o : Holders(p, o)' = Holders(p, o) /\ Left(p, o)' = Left(p, o)
    BY <1>2 DEF Publish, Holders, Pending, Left
  <2>3. ASSUME NEW p \in Partitions, NEW o \in 1 .. Len(log'[p])
        PROVE  log'[p][o].counted + Cardinality(Holders(p, o)) + Left(p, o) <= generation
    <3>1. CASE o \in 1 .. Len(log[p])
      <4>1. log'[p][o] = log[p][o]
        BY <2>1, <3>1
      <4> QED
        BY <1>b, <3>1, <4>1
    <3>2. CASE p = q /\ o = Len(log[q]) + 1
      <4>1. Holders(p, o) = {} /\ log'[p][o].counted = 0
        BY <2>1, <3>2, HeldIsInTopic
      <4>2. Cardinality(Holders(p, o)) = 0
        BY <4>1, FS_EmptySet
      <4> QED
        BY <1>a, <4>1, <4>2 DEF Left
    <3> QED
      BY <1>a, <2>1, <2>3, <3>1, <3>2
  <2>4. generation' = generation
    BY <1>2 DEF Publish
  <2> QED
    BY <1>a, <2>2, <2>3, <2>4 DEF RedeliveryOK
<1>3. ASSUME NEW c \in Consumers, NEW q \in Partitions, Fetch(c, q)
      PROVE  RedeliveryOK'
  <2>1. /\ step[c] = "fetch" /\ step'[c] = "handle"
        /\ message'[c] = [partition |-> q, offset |-> position[q] + 1]
        /\ \A d \in Consumers \ {c} : message'[d] = message[d] /\ step'[d] = step[d]
        /\ position'[q] = position[q] + 1
        /\ \A p \in Partitions \ {q} : position'[p] = position[p]
        /\ log' = log /\ generation' = generation
    BY <1>3 DEF Fetch, TypeOK
  <2>2. ASSUME NEW p \in Partitions, NEW o \in 1 .. Len(log[p])
        PROVE  log[p][o].counted + Cardinality(Holders(p, o)') + Left(p, o)' <= generation
    <3>1. CASE p = q /\ o = position[q] + 1
      <4>1. Holders(p, o)' = Holders(p, o) \cup {c} /\ c \notin Holders(p, o)
        BY <2>1, <3>1 DEF Holders, Pending
      <4>2. Cardinality(Holders(p, o)') = Cardinality(Holders(p, o)) + 1
        BY <4>1, HoldersFinite, FS_AddElement
      <4>3. Left(p, o) = 1 /\ Left(p, o)' = 0
        BY <1>a, <2>1, <3>1 DEF Left
      <4>4. /\ log[p][o].counted \in Nat /\ Cardinality(Holders(p, o)) \in Nat
            /\ log[p][o].counted + Cardinality(Holders(p, o)) + 1 <= generation
        BY <1>b, <4>3, HoldersFinite
      <4> QED
        BY <1>a, <4>2, <4>3, <4>4
    <3>2. CASE ~(p = q /\ o = position[q] + 1)
      <4>1. Holders(p, o)' = Holders(p, o)
        BY <2>1, <3>2 DEF Holders, Pending
      <4>2. Left(p, o)' = Left(p, o)
        BY <1>a, <2>1, <3>2 DEF Left
      <4> QED
        BY <1>b, <4>1, <4>2
    <3> QED
      BY <3>1, <3>2
  <2> QED
    BY <1>a, <2>1, <2>2 DEF RedeliveryOK
<1>4. ASSUME NEW c \in Consumers, Handle(c)  PROVE RedeliveryOK'
  <2>1. /\ step[c] = "handle" /\ step'[c] = "commit" /\ message' = message
        /\ \A d \in Consumers \ {c} : step'[d] = step[d]
        /\ position' = position /\ generation' = generation
    BY <1>4 DEF Handle, TypeOK
  <2>2. ASSUME NEW p \in Partitions, NEW o \in 1 .. Len(log[p])
        PROVE  log'[p][o].counted + Cardinality(Holders(p, o)') + Left(p, o)' <= generation
    <3>1. log'[p][o].counted = log[p][o].counted + IF Pending(c, p, o) THEN 1 ELSE 0
      BY <1>4, HandleLog
    <3>2. Left(p, o)' = Left(p, o) /\ Left(p, o) \in 0 .. 1
      BY <2>1 DEF Left
    <3>3. CASE Pending(c, p, o)
      <4>1. Holders(p, o)' = Holders(p, o) \ {c} /\ c \in Holders(p, o)
        BY <2>1, <3>3 DEF Holders, Pending
      <4>2. Cardinality(Holders(p, o)') = Cardinality(Holders(p, o)) - 1
        BY <4>1, HoldersFinite, FS_RemoveElement
      <4> QED
        BY <1>b, <3>1, <3>2, <3>3, <4>2, HoldersFinite
    <3>4. CASE ~ Pending(c, p, o)
      <4>1. Holders(p, o)' = Holders(p, o)
        BY <2>1, <3>4 DEF Holders, Pending
      <4> QED
        BY <1>b, <3>1, <3>2, <3>4, <4>1
    <3> QED
      BY <3>3, <3>4
  <2>3. \A p \in Partitions : Len(log'[p]) = Len(log[p])
    BY <1>4, HandleLog
  <2> QED
    BY <1>a, <2>1, <2>2, <2>3 DEF RedeliveryOK
<1>5. ASSUME NEW c \in Consumers, Stop(c) \/ Restart(c)  PROVE RedeliveryOK'
  <2>1. /\ log' = log /\ generation' = generation + 1
        /\ step'[c] # "handle"
        /\ \A d \in Consumers \ {c} : message'[d] = message[d] /\ step'[d] = step[d]
    BY <1>5 DEF Stop, Restart, Rebalance, TypeOK
  <2>2. ASSUME NEW p \in Partitions, NEW o \in 1 .. Len(log[p])
        PROVE  log[p][o].counted + Cardinality(Holders(p, o)') + Left(p, o)' <= generation + 1
    <3>1. Holders(p, o)' \subseteq Holders(p, o)
      BY <2>1 DEF Holders, Pending
    <3>2. Cardinality(Holders(p, o)') <= Cardinality(Holders(p, o))
      BY <3>1, HoldersFinite, FS_Subset
    <3>3. Left(p, o)' \in 0 .. 1 /\ Left(p, o) \in 0 .. 1
      BY DEF Left
    <3> QED
      BY <1>a, <1>b, <3>2, <3>3, HoldersFinite
  <2> QED
    BY <1>a, <2>1, <2>2 DEF RedeliveryOK
<1>6. ASSUME NEW c \in Consumers, Commit(c)  PROVE RedeliveryOK'
  <2>1. /\ step[c] = "commit" /\ step'[c] = "fetch" /\ UNCHANGED <<log, group>>
        /\ \A d \in Consumers \ {c} : message'[d] = message[d] /\ step'[d] = step[d]
    BY <1>6 DEF Commit, TypeOK
  <2>2. \A p, o : Holders(p, o)' = Holders(p, o)
    BY <2>1 DEF Holders, Pending
  <2> QED
    BY <1>1, <2>1, <2>2
<1>7. CASE UNCHANGED <<log, group, step, message>>
  <2>1. \A p, o : Holders(p, o)' = Holders(p, o)
    BY <1>7 DEF Holders, Pending
  <2> QED
    BY <1>1, <1>7, <2>1
<1> QED
  BY <1>2, <1>3, <1>4, <1>5, <1>6, <1>7
     DEF Next, Produce, Consume, Serve, ServeBatch, Lose, vars

(* Redelivery is bounded: a message is counted at most once for every time *)
(* the partitions have been assigned (kafka.go:73-89).                     *)
THEOREM RedeliveryIsBounded == Spec => []OncePerGeneration
<1>1. Init => TypeOK /\ RedeliveryOK
  BY TypeInit, RedeliveryInit
<1>2. TypeOK /\ RedeliveryOK /\ [Next]_vars => (TypeOK /\ RedeliveryOK)'
  BY TypeStep, RedeliveryStep
<1>3. TypeOK /\ RedeliveryOK => OncePerGeneration
  <2> SUFFICES ASSUME TypeOK, RedeliveryOK,
                      NEW p \in Partitions, NEW o \in 1 .. Len(log[p])
               PROVE  log[p][o].counted <= generation
    BY DEF OncePerGeneration
  <2>1. log[p][o].counted \in Nat /\ generation \in Nat /\ Left(p, o) \in 0 .. 1
    BY LogFields DEF Messages, TypeOK, Left
  <2>2. log[p][o].counted + Cardinality(Holders(p, o)) + Left(p, o) <= generation
    BY DEF RedeliveryOK
  <2> QED
    BY <2>1, <2>2, HoldersFinite
<1> QED
  BY <1>1, <1>2, <1>3, PTL DEF Spec

=============================================================================
