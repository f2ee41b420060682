----------------------------- MODULE PostStore -----------------------------
(***************************************************************************)
(* What storage.Storage promises the callers of the file backend: every    *)
(* call takes effect at one instant between its invocation and its return, *)
(* on the whole list, or has no effect at all.  The one exception is       *)
(* stated openly: a write that is cut short may take the whole list with   *)
(* it (Tear), either silently (the list is empty afterwards) or loudly     *)
(* (every later call fails).                                               *)
(*                                                                         *)
(* FileStorage implements this module.                                     *)
(***************************************************************************)
EXTENDS PostRecords

CONSTANT Callers

VARIABLES
    posts,      \* the list
    readable,   \* whether the list can be read
    call,       \* the call each caller has open, or Idle
    answer      \* what the open call will return, or NoAnswer

vars == <<posts, readable, call, answer>>

Idle == [op |-> "Idle"]
NoAnswer == Answer("pending", {})

Init ==
    /\ posts = {}
    /\ readable = TRUE
    /\ call = [p \in Callers |-> Idle]
    /\ answer = [p \in Callers |-> NoAnswer]

Open(p) == call[p] # Idle /\ answer[p] = NoAnswer

Invoke(p) ==
    /\ call[p] = Idle
    /\ \E req \in Requests : call' = [call EXCEPT ![p] = req]
    /\ UNCHANGED <<posts, readable, answer>>

Reject(p) ==
    /\ Open(p)
    /\ ~Valid(call[p])
    /\ answer' = [answer EXCEPT ![p] = Answer("invalid", {})]
    /\ UNCHANGED <<posts, readable, call>>

Commit(p) ==
    /\ Open(p)
    /\ Valid(call[p])
    /\ readable
    /\ posts' = After(call[p], posts)
    /\ answer' = [answer EXCEPT ![p] = Reply(call[p], posts)]
    /\ UNCHANGED <<readable, call>>

Fail(p) ==
    /\ Open(p)
    /\ answer' = [answer EXCEPT ![p] = Answer("error", {})]
    /\ UNCHANGED <<posts, readable, call>>

(* What is left of the list when the open write of p is cut short.         *)
Torn(p) ==
    /\ Open(p)
    /\ call[p].op \in WriteOps
    /\ readable
    /\ posts' = {}
    /\ readable' \in BOOLEAN

Tear(p) ==
    /\ Torn(p)
    /\ answer' = [answer EXCEPT ![p] = Answer("error", {})]
    /\ UNCHANGED call

Return(p) ==
    /\ answer[p] # NoAnswer
    /\ call' = [call EXCEPT ![p] = Idle]
    /\ answer' = [answer EXCEPT ![p] = NoAnswer]
    /\ UNCHANGED <<posts, readable>>

(* The server process dies: no open call returns.                          *)
Crash ==
    /\ \/ UNCHANGED <<posts, readable>>
       \/ \E p \in Callers : Torn(p)
    /\ call' = [p \in Callers |-> Idle]
    /\ answer' = [p \in Callers |-> NoAnswer]

Next ==
    \/ \E p \in Callers :
          Invoke(p) \/ Reject(p) \/ Commit(p) \/ Fail(p) \/ Tear(p) \/ Return(p)
    \/ Crash

Spec == Init /\ [][Next]_vars

=============================================================================
