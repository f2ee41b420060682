--------------------------- MODULE RequestPromise ---------------------------
(***************************************************************************)
(* What a client of the gateway may conclude from an answer: a request     *)
(* changes the system at most once; a success means that it has changed    *)
(* it, a refusal that it has not and never will, and any other answer (202 *)
(* for a job, a timeout, an internal error, a broken connection) leaves it *)
(* open: the change may still come, or never.  Gateway implements this     *)
(* specification.                                                          *)
(***************************************************************************)
EXTENDS Integers

CONSTANT Requests

VARIABLES
    outcome,   \* what the client was told
    changes    \* how often the request has changed the posts or the queue

vars == <<outcome, changes>>

Init ==
    /\ outcome = [q \in Requests |-> "none"]
    /\ changes = [q \in Requests |-> 0]

Change(q) ==
    /\ changes[q] = 0
    /\ outcome[q] \in {"none", "open"}
    /\ changes' = [changes EXCEPT ![q] = 1]
    /\ UNCHANGED outcome

(* "success" is for requests that ask for a change, "read" for the others. *)
Tell(q, o) ==
    /\ outcome[q] = "none"
    /\ o \in {"success", "read", "refused", "open"}
    /\ o = "success" => changes[q] = 1
    /\ o \in {"read", "refused"} => changes[q] = 0
    /\ outcome' = [outcome EXCEPT ![q] = o]
    /\ UNCHANGED changes

(* All the connections break at once when the process dies.                *)
Break ==
    /\ \E broken \in SUBSET Requests :
          /\ \A q \in broken : outcome[q] = "none"
          /\ outcome' = [q \in Requests |-> IF q \in broken THEN "open" ELSE outcome[q]]
    /\ UNCHANGED changes

Next ==
    \/ \E q \in Requests : Change(q)
    \/ \E q \in Requests, o \in {"success", "read", "refused", "open"} : Tell(q, o)
    \/ Break

Spec == Init /\ [][Next]_vars

=============================================================================
