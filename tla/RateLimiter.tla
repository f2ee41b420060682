---------------------------- MODULE RateLimiter ----------------------------
(***************************************************************************)
(* middleware.RateLimiter of one gateway process: a fixed window for every *)
(* client address, opened by the client's first request, and a cleanup     *)
(* that forgets clients.  allow and cleanup run under one mutex and read   *)
(* the clock under it, so each is one step, and time does not run back.    *)
(***************************************************************************)
EXTENDS Integers, Sequences

CONSTANTS
    Clients,   \* what getClientIP returns
    limit,     \* requests per window
    window,    \* length of a window
    Unknown,   \* no entry for a client
    MaxTime    \* bound: the latest time

(* config.Validate refuses a limit below 1.                                *)
ASSUME RateLimiterAssumption ==
    /\ limit \in Nat \ {0}
    /\ window \in Nat
    /\ Unknown \notin [count : Nat, windowStart : Nat]

VARIABLES
    now,       \* the monotonic clock
    requests,  \* the map of the limiter
    granted,   \* history: the requests let through, each with its window
    refused    \* history: the time of the last refusal, or Never

limiterVars == <<now, requests, granted, refused>>

Never == -1

LimiterInit ==
    /\ now = 0
    /\ requests = [c \in Clients |-> Unknown]
    /\ granted = [c \in Clients |-> <<>>]
    /\ refused = [c \in Clients |-> Never]

Tick ==
    /\ now < MaxTime
    /\ now' = now + 1
    /\ UNCHANGED <<requests, granted, refused>>

Known(c) == requests[c] # Unknown
Age(c) == now - requests[c].windowStart

(* Mutant of NeedsWindow: a window lasts as long as cleanup keeps it.      *)
NeedsLateWindow(c) == Known(c) => Age(c) > 2 * window

NeedsWindow(c) == Known(c) => Age(c) > window

Grant(c, start) ==
    /\ granted' = [granted EXCEPT ![c] = Append(@, [at |-> now, start |-> start])]
    /\ UNCHANGED <<now, refused>>

OpenWindow(c) ==
    /\ NeedsWindow(c)
    /\ requests' = [requests EXCEPT ![c] = [count |-> 1, windowStart |-> now]]
    /\ Grant(c, now)

(* Mutant of CountRequest: one request too many.                           *)
CountOneMore(c) ==
    /\ ~NeedsWindow(c)
    /\ requests[c].count <= limit
    /\ requests' = [requests EXCEPT ![c].count = @ + 1]
    /\ Grant(c, requests[c].windowStart)

CountRequest(c) ==
    /\ ~NeedsWindow(c)
    /\ requests[c].count < limit
    /\ requests' = [requests EXCEPT ![c].count = @ + 1]
    /\ Grant(c, requests[c].windowStart)

(* 429: neither the count nor the window changes.                          *)
Refuse(c) ==
    /\ ~NeedsWindow(c)
    /\ requests[c].count >= limit
    /\ refused' = [refused EXCEPT ![c] = now]
    /\ UNCHANGED <<now, requests, granted>>

(* Mutant of CleanUp: it forgets every client.                             *)
CleanUpAll ==
    /\ requests' = [c \in Clients |-> Unknown]
    /\ UNCHANGED <<now, granted, refused>>

CleanUp ==
    /\ requests' = [c \in Clients |->
                      IF Known(c) /\ Age(c) > 2 * window THEN Unknown ELSE requests[c]]
    /\ UNCHANGED <<now, granted, refused>>

LimiterNext ==
    \/ Tick
    \/ \E c \in Clients : OpenWindow(c) \/ CountRequest(c) \/ Refuse(c)
    \/ CleanUp

LimiterSpec == LimiterInit /\ [][LimiterNext]_limiterVars

-----------------------------------------------------------------------------
Entries == [count : 1 .. limit, windowStart : Nat]
Grants == [at : Nat, start : Nat]

(* The count of a window never passes the limit.                           *)
LimiterTypeOK ==
    /\ now \in Nat
    /\ requests \in [Clients -> Entries \cup {Unknown}]
    /\ granted \in [Clients -> Seq(Grants)]
    /\ refused \in [Clients -> Nat \cup {Never}]

(* However a client spreads its requests over the borders of the windows,  *)
(* and whenever cleanup runs: of any 2 * limit + 1 consecutive requests    *)
(* that are let through, the first and the last are more than a window     *)
(* apart (middleware.go:212-226, 234-237).                                 *)
AtMostTwiceTheLimit ==
    \A c \in Clients : \A i \in 1 .. Len(granted[c]) - 2 * limit :
        granted[c][i + 2 * limit].at > granted[c][i].at + window

(* A client is refused only when limit of its requests were let through    *)
(* within the last window: a client that has been quiet for longer, or     *)
(* that cleanup has forgotten, is served again (middleware.go:221-223).    *)
RefusedOnlyAtLimit ==
    \A c \in Clients : refused[c] # Never =>
        \E n \in 0 .. Len(granted[c]) - limit :
            \A i \in n + 1 .. n + limit :
                granted[c][i].at \in refused[c] - window .. refused[c]

=============================================================================
