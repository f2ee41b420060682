---------------------------- MODULE GatewayProofs ----------------------------
(***************************************************************************)
(* Theorems about the gateway's handling of requests.                      *)
(*                                                                         *)
(* Its rate limiter, for every number of clients, limit, window and time:  *)
(* type correctness, and both bounds on what it lets through.              *)
(*                                                                         *)
(* Gateway: types, permissions, and the refinement of RequestPromise.  All *)
(* follow from one inductive invariant, which says for every request what  *)
(* has been checked before its call was made and what every status on its  *)
(* way to the client says about the call.                                  *)
(***************************************************************************)
EXTENDS Gateway, RateLimiter, SequenceTheorems, TLAPS

-----------------------------------------------------------------------------
(* The rate limiter.                                                       *)

(* The requests let through were so inside their windows, and limit of     *)
(* them fill a window.                                                     *)
WindowsApart(c) ==
    LET g == granted[c]
    IN  /\ \A i \in 1 .. Len(g) :
              g[i].start <= g[i].at /\ g[i].at <= g[i].start + window /\ g[i].at <= now
        /\ \A i \in 1 .. Len(g) - limit : g[i + limit].start > g[i].start + window

(* The entry of a client counts the last requests of granted; without an   *)
(* entry, every window is over.                                            *)
EntryCounts(c) ==
    LET g == granted[c]
        e == requests[c]
        n == Len(g)
    IN  IF Known(c)
        THEN /\ e.count <= n /\ e.windowStart <= now
             /\ \A i \in n - e.count + 1 .. n : g[i].start = e.windowStart
             /\ \A i \in 1 .. n - e.count : g[i].start + window < e.windowStart
        ELSE \A i \in 1 .. n : g[i].start + window < now

LimiterInv ==
    /\ LimiterTypeOK
    /\ RefusedOnlyAtLimit
    /\ \A c \in Clients : WindowsApart(c) /\ EntryCounts(c)

LEMMA GrantFields ==
    ASSUME NEW g \in Seq(Grants)
    PROVE  Len(g) \in Nat /\ \A i \in 1 .. Len(g) : g[i].at \in Nat /\ g[i].start \in Nat
<1>1. \A i \in 1 .. Len(g) : g[i] \in Grants
  OBVIOUS
<1> QED
  BY <1>1 DEF Grants

LEMMA EntryFields ==
    ASSUME LimiterTypeOK, NEW c \in Clients, Known(c)
    PROVE  /\ requests[c].count \in 1 .. limit /\ requests[c].windowStart \in Nat
           /\ \A n : [requests EXCEPT ![c].count = n] =
                      [requests EXCEPT ![c] = [count |-> n, windowStart |-> requests[c].windowStart]]
<1>1. requests[c] \in Entries /\ requests \in [Clients -> Entries \cup {Unknown}]
  BY DEF LimiterTypeOK, Known
<1>2. \A n : [requests[c] EXCEPT !.count = n] =
                [count |-> n, windowStart |-> requests[c].windowStart]
  BY <1>1 DEF Entries
<1>3. \A n : [requests EXCEPT ![c].count = n] =
                [requests EXCEPT ![c] = [requests[c] EXCEPT !.count = n]]
  BY <1>1
<1> QED
  BY <1>1, <1>2, <1>3 DEF Entries

(* No window of a client is later than that of its entry.                  *)
LEMMA LastWindow ==
    ASSUME LimiterTypeOK, NEW c \in Clients, Known(c), EntryCounts(c),
           NEW i \in 1 .. Len(granted[c])
    PROVE  granted[c][i].start <= requests[c].windowStart
<1> DEFINE n == Len(granted[c])
<1>1. n \in Nat /\ granted[c][i].start \in Nat
  BY GrantFields DEF LimiterTypeOK
<1>2. requests[c].count \in 1 .. limit /\ requests[c].windowStart \in Nat
  BY EntryFields
<1>3. CASE i \in 1 .. n - requests[c].count
  <2>1. granted[c][i].start + window < requests[c].windowStart
    BY <1>3 DEF EntryCounts
  <2> QED
    BY <1>1, <1>2, <2>1, RateLimiterAssumption
<1>4. CASE i \in n - requests[c].count + 1 .. n
  BY <1>2, <1>4 DEF EntryCounts
<1>5. i \in 1 .. n - requests[c].count \/ i \in n - requests[c].count + 1 .. n
  BY <1>1, <1>2, RateLimiterAssumption
<1> QED
  BY <1>3, <1>4, <1>5

LEMMA InitLimiterInv == LimiterInit => LimiterInv
  BY RateLimiterAssumption
  DEF LimiterInit, LimiterInv, LimiterTypeOK, RefusedOnlyAtLimit, WindowsApart, EntryCounts,
      Known, Never

(* A request of c is let through in the window that begins at start, and   *)
(* becomes the count-th of this window.                                    *)
LEMMA GrantLimiterInv ==
    ASSUME LimiterInv, NEW c \in Clients, NEW start \in Nat, NEW count \in 1 .. limit,
           requests' = [requests EXCEPT ![c] = [count |-> count, windowStart |-> start]],
           Grant(c, start),
           start <= now, now <= start + window,
           count - 1 <= Len(granted[c]),
           \A i \in Len(granted[c]) - count + 2 .. Len(granted[c]) : granted[c][i].start = start,
           \A i \in 1 .. Len(granted[c]) - count + 1 : granted[c][i].start + window < start
    PROVE  LimiterInv'
<1> DEFINE g == granted[c]
           n == Len(g)
           h == Append(g, [at |-> now, start |-> start])
<1> USE RateLimiterAssumption DEF LimiterInv, LimiterTypeOK
<1>1. g \in Seq(Grants) /\ [at |-> now, start |-> start] \in Grants
  BY DEF Grants
<1>2. /\ h \in Seq(Grants) /\ Len(h) = n + 1 /\ n \in Nat
      /\ h[n + 1] = [at |-> now, start |-> start]
      /\ \A i \in 1 .. n : h[i] = g[i] /\ g[i].at \in Nat /\ g[i].start \in Nat
  <2>1. h \in Seq(Grants) /\ Len(h) = n + 1
        /\ h[n + 1] = [at |-> now, start |-> start] /\ \A i \in 1 .. n : h[i] = g[i]
    BY <1>1, AppendProperties
  <2> QED
    BY <1>1, <2>1, GrantFields
<1>3. /\ granted' = [granted EXCEPT ![c] = h]
      /\ granted' \in [Clients -> Seq(Grants)] /\ granted'[c] = h
      /\ \A d \in Clients \ {c} : granted'[d] = granted[d]
      /\ UNCHANGED <<now, refused>>
  BY <1>2 DEF Grant
<1>4. /\ requests' \in [Clients -> Entries \cup {Unknown}]
      /\ requests'[c] = [count |-> count, windowStart |-> start] /\ requests'[c] # Unknown
      /\ \A d \in Clients \ {c} : requests'[d] = requests[d]
  BY DEF Entries
<1> HIDE DEF h
<1>5. LimiterTypeOK'
  BY <1>3, <1>4
<1>6. \A d \in Clients \ {c} : WindowsApart(d)' /\ EntryCounts(d)'
  BY <1>3, <1>4 DEF WindowsApart, EntryCounts, Known
<1>7. WindowsApart(c)'
  <2>1. ASSUME NEW i \in 1 .. n + 1
        PROVE  h[i].start <= h[i].at /\ h[i].at <= h[i].start + window /\ h[i].at <= now
    <3>1. n + 1 \in Nat /\ n \in Nat /\ (i = n + 1 \/ i \in 1 .. n)
      BY <1>2, <2>1
    <3>2. CASE i = n + 1
      <4>1. h[i].at = now /\ h[i].start = start
        BY <1>2, <3>2
      <4> QED
        BY <4>1
    <3>3. CASE i \in 1 .. n
      <4>1. WindowsApart(c)
        OBVIOUS
      <4>2. /\ g[i].start <= g[i].at /\ g[i].at <= g[i].start + window
            /\ g[i].at <= now
        BY <3>3, <4>1 DEF WindowsApart
      <4>3. h[i] = g[i]
        BY <1>2, <3>3
      <4> QED
        BY <4>2, <4>3
    <3> QED
      BY <3>1, <3>2, <3>3
  <2>2. ASSUME NEW i \in 1 .. n + 1 - limit
        PROVE  h[i + limit].start > h[i].start + window
    <3>1. CASE i + limit = n + 1
      <4>1. i \in 1 .. n - count + 1 /\ i \in 1 .. n
        BY <1>2, <3>1
      <4>2. g[i].start + window < start
        BY <4>1
      <4> QED
        BY <1>2, <3>1, <4>1, <4>2
    <3>2. CASE i + limit # n + 1
      <4>1. i \in 1 .. n - limit /\ i \in 1 .. n /\ i + limit \in 1 .. n
        BY <1>2, <3>2
      <4> QED
        BY <1>2, <4>1 DEF WindowsApart
    <3> QED
      BY <3>1, <3>2
  <2> QED
    BY <1>2, <1>3, <2>1, <2>2 DEF WindowsApart
<1>8. EntryCounts(c)'
  <2>1. \A i \in n - count + 2 .. n + 1 : h[i].start = start
    <3>1. \A i \in n - count + 2 .. n : i \in 1 .. n
      BY <1>2
    <3>2. \A i \in n - count + 2 .. n : h[i].start = start
      BY <1>2, <3>1
    <3>3. h[n + 1].start = start
      BY <1>2
    <3>4. \A i \in n - count + 2 .. n + 1 : i = n + 1 \/ i \in n - count + 2 .. n
      BY <1>2
    <3> HIDE DEF n
    <3> QED
      BY <3>2, <3>3, <3>4
  <2>2. \A i \in 1 .. n - count + 1 : h[i].start + window < start
    BY <1>2
  <2>3. /\ (n + 1) - count + 1 = n - count + 2 /\ (n + 1) - count = n - count + 1
        /\ count <= n + 1
    BY <1>2
  <2> QED
    BY <1>2, <1>3, <1>4, <2>1, <2>2, <2>3 DEF EntryCounts, Known
<1>9. RefusedOnlyAtLimit'
  <2> SUFFICES ASSUME NEW d \in Clients, refused[d] # Never
               PROVE  \E m \in 0 .. Len(granted'[d]) - limit :
                         \A i \in m + 1 .. m + limit :
                             granted'[d][i].at \in refused[d] - window .. refused[d]
    BY <1>3 DEF RefusedOnlyAtLimit
  <2>1. PICK m \in 0 .. Len(granted[d]) - limit :
               \A i \in m + 1 .. m + limit :
                   granted[d][i].at \in refused[d] - window .. refused[d]
    BY DEF RefusedOnlyAtLimit
  <2>2. CASE d = c
    <3>1. m \in 0 .. n - limit
      BY <2>1, <2>2
    <3>2. m \in 0 .. Len(h) - limit /\ \A i \in m + 1 .. m + limit : i \in 1 .. n
      BY <1>2, <3>1
    <3>3. \A i \in m + 1 .. m + limit : h[i].at \in refused[d] - window .. refused[d]
      BY <1>2, <2>1, <2>2, <3>2
    <3> QED
      BY <1>3, <2>2, <3>2, <3>3
  <2>3. CASE d # c
    BY <1>3, <2>1, <2>3
  <2> QED
    BY <2>2, <2>3
<1> QED
  BY <1>5, <1>6, <1>7, <1>8, <1>9

LEMMA OpenWindowLimiterInv ==
    ASSUME LimiterInv, NEW c \in Clients, OpenWindow(c)
    PROVE  LimiterInv'
<1> DEFINE n == Len(granted[c])
<1>1. /\ LimiterTypeOK /\ EntryCounts(c) /\ now \in Nat /\ n \in Nat
      /\ \A i \in 1 .. n : granted[c][i].start \in Nat
  BY GrantFields DEF LimiterInv, LimiterTypeOK
<1>2. \A i \in 1 .. n : granted[c][i].start + window < now
  <2>1. CASE ~Known(c)
    BY <1>1, <2>1 DEF EntryCounts
  <2>2. CASE Known(c)
    <3>1. requests[c].windowStart \in Nat /\ now - requests[c].windowStart > window
      BY <1>1, <2>2, EntryFields DEF OpenWindow, NeedsWindow, Age
    <3>2. \A i \in 1 .. n : granted[c][i].start <= requests[c].windowStart
      BY <1>1, <2>2, LastWindow
    <3> QED
      BY <1>1, <3>1, <3>2, RateLimiterAssumption
  <2> QED
    BY <2>1, <2>2
<1>3. requests' = [requests EXCEPT ![c] = [count |-> 1, windowStart |-> now]] /\ Grant(c, now)
  BY DEF OpenWindow
<1>4. /\ \A i \in n - 1 + 2 .. n : granted[c][i].start = now
      /\ \A i \in 1 .. n - 1 + 1 : granted[c][i].start + window < now
  <2>1. n - 1 + 2 > n /\ n - 1 + 1 = n
    BY <1>1
  <2> QED
    BY <1>1, <1>2, <2>1
<1>5. 1 \in 1 .. limit /\ 1 - 1 <= n /\ now <= now /\ now <= now + window
  BY <1>1, RateLimiterAssumption
<1> QED
  BY <1>1, <1>3, <1>4, <1>5, GrantLimiterInv

LEMMA CountRequestLimiterInv ==
    ASSUME LimiterInv, NEW c \in Clients, CountRequest(c)
    PROVE  LimiterInv'
<1> DEFINE e == requests[c]
           n == Len(granted[c])
           k == e.count + 1
<1>1. /\ Known(c) /\ ~(now - e.windowStart > window) /\ e.count < limit
      /\ requests' = [requests EXCEPT ![c].count = k]
      /\ Grant(c, e.windowStart)
  BY DEF CountRequest, NeedsWindow, Age, Known
<1>2. /\ LimiterTypeOK /\ EntryCounts(c) /\ now \in Nat /\ n \in Nat
      /\ e.count \in 1 .. limit /\ e.windowStart \in Nat
  BY <1>1, EntryFields, GrantFields DEF LimiterInv, LimiterTypeOK
<1>3. requests' = [requests EXCEPT ![c] = [count |-> k, windowStart |-> e.windowStart]]
  BY <1>1, <1>2, EntryFields
<1>4. /\ e.count <= n /\ e.windowStart <= now
      /\ \A i \in n - e.count + 1 .. n : granted[c][i].start = e.windowStart
      /\ \A i \in 1 .. n - e.count : granted[c][i].start + window < e.windowStart
  BY <1>1, <1>2 DEF EntryCounts
<1>5. k \in 1 .. limit /\ k - 1 <= n /\ n - k + 2 = n - e.count + 1 /\ n - k + 1 = n - e.count
  <2>1. \A x, m, l \in Nat :
           x < l /\ x <= m =>
              x + 1 \in 1 .. l /\ (x + 1) - 1 <= m
                 /\ m - (x + 1) + 2 = m - x + 1 /\ m - (x + 1) + 1 = m - x
    OBVIOUS
  <2>2. e.count \in Nat /\ limit \in Nat
    BY <1>2, RateLimiterAssumption
  <2> HIDE DEF e, n
  <2> QED
    BY <1>1, <1>2, <1>4, <2>1, <2>2
<1>6. now <= e.windowStart + window
  BY <1>1, <1>2, RateLimiterAssumption
<1> HIDE DEF k
<1> QED
  BY <1>1, <1>2, <1>3, <1>4, <1>5, <1>6, GrantLimiterInv

LEMMA RefuseLimiterInv ==
    ASSUME LimiterInv, NEW c \in Clients, Refuse(c)
    PROVE  LimiterInv'
<1> DEFINE e == requests[c]
           g == granted[c]
           n == Len(g)
<1> USE RateLimiterAssumption DEF LimiterInv, LimiterTypeOK
<1>1. /\ Known(c) /\ now - e.windowStart <= window /\ e.count = limit
      /\ refused' = [refused EXCEPT ![c] = now]
      /\ UNCHANGED <<now, requests, granted>>
  BY DEF Refuse, NeedsWindow, Age, Known, Entries
<1>2. e.windowStart \in Nat /\ n \in Nat /\ \A i \in 1 .. n : g[i].at \in Nat /\ g[i].start \in Nat
  BY <1>1, EntryFields, GrantFields
<1>3. LimiterTypeOK' /\ refused'[c] = now
  BY <1>1
<1>4. \A d \in Clients : WindowsApart(d)' /\ EntryCounts(d)'
  BY <1>1 DEF WindowsApart, EntryCounts, Known
<1>5. /\ n - limit \in 0 .. n - limit
      /\ \A i \in n - limit + 1 .. n - limit + limit : g[i].at \in now - window .. now
  <2>1. limit <= n /\ \A i \in n - limit + 1 .. n : g[i].start = e.windowStart
    BY <1>1 DEF EntryCounts
  <2>2. ASSUME NEW i \in n - limit + 1 .. n
        PROVE  g[i].at \in now - window .. now
    <3>1. i \in 1 .. n
      BY <1>2, <2>1
    <3>2. g[i].start <= g[i].at /\ g[i].at <= now
      BY <3>1 DEF WindowsApart
    <3> QED
      BY <1>1, <1>2, <2>1, <3>1, <3>2
  <2> QED
    BY <1>2, <2>1, <2>2
<1>6. RefusedOnlyAtLimit'
  <2> SUFFICES ASSUME NEW d \in Clients, refused'[d] # Never
               PROVE  \E m \in 0 .. Len(granted[d]) - limit :
                         \A i \in m + 1 .. m + limit :
                             granted[d][i].at \in refused'[d] - window .. refused'[d]
    BY <1>1 DEF RefusedOnlyAtLimit
  <2>1. CASE d = c
    <3> HIDE DEF n
    <3> QED
      BY <1>3, <1>5, <2>1 DEF n
  <2>2. CASE d # c
    BY <1>1, <2>2 DEF RefusedOnlyAtLimit
  <2> QED
    BY <2>1, <2>2
<1> QED
  BY <1>3, <1>4, <1>6

LEMMA TickLimiterInv ==
    ASSUME LimiterInv, Tick
    PROVE  LimiterInv'
<1> USE RateLimiterAssumption DEF LimiterInv, LimiterTypeOK
<1>1. now' = now + 1 /\ UNCHANGED <<requests, granted, refused>>
  BY DEF Tick
<1>2. ASSUME NEW c \in Clients PROVE WindowsApart(c)' /\ EntryCounts(c)'
  <2>1. \A i \in 1 .. Len(granted[c]) : granted[c][i].at \in Nat /\ granted[c][i].start \in Nat
    BY GrantFields
  <2>2. Known(c) => requests[c].windowStart \in Nat
    BY EntryFields
  <2>3. ASSUME NEW i \in 1 .. Len(granted[c])
        PROVE  /\ granted[c][i].start <= granted[c][i].at
               /\ granted[c][i].at <= granted[c][i].start + window
               /\ granted[c][i].at <= now'
    <3>1. /\ granted[c][i].start <= granted[c][i].at
          /\ granted[c][i].at <= granted[c][i].start + window
          /\ granted[c][i].at <= now
      BY DEF WindowsApart
    <3> QED
      BY <1>1, <2>1, <3>1
  <2>4. WindowsApart(c)'
    <3>1. WindowsApart(c)
      OBVIOUS
    <3> HIDE DEF LimiterInv, LimiterTypeOK
    <3> QED
      BY <1>1, <2>3, <3>1 DEF WindowsApart
  <2>5. EntryCounts(c)'
    BY <1>1, <2>1, <2>2 DEF EntryCounts, Known
  <2> QED
    BY <2>4, <2>5
<1>3. LimiterTypeOK'
  BY <1>1
<1>4. RefusedOnlyAtLimit'
  BY <1>1 DEF RefusedOnlyAtLimit
<1> QED
  BY <1>2, <1>3, <1>4

(* What cleanup forgets has been over for a window.                        *)
LEMMA CleanUpLimiterInv ==
    ASSUME LimiterInv, CleanUp
    PROVE  LimiterInv'
<1> USE RateLimiterAssumption DEF LimiterInv, LimiterTypeOK
<1>1. /\ UNCHANGED <<now, granted, refused>>
      /\ \A c \in Clients : requests'[c] = requests[c]
            \/ (requests'[c] = Unknown /\ Known(c) /\ Age(c) > 2 * window)
      /\ requests' \in [Clients -> Entries \cup {Unknown}]
  BY DEF CleanUp
<1>2. ASSUME NEW c \in Clients PROVE EntryCounts(c)'
  <2>1. CASE requests'[c] = requests[c]
    BY <1>1, <2>1 DEF EntryCounts, Known
  <2>2. CASE requests'[c] = Unknown /\ Known(c) /\ Age(c) > 2 * window
    <3> DEFINE e == requests[c]
               n == Len(granted[c])
    <3>1. e.windowStart \in Nat /\ \A i \in 1 .. n : granted[c][i].start \in Nat
      BY <2>2, EntryFields, GrantFields
    <3>2. now - e.windowStart > window + window
      BY <2>2, <3>1 DEF Age
    <3>3. \A i \in 1 .. n : granted[c][i].start <= e.windowStart
      BY <2>2, LastWindow
    <3>4. \A i \in 1 .. n : granted[c][i].start + window < now
      BY <3>1, <3>2, <3>3
    <3> QED
      BY <1>1, <2>2, <3>4 DEF EntryCounts, Known
  <2> QED
    BY <1>1, <2>1, <2>2
<1>3. \A c \in Clients : WindowsApart(c)'
  BY <1>1 DEF WindowsApart
<1> QED
  BY <1>1, <1>2, <1>3 DEF RefusedOnlyAtLimit

LEMMA NextLimiterInv == LimiterInv /\ [LimiterNext]_limiterVars => LimiterInv'
<1> SUFFICES ASSUME LimiterInv, [LimiterNext]_limiterVars PROVE LimiterInv'
  OBVIOUS
<1>1. CASE UNCHANGED limiterVars
  BY <1>1
     DEF limiterVars, LimiterInv, LimiterTypeOK, RefusedOnlyAtLimit, WindowsApart, EntryCounts,
         Known
<1> QED
  BY <1>1, TickLimiterInv, OpenWindowLimiterInv, CountRequestLimiterInv, RefuseLimiterInv,
     CleanUpLimiterInv
     DEF LimiterNext

(* The limiter never leaves its types: a count stays within the limit.     *)
THEOREM LimitsAreKept == LimiterSpec => []LimiterTypeOK
<1>1. LimiterInv => LimiterTypeOK
  BY DEF LimiterInv
<1> QED
  BY <1>1, InitLimiterInv, NextLimiterInv, PTL DEF LimiterSpec

(* Twice the limit is the most that any stretch of one window lets through *)
(* (middleware.go:205-239).                                                *)
THEOREM QuotaHolds == LimiterSpec => []AtMostTwiceTheLimit
<1>1. LimiterInv => AtMostTwiceTheLimit
  <2> SUFFICES ASSUME LimiterInv, NEW c \in Clients, NEW i \in 1 .. Len(granted[c]) - 2 * limit
               PROVE  granted[c][i + 2 * limit].at > granted[c][i].at + window
    BY DEF AtMostTwiceTheLimit
  <2> DEFINE g == granted[c]
             n == Len(g)
             j == i + limit
             k == i + 2 * limit
  <2>1. g \in Seq(Grants) /\ n \in Nat /\ limit \in Nat /\ limit > 0
    BY RateLimiterAssumption DEF LimiterInv, LimiterTypeOK
  <2>2. i \in 1 .. n - limit /\ j \in 1 .. n - limit /\ j + limit = k
    BY <2>1
  <2>3. i \in 1 .. n /\ j \in 1 .. n /\ k \in 1 .. n
    BY <2>1, <2>2
  <2>4. \A x \in 1 .. n : g[x].at \in Nat /\ g[x].start \in Nat
    BY <2>1, GrantFields
  <2>5. g[j].start > g[i].start + window /\ g[k].start > g[j].start + window
    BY <2>2 DEF LimiterInv, WindowsApart
  <2>6. g[i].at <= g[i].start + window /\ g[k].start <= g[k].at
    BY <2>3 DEF LimiterInv, WindowsApart
  <2>7. /\ g[i].at \in Nat /\ g[i].start \in Nat /\ g[j].start \in Nat
        /\ g[k].at \in Nat /\ g[k].start \in Nat /\ window \in Nat
    BY <2>3, <2>4, RateLimiterAssumption
  <2> HIDE DEF g, j, k
  <2>8. \A a, b, x, y, z, w \in Nat :
           a <= x + w /\ y > x + w /\ z > y + w /\ z <= b => b > a + w
    OBVIOUS
  <2>9. g[k].at > g[i].at + window
    BY <2>5, <2>6, <2>7, <2>8
  <2> QED
    BY <2>9 DEF g, k
<1> QED
  BY <1>1, InitLimiterInv, NextLimiterInv, PTL DEF LimiterSpec

(* Nobody is refused who has not used up a window's requests within one    *)
(* window.                                                                 *)
THEOREM RefusalsAreDue == LimiterSpec => []RefusedOnlyAtLimit
<1>1. LimiterInv => RefusedOnlyAtLimit
  BY DEF LimiterInv
<1> QED
  BY <1>1, InitLimiterInv, NextLimiterInv, PTL DEF LimiterSpec

-----------------------------------------------------------------------------
(* The gateway.                                                            *)

USE GatewayAssumption

Refusing == {"401", "403", "404", "405", "422", "429"}
Succeeding == {"200", "201", "202", "204"}

(* The request asks for a change, and its status tells whether it is made. *)
AsksChange(q) ==
    /\ Found(request[q])
    /\ Handler(request[q]) \in Confirming

(* The change may come while the call runs, and a job even later.          *)
MayStillChange(q) ==
    /\ call[q] # "none" /\ Handler(request[q]) \in Changing
    /\ Handler(request[q]) # "ReanalyzePosts" => call[q] = "sent"

(* What a status says about the call.                                      *)
Fits(q, s) ==
    /\ s \in Refusing => ~MayStillChange(q) /\ changes[q] = 0
    /\ s \in Succeeding /\ AsksChange(q) => call[q] # "sent" /\ changes[q] = 1

Passed(q) == Resource(request[q]) = "none" \/ (fresh[q] /\ Evaluate(request[q]))

(* What has been checked at each step of the handler.                      *)
GateOK(q) ==
    /\ step[q] = "validate" /\ request[q].user \in live => fresh[q]
    /\ step[q] = "authorize" => fresh[q]
    /\ step[q] = "handle" => Passed(q)
    /\ call[q] # "none" => Passed(q) /\ Found(request[q])
    /\ step[q] = "call" => call[q] # "none"

CallOK(q) ==
    /\ call[q] = "none" => changes[q] = 0
    /\ call[q] = "sent" /\ Handler(request[q]) # "ReanalyzePosts" => changes[q] = 0
    /\ changes[q] > 0 => Handler(request[q]) \in Changing
    /\ Fits(q, call[q])

(* Before the handler answers, only the timeout can have.                  *)
AnswerOK(q) ==
    /\ step[q] \in {"idle", "validate", "authorize", "handle"} => call[q] = "none"
    /\ step[q] \notin {"write", "done"} =>
          reply[q] = "none" /\ written[q] \subseteq {"504"} /\ told[q] \in {"none", "504"}
    /\ step[q] = "write" => reply[q] # "none"
    /\ step[q] = "idle" => wait[q] = "idle" /\ told[q] = "none"
    /\ wait[q] # "idle" => told[q] = "none"
    /\ Fits(q, reply[q]) /\ Fits(q, told[q])
    /\ \A s \in written[q] : Fits(q, s)

IInv ==
    /\ TypeOK
    /\ \A q \in Requests : GateOK(q) /\ CallOK(q) /\ AnswerOK(q)

-----------------------------------------------------------------------------
(* The tables.                                                             *)

LEMMA FoundIsServed ==
    ASSUME NEW r, Found(r)
    PROVE  Handler(r) \in Handlers /\ <<r.route, r.method, Handler(r)>> \in Table
  BY DEF Found, Handler

LEMMA PreflightsAreNotFound ==
    ASSUME NEW r, r.method = "OPTIONS"
    PROVE  ~Found(r)
<1> SUFFICES ASSUME Found(r) PROVE FALSE
  OBVIOUS
<1>1. \A entry \in Table : entry[2] # "OPTIONS"
  <2>1. \A entry \in Served : entry[2] # "OPTIONS"
    BY DEF Served
  <2>2. ASSUME NEW path, NEW methods \in SUBSET Methods, NEW h, NEW entry \in For(path, methods, h)
        PROVE  entry[2] # "OPTIONS"
    BY DEF For, Methods
  <2>3. \A entry \in OpenRoutes : entry[2] # "OPTIONS"
    BY <2>2 DEF OpenRoutes
  <2>4. \A entry \in AdminRoutes : entry[2] # "OPTIONS"
    BY <2>2 DEF AdminRoutes
  <2> QED
    BY <2>1, <2>3, <2>4 DEF Table
<1>2. <<r.route, r.method, Handler(r)>> \in Table
  BY FoundIsServed
<1> QED
  BY <1>1, <1>2

(* The handler that a protected route leads to may do no more than the     *)
(* policies allow for the method and the resource that ABAC looked at.     *)
LEMMA RolePermits ==
    ASSUME NEW r \in Inputs, Found(r), Handler(r) \in Changing,
           Resource(r) # "none", Evaluate(r)
    PROVE  MayChange(RoleOf[r.user], Handler(r), r.mfa)
<1> DEFINE entry == <<r.route, r.method, Handler(r)>>
<1>1. entry \in Table /\ entry[1] = r.route /\ entry[2] = r.method /\ entry[3] = Handler(r)
  BY FoundIsServed
<1>2. entry \notin OpenRoutes
  <2>1. (\E e \in OpenRoutes : e[1] = r.route) => Resource(r) = "none"
    BY DEF Resource
  <2> QED
    BY <1>1, <2>1
<1>3. entry \notin AdminRoutes
  BY <1>1 DEF AdminRoutes, For, Changing
<1>4. entry \in Served
  BY <1>1, <1>2, <1>3 DEF Table
<1>5. ActionByMethod(r.method) \in {"write", "delete"}
      /\ (Handler(r) = "DeletePost" => ActionByMethod(r.method) = "delete")
  BY <1>1, <1>4 DEF Served, Changing, ActionByMethod
<1>6. PICK p \in DefaultPolicies :
        Matches(p, RoleOf[r.user], Resource(r), ActionByMethod(r.method), r.mfa)
  BY DEF Evaluate
<1>7. p.role # "*" /\ p.role = RoleOf[r.user]
  BY <1>6 DEF DefaultPolicies, Policy, Matches
<1>8. CASE p.role = "admin"
  BY <1>7, <1>8 DEF MayChange
<1>9. CASE p.role = "viewer"
  BY <1>5, <1>6, <1>9 DEF DefaultPolicies, Policy, Matches
<1>10. CASE p.role = "editor"
  <2>1. CASE Handler(r) = "DeletePost"
    <3>1. p.mfa
      BY <1>5, <1>6, <1>10, <2>1 DEF DefaultPolicies, Policy, Matches
    <3> QED
      BY <1>6, <1>7, <1>10, <3>1 DEF MayChange, Matches
  <2>2. CASE Handler(r) # "DeletePost"
    BY <1>7, <1>10, <2>2 DEF MayChange
  <2> QED
    BY <2>1, <2>2
<1> QED
  BY <1>6, <1>8, <1>9, <1>10 DEF DefaultPolicies, Policy

LEMMA StatusesAre ==
    ASSUME NEW h
    PROVE  /\ Success(h) \in Succeeding
           /\ Refusals(h) \subseteq {"401", "404", "422"}
           /\ Unavailable(h) \in {"200", "404", "500", "503"}
           /\ Unavailable(h) = "200" => h \in Pages
           /\ Unavailable(h) = "404" => h = "GetExport"
           /\ \A s \in Statuses : Shown(h, s) \in Statuses
           /\ \A s : IF h \in Pages THEN Shown(h, s) = "200"
                    ELSE \/ Shown(h, s) \in {s, "503"}
                         \/ h = "GetExport" /\ Shown(h, s) = "404"
  BY DEF Success, Refusals, Unavailable, Shown, Succeeding, Statuses, Pages

-----------------------------------------------------------------------------
(* Steps of the handler's goroutine.                                       *)

Busy(q) == step[q] \in {"validate", "authorize", "handle", "call"}

LEMMA FinishKeeps ==
    ASSUME IInv, NEW q \in Requests, NEW s \in Statuses,
           Busy(q), Finish(q, s), Fits(q, s)
    PROVE  IInv'
<1> USE DEF IInv, Finish, Busy, tokens, process, response
<1>1. TypeOK'
  BY DEF TypeOK
<1>2. \A p \in Requests : GateOK(p)'
  BY DEF GateOK, Passed, TypeOK
<1>3. \A p \in Requests : CallOK(p)'
  BY DEF CallOK, Fits, MayStillChange, AsksChange, TypeOK
<1>4. \A p \in Requests : AnswerOK(p)'
  <2>1. s # "none"
    BY DEF Statuses
  <2> QED
    BY <2>1 DEF AnswerOK, Fits, MayStillChange, AsksChange, TypeOK
<1> QED
  BY <1>1, <1>2, <1>3, <1>4

LEMMA GotoKeeps ==
    ASSUME IInv, NEW q \in Requests,
           \/ step[q] = "validate" /\ request[q].user \in live /\ Goto(q, "authorize")
           \/ step[q] = "authorize" /\ Evaluate(request[q]) /\ Goto(q, "handle")
    PROVE  IInv'
<1> USE DEF IInv, Goto, tokens, process, response
<1>1. TypeOK'
  BY DEF TypeOK
<1>2. \A p \in Requests : GateOK(p)'
  BY DEF GateOK, Passed, TypeOK
<1>3. \A p \in Requests : CallOK(p)'
  BY DEF CallOK, Fits, MayStillChange, AsksChange, TypeOK
<1>4. \A p \in Requests : AnswerOK(p)'
  BY DEF AnswerOK, Fits, MayStillChange, AsksChange, TypeOK
<1> QED
  BY <1>1, <1>2, <1>3, <1>4


(* A page says nothing about the change, and an export is none.            *)
LEMMA FinishedPage ==
    ASSUME NEW q \in Requests, Handler(request[q]) \in Pages
    PROVE  Fits(q, "200")
  BY DEF Fits, Refusing, AsksChange, Confirming

LEMMA MissingExport ==
    ASSUME IInv, NEW q \in Requests, Handler(request[q]) = "GetExport"
    PROVE  Fits(q, "404")
<1>1. Handler(request[q]) \notin Changing
  BY DEF Changing
<1>2. changes[q] = 0
  BY <1>1 DEF IInv, CallOK, TypeOK
<1> QED
  BY <1>1, <1>2 DEF Fits, MayStillChange, Succeeding

(* All the answers of the handler fit the call.                            *)
LEMMA HandleKeeps ==
    ASSUME IInv, NEW q \in Requests, Handle(q), ~Call(q), ~Write(q)
    PROVE  IInv'
<1> DEFINE r == request[q]
<1>1. CASE ValidateToken(q)
  BY <1>1, GotoKeeps DEF ValidateToken, At
<1>2. CASE InvalidToken(q)
  <2>1. call[q] = "none" /\ changes[q] = 0 /\ step[q] = "validate"
    BY <1>2 DEF InvalidToken, At, IInv, AnswerOK, CallOK
  <2> QED
    BY <1>2, <2>1, FinishKeeps DEF InvalidToken, Busy, Fits, MayStillChange, Statuses, Succeeding
<1>3. CASE Authorize(q)
  BY <1>3, GotoKeeps DEF Authorize, At
<1>4. CASE AuthorizeFails(q) \/ Deny(q)
  <2>1. call[q] = "none" /\ changes[q] = 0 /\ step[q] = "authorize"
    BY <1>4 DEF AuthorizeFails, Deny, At, IInv, AnswerOK, CallOK
  <2> QED
    BY <1>4, <2>1, FinishKeeps DEF AuthorizeFails, Deny, Busy, Fits, MayStillChange, Statuses, Succeeding
<1>5. ASSUME step[q] = "handle" PROVE call[q] = "none" /\ changes[q] = 0
  BY <1>5 DEF IInv, AnswerOK, CallOK
<1>6. CASE NoRoute(q)
  <2>1. step[q] = "handle" /\ Finish(q, NotServed(r)) /\ NotServed(r) \in {"404", "405"}
    BY <1>6 DEF NoRoute, At, NotServed
  <2> QED
    BY <1>5, <2>1, FinishKeeps DEF Busy, Fits, MayStillChange, Statuses, Succeeding
<1>7. CASE NotEnabled(q)
  <2>1. step[q] = "handle" /\ Finish(q, "503")
    BY <1>7 DEF NotEnabled, Runs, At
  <2> QED
    BY <1>5, <2>1, FinishKeeps DEF Busy, Fits, MayStillChange, Statuses, Succeeding, Refusing
<1>8. CASE BadInput(q)
  <2>1. PICK h \in Checking : Runs(q, h) /\ Finish(q, Shown(h, "422"))
    BY <1>8 DEF BadInput
  <2>2. step[q] = "handle" /\ Handler(r) = h
    BY <2>1 DEF Runs, At
  <2>3. Shown(h, "422") \in Statuses /\ (h \in Pages \/ Shown(h, "422") \in {"422", "503"})
    BY DEF Shown, Statuses
  <2>4. Fits(q, Shown(h, "422"))
    <3>1. CASE h \in Pages
      BY <2>2, <3>1, StatusesAre, FinishedPage
    <3>2. CASE Shown(h, "422") \in {"422", "503"}
      BY <1>5, <2>2, <3>2 DEF Fits, MayStillChange, Succeeding
    <3> QED
      BY <2>3, <3>1, <3>2
  <2> QED
    BY <2>1, <2>2, <2>3, <2>4, FinishKeeps DEF Busy
<1>9. CASE AnswerLocally(q)
  <2>1. step[q] = "handle" /\ Finish(q, "200") /\ Handler(r) \in Local
    BY <1>9 DEF AnswerLocally, Runs, At
  <2>2. ~AsksChange(q)
    BY <2>1 DEF AsksChange, Confirming, Local, Changing, Pages
  <2> QED
    BY <2>1, <2>2, FinishKeeps DEF Busy, Fits, MayStillChange, Statuses, Refusing
<1>10. CASE FetchFails(q)
  <2>1. step[q] = "handle" /\ Handler(r) = "FetchPosts" /\ Finish(q, "200")
    BY <1>10 DEF FetchFails, Runs, At, Shown, Pages
  <2> QED
    BY <2>1, FinishKeeps DEF Busy, Fits, MayStillChange, Statuses, Refusing, AsksChange, Confirming, Pages
<1>11. CASE CallFails(q)
  <2> DEFINE s == Unavailable(Handler(r))
  <2>1. step[q] = "call" /\ Finish(q, s)
    BY <1>11 DEF CallFails, At
  <2>2. /\ s \in {"200", "404", "500", "503"}
        /\ s = "200" => Handler(r) \in Pages
        /\ s = "404" => Handler(r) = "GetExport"
    BY StatusesAre
  <2>3. s \in Statuses
    BY <2>2 DEF Statuses
  <2>4. CASE s = "200"
    BY <2>2, <2>4, FinishedPage, FinishKeeps, <2>1 DEF Busy, Statuses
  <2>5. CASE s = "404"
    BY <2>1, <2>2, <2>3, <2>5, MissingExport, FinishKeeps DEF Busy
  <2>6. CASE s \in {"500", "503"}
    BY <2>1, <2>3, <2>6, FinishKeeps DEF Busy, Fits, Refusing, Succeeding
  <2> QED
    BY <2>2, <2>4, <2>5, <2>6
<1>12. CASE Return(q)
  <2> DEFINE h == Handler(r)
             s == Shown(h, call[q])
  <2>1. step[q] = "call" /\ Finish(q, s) /\ call[q] \in Statuses
    BY <1>12 DEF Return, At, IInv, TypeOK
  <2>2. /\ s \in Statuses
        /\ h \in Pages \/ s \in {call[q], "503"} \/ (h = "GetExport" /\ s = "404")
    BY <2>1, StatusesAre
  <2>3. Fits(q, s)
    <3>1. CASE h \in Pages
      BY <3>1, StatusesAre, FinishedPage
    <3>2. CASE s = call[q]
      BY <3>2 DEF IInv, CallOK
    <3>3. CASE s = "503"
      BY <3>3 DEF Fits, Refusing, Succeeding
    <3>4. CASE h = "GetExport" /\ s = "404"
      BY <3>4, MissingExport
    <3> QED
      BY <2>2, <3>1, <3>2, <3>3, <3>4
  <2> QED
    BY <2>1, <2>2, <2>3, FinishKeeps DEF Busy
<1> QED
  BY <1>1, <1>2, <1>3, <1>4, <1>6, <1>7, <1>8, <1>9, <1>10, <1>11, <1>12 DEF Handle

LEMMA CallKeeps ==
    ASSUME IInv, NEW q \in Requests, Call(q)
    PROVE  IInv'
<1> USE DEF IInv, Call, tokens, process, response, At, Runs
<1>1. TypeOK'
  BY DEF TypeOK
<1>2. \A p \in Requests : GateOK(p)'
  BY DEF GateOK, Passed, TypeOK
<1>3. \A p \in Requests : CallOK(p)'
  BY DEF CallOK, Fits, MayStillChange, AsksChange, TypeOK, AnswerOK, Refusing, Succeeding
<1>4. \A p \in Requests : AnswerOK(p)'
  BY DEF AnswerOK, Fits, MayStillChange, AsksChange, TypeOK, Refusing, Succeeding
<1> QED
  BY <1>1, <1>2, <1>3, <1>4

LEMMA WriteKeeps ==
    ASSUME IInv, NEW q \in Requests, Write(q)
    PROVE  IInv'
<1> USE DEF IInv, Write, tokens, process, At
<1>1. Fits(q, "none")
  BY DEF Fits, MayStillChange, Refusing, Succeeding
<1>2. TypeOK'
  <2>1. reply[q] \in Statuses
    BY DEF TypeOK, AnswerOK
  <2> QED
    BY <2>1 DEF TypeOK
<1>3. \A p \in Requests : GateOK(p)'
  BY DEF GateOK, Passed, TypeOK
<1>4. \A p \in Requests : CallOK(p)'
  BY DEF CallOK, Fits, MayStillChange, AsksChange, TypeOK
<1>5. \A p \in Requests : AnswerOK(p)'
  BY <1>1 DEF AnswerOK, Fits, MayStillChange, AsksChange, TypeOK
<1> QED
  BY <1>2, <1>3, <1>4, <1>5

-----------------------------------------------------------------------------
(* Steps of the backends.                                                  *)

(* A call gets its result, with a change or without.                       *)
LEMMA ResultKeeps ==
    ASSUME IInv, NEW q \in Requests, NEW s \in Statuses, NEW n \in {0, 1},
           Result(q, s), Changed(q, n), UNCHANGED tokens,
           n = 1 => /\ Handler(request[q]) \in Changing \ {"ReanalyzePosts"}
                    /\ s \notin Refusing,
           n = 0 => s \notin Succeeding \/ Handler(request[q]) \notin Confirming,
           s \in Refusing => Handler(request[q]) # "ReanalyzePosts"
    PROVE  IInv'
<1> USE DEF IInv, Result, Changed, tokens, process, response
<1>1. /\ Handler(request[q]) # "ReanalyzePosts" => changes[q] = 0
      /\ changes[q] \in {0, 1} /\ changes[q] + n \in {0, 1}
      /\ changes' = [changes EXCEPT ![q] = changes[q] + n]
  BY DEF CallOK, TypeOK
<1>2. TypeOK'
  BY <1>1 DEF TypeOK
<1>4. s \notin {"none", "sent"}
  BY DEF Statuses
<1>3. \A p \in Requests : GateOK(p)'
  BY <1>4 DEF GateOK, Passed, TypeOK
<1>5. CallOK(q)' /\ AnswerOK(q)'
  <2>1. call[q] = "sent" /\ call'[q] = s /\ changes'[q] = changes[q] + n /\ request' = request
    BY <1>1 DEF TypeOK
  <2>2. \A t : Fits(q, t) => Fits(q, t)'
    BY <1>1, <1>4, <2>1 DEF Fits, MayStillChange, AsksChange, Succeeding, Refusing
  <2>3. CallOK(q)'
    BY <1>1, <1>4, <2>1 DEF CallOK, Fits, MayStillChange, AsksChange, Confirming
  <2>4. AnswerOK(q)'
    BY <2>1, <2>2 DEF AnswerOK
  <2> QED
    BY <2>3, <2>4
<1>6. \A p \in Requests \ {q} : CallOK(p)' /\ AnswerOK(p)'
  BY DEF CallOK, AnswerOK, Fits, MayStillChange, AsksChange, TypeOK
<1> QED
  BY <1>2, <1>3, <1>5, <1>6

LEMMA IssueKeeps ==
    ASSUME IInv, NEW q \in Requests, IssueToken(q)
    PROVE  IInv'
<1> USE DEF IInv, IssueToken, Result, process, response
<1>1. Handler(request[q]) \notin Changing
  BY DEF Changing
<1>2. TypeOK'
  <2>1. fresh' \in [Requests -> BOOLEAN]
    BY DEF TypeOK
  <2>2. call' \in [Requests -> {"none", "sent"} \cup Statuses]
    BY DEF TypeOK, Statuses
  <2> QED
    BY <2>1, <2>2 DEF TypeOK
<1>3. \A p \in Requests : fresh[p] => fresh'[p]
  BY DEF TypeOK
<1>4. \A p \in Requests : GateOK(p)'
  <2> SUFFICES ASSUME NEW p \in Requests PROVE GateOK(p)'
    OBVIOUS
  <2>1. Passed(p) => Passed(p)'
    BY <1>3 DEF Passed
  <2>2. step[p] = "validate" /\ request[p].user \in live' => fresh'[p]
    <3>1. CASE request[p].user \in live
      BY <1>3, <3>1 DEF GateOK
    <3>2. CASE request[p].user = request[q].user
      BY <3>2
    <3> QED
      BY <3>1, <3>2
  <2>3. call[p] # "none" <=> call'[p] # "none"
    BY DEF TypeOK
  <2> QED
    BY <1>3, <2>1, <2>2, <2>3 DEF GateOK
<1>5. \A p \in Requests : CallOK(p)'
  <2> SUFFICES ASSUME NEW p \in Requests PROVE CallOK(p)'
    OBVIOUS
  <2>1. CASE p = q
    <3>1. call'[q] = "200" /\ "200" \notin Refusing
      BY DEF TypeOK, Refusing
    <3>2. ~AsksChange(q)'
      BY <1>1 DEF AsksChange, Confirming
    <3> QED
      BY <1>1, <2>1, <3>1, <3>2 DEF CallOK, Fits
  <2>2. CASE p # q
    BY <2>2 DEF CallOK, Fits, MayStillChange, AsksChange, TypeOK
  <2> QED
    BY <2>1, <2>2
<1>6. \A p \in Requests : AnswerOK(p)'
  BY <1>1 DEF AnswerOK, Fits, MayStillChange, AsksChange, TypeOK
<1> QED
  BY <1>2, <1>4, <1>5, <1>6

(* A job that is stored: nobody has been told that it is, or is not.       *)
LEMMA EnqueueKeeps ==
    ASSUME IInv, NEW q \in Requests, Enqueue(q)
    PROVE  IInv'
<1> USE DEF IInv, Enqueue, Changed, tokens, process, handler, response
<1>1. /\ Handler(request[q]) = "ReanalyzePosts" /\ call[q] # "none" /\ changes[q] = 0
      /\ changes' = [changes EXCEPT ![q] = 1]
  OBVIOUS
<1>2. MayStillChange(q) /\ ~AsksChange(q)
  BY <1>1 DEF MayStillChange, AsksChange, Confirming, Changing
<1>3. TypeOK'
  BY <1>1 DEF TypeOK
<1>4. \A p \in Requests : GateOK(p)'
  BY DEF GateOK, Passed
<1>5. \A t : Fits(q, t) => Fits(q, t)'
  BY <1>2 DEF Fits, MayStillChange, AsksChange
<1>6. \A p \in Requests \ {q} : \A t : Fits(p, t) => Fits(p, t)'
  BY <1>1 DEF Fits, MayStillChange, AsksChange, TypeOK
<1>7. \A p \in Requests : CallOK(p)'
  BY <1>1, <1>2, <1>5, <1>6 DEF CallOK, MayStillChange, TypeOK
<1>8. \A p \in Requests : AnswerOK(p)'
  BY <1>5, <1>6 DEF AnswerOK
<1> QED
  BY <1>3, <1>4, <1>7, <1>8

LEMMA ServeKeeps ==
    ASSUME IInv, NEW q \in Requests, Serve(q)
    PROVE  IInv'
<1> DEFINE h == Handler(request[q])
<1>1. CASE Perform(q)
  <2>1. Success(h) \in Statuses /\ Success(h) \notin Refusing
    BY StatusesAre DEF Succeeding, Refusing, Statuses
  <2>2. CASE h \in Changing
    BY <1>1, <2>1, <2>2, ResultKeeps DEF Perform
  <2>3. CASE h \notin Changing
    BY <1>1, <2>1, <2>3, ResultKeeps DEF Perform, Confirming
  <2> QED
    BY <2>2, <2>3
<1>2. CASE PerformPartly(q)
  <2>1. PICK n \in {0, 1} : Changed(q, n)
    BY <1>2 DEF PerformPartly
  <2> QED
    BY <1>2, <2>1, ResultKeeps DEF PerformPartly, Statuses, Refusing, Succeeding, Changing
<1>3. CASE Decline(q)
  <2>1. PICK s \in Refusals(h) : Result(q, s)
    BY <1>3 DEF Decline
  <2>2. s \in Statuses /\ s \notin Succeeding /\ h # "ReanalyzePosts"
    BY <2>1 DEF Refusals, Statuses, Succeeding
  <2>3. Changed(q, 0)
    <3>1. changes' = changes /\ changes \in [Requests -> {0, 1}]
      BY <1>3 DEF Decline, IInv, TypeOK
    <3> QED
      BY <3>1 DEF Changed
  <2> QED
    BY <1>3, <2>1, <2>2, <2>3, ResultKeeps DEF Decline
<1>4. CASE Fail(q)
  <2>1. PICK n \in {0, 1} : Changed(q, IF h \in Changing \ {"ReanalyzePosts"} THEN n ELSE 0)
    BY <1>4 DEF Fail
  <2>2. "500" \in Statuses /\ "500" \notin Succeeding /\ "500" \notin Refusing
    BY DEF Statuses, Succeeding, Refusing
  <2>3. Result(q, "500") /\ UNCHANGED tokens
    BY <1>4 DEF Fail
  <2>4. CASE h \in Changing \ {"ReanalyzePosts"} /\ n = 1
    BY <2>1, <2>2, <2>3, <2>4, ResultKeeps
  <2>5. CASE ~(h \in Changing \ {"ReanalyzePosts"} /\ n = 1)
    <3>1. Changed(q, 0)
      BY <2>1, <2>5
    <3> QED
      BY <2>2, <2>3, <3>1, ResultKeeps
  <2> QED
    BY <2>4, <2>5
<1>5. CASE IssueToken(q)
  BY <1>5, IssueKeeps
<1>6. CASE Publish(q)
  <2>1. Result(q, "202") /\ UNCHANGED tokens /\ h = "ReanalyzePosts"
    BY <1>6 DEF Publish
  <2>2. Changed(q, 0)
    <3>1. changes' = changes /\ changes \in [Requests -> {0, 1}]
      BY <1>6 DEF Publish, IInv, TypeOK
    <3> QED
      BY <3>1 DEF Changed
  <2>3. "202" \in Statuses /\ "202" \notin Refusing /\ h \notin Confirming
    BY <2>1 DEF Statuses, Refusing, Confirming
  <2> QED
    BY <2>1, <2>2, <2>3, ResultKeeps
<1>7. CASE Enqueue(q)
  BY <1>7, EnqueueKeeps
<1> QED
  BY <1>1, <1>2, <1>3, <1>4, <1>5, <1>6, <1>7 DEF Serve

-----------------------------------------------------------------------------
(* Steps of the request's goroutine, of time, and of the process.          *)

LEMMA AnswerKeeps ==
    ASSUME IInv, NEW q \in Requests, Preflight(q) \/ Limit(q)
    PROVE  IInv'
<1>1. PICK s \in {"204", "429"} :
        Answer(q, s) /\ (s = "204" => request[q].method = "OPTIONS")
  BY DEF Preflight, Limit
<1>2. s \in Statuses /\ Fits(q, s)
  <2>1. call[q] = "none" /\ changes[q] = 0
    BY <1>1 DEF IInv, AnswerOK, CallOK, Answer
  <2>2. s = "204" => ~AsksChange(q)
    BY <1>1, PreflightsAreNotFound DEF AsksChange
  <2> QED
    BY <2>1, <2>2 DEF Fits, MayStillChange, Statuses, Succeeding, Refusing
<1> USE <1>1, <1>2 DEF IInv, Answer, tokens, process
<1>3. TypeOK'
  BY DEF TypeOK
<1>4. \A p \in Requests : GateOK(p)'
  BY DEF GateOK, Passed, TypeOK
<1>5. \A p \in Requests : CallOK(p)'
  BY DEF CallOK, Fits, MayStillChange, AsksChange, TypeOK
<1>6. \A p \in Requests : AnswerOK(p)'
  BY DEF AnswerOK, Fits, MayStillChange, AsksChange, TypeOK
<1> QED
  BY <1>3, <1>4, <1>5, <1>6

LEMMA ArriveKeeps ==
    ASSUME IInv, NEW q \in Requests, Arrive(q)
    PROVE  IInv'
<1> USE DEF IInv, Arrive, process
<1>1. TypeOK'
  BY DEF TypeOK
<1>2. \A p \in Requests : GateOK(p)'
  <2>1. GateOK(q)'
    BY DEF GateOK, Passed, TypeOK, AnswerOK
  <2>2. \A p \in Requests \ {q} : GateOK(p)'
    BY DEF GateOK, Passed, TypeOK
  <2> QED
    BY <2>1, <2>2
<1>3. \A p \in Requests : CallOK(p)'
  BY DEF CallOK, Fits, MayStillChange, AsksChange, TypeOK
<1>4. \A p \in Requests : AnswerOK(p)'
  BY DEF AnswerOK, Fits, MayStillChange, AsksChange, TypeOK
<1> QED
  BY <1>1, <1>2, <1>3, <1>4

LEMMA WaitKeeps ==
    ASSUME IInv, NEW q \in Requests, Wait(q) \/ Deadline(q)
    PROVE  IInv'
<1> USE DEF IInv, tokens, process, handler, Timely
<1>1. \A p \in Requests : GateOK(p)' /\ CallOK(p)'
  BY DEF GateOK, Passed, CallOK, Fits, MayStillChange, AsksChange, TypeOK, Wait, Complete, Send, Sent, GiveUp,
         Deadline
<1>2. CASE Deadline(q)
  <2>1. TypeOK'
    BY <1>2 DEF Deadline, TypeOK
  <2>2. \A p \in Requests : AnswerOK(p)'
    BY <1>2 DEF Deadline, AnswerOK, Fits, MayStillChange, AsksChange
  <2> QED
    BY <1>1, <2>1, <2>2
<1>3. CASE GiveUp(q)
  <2>1. TypeOK'
    BY <1>3 DEF GiveUp, TypeOK, Statuses
  <2>2. Fits(q, "504")
    BY DEF Fits, MayStillChange, Refusing, Succeeding
  <2>3. \A p \in Requests : AnswerOK(p)'
    BY <1>3, <2>2 DEF GiveUp, AnswerOK, Fits, MayStillChange, AsksChange, TypeOK
  <2> QED
    BY <1>1, <2>1, <2>3
<1>4. CASE Complete(q) \/ Send(q)
  <2>1. PICK s \in written[q] : told' = [told EXCEPT ![q] = s]
    BY <1>4 DEF Complete, Send, Sent
  <2>2. s \in Statuses /\ Fits(q, s)
    BY <2>1 DEF TypeOK, AnswerOK
  <2>3. TypeOK'
    <3>1. Sent(q)
      BY <1>4 DEF Complete, Send
    <3>2. told' \in [Requests -> {"none"} \cup Statuses]
      BY <2>1, <2>2 DEF TypeOK
    <3>3. wait' \in [Requests -> {"idle", "select", "late"}] /\ expired' \in [Requests -> BOOLEAN]
      BY <3>1 DEF Sent, TypeOK
    <3>4. written' \in [Requests -> SUBSET Statuses]
      BY <3>1 DEF Sent, TypeOK
    <3> QED
      BY <3>1, <3>2, <3>3, <3>4 DEF Sent, TypeOK
  <2>4. \A p \in Requests : AnswerOK(p)'
    BY <1>4, <2>1, <2>2 DEF Complete, Send, Sent, AnswerOK, Fits, MayStillChange, AsksChange, TypeOK
  <2> QED
    BY <1>1, <2>3, <2>4
<1> QED
  BY <1>2, <1>3, <1>4 DEF Wait

LEMMA DieKeeps ==
    ASSUME IInv, Die
    PROVE  IInv'
<1> USE DEF IInv, Die, tokens
<1>1. TypeOK'
  <2>1. told' \in [Requests -> {"none"} \cup Statuses]
    BY DEF TypeOK, Statuses
  <2>2. step' \in [Requests -> {"idle", "validate", "authorize", "handle", "call", "write", "done"}]
    BY DEF TypeOK
  <2>3. reply' \in [Requests -> {"none"} \cup Statuses] /\ written' \in [Requests -> SUBSET Statuses]
    BY DEF TypeOK
  <2>4. wait' \in [Requests -> {"idle", "select", "late"}] /\ expired' \in [Requests -> BOOLEAN]
    BY DEF TypeOK
  <2>5. deaths' \in 0 .. MaxDeaths
    BY DEF TypeOK
  <2> QED
    BY <2>1, <2>2, <2>3, <2>4, <2>5 DEF TypeOK
<1>2. \A p \in Requests : GateOK(p)'
  BY DEF GateOK, Passed, TypeOK
<1>3. \A p \in Requests : CallOK(p)'
  BY DEF CallOK, Fits, MayStillChange, AsksChange, TypeOK
<1>4. \A p \in Requests : AnswerOK(p)'
  <2>1. \A p \in Requests : Fits(p, "none") /\ Fits(p, "reset")
    BY DEF Fits, MayStillChange, Refusing, Succeeding
  <2> QED
    BY <2>1 DEF AnswerOK, Fits, MayStillChange, AsksChange, TypeOK
<1> QED
  BY <1>1, <1>2, <1>3, <1>4

LEMMA RestKeeps ==
    ASSUME IInv, Restart \/ (\E u \in Users : TokenExpires(u)) \/ UNCHANGED vars
    PROVE  IInv'
<1> USE DEF IInv, vars, tokens, process, handler, response
<1>1. TypeOK'
  BY DEF TypeOK, Restart, TokenExpires
<1>2. \A p \in Requests : GateOK(p)'
  BY DEF GateOK, Passed, TypeOK, Restart, TokenExpires
<1>3. \A p \in Requests : CallOK(p)' /\ AnswerOK(p)'
  BY DEF CallOK, AnswerOK, Fits, MayStillChange, AsksChange, Restart, TokenExpires
<1> QED
  BY <1>1, <1>2, <1>3

-----------------------------------------------------------------------------
LEMMA InitIInv == Init => IInv
<1> SUFFICES ASSUME Init PROVE IInv
  OBVIOUS
<1>1. TypeOK
  BY DEF Init, TypeOK
<1>2. ASSUME NEW q \in Requests PROVE GateOK(q) /\ CallOK(q) /\ AnswerOK(q)
  BY DEF Init, GateOK, CallOK, AnswerOK, Fits, MayStillChange, Refusing, Succeeding
<1> QED
  BY <1>1, <1>2 DEF IInv

LEMMA NextIInv == IInv /\ [Next]_vars => IInv'
<1> SUFFICES ASSUME IInv, [Next]_vars PROVE IInv'
  OBVIOUS
<1>1. ASSUME NEW q \in Requests, Handle(q) PROVE IInv'
  BY <1>1, HandleKeeps, CallKeeps, WriteKeeps
<1>2. ASSUME NEW q \in Requests, Collide(q) PROVE IInv'
  BY <1>2, DieKeeps DEF Collide
<1>3. ASSUME Crash PROVE IInv'
  BY <1>3, DieKeeps DEF Crash
<1> QED
  BY <1>1, <1>2, <1>3, AnswerKeeps, ArriveKeeps, ServeKeeps, WaitKeeps, RestKeeps DEF Next

(* The types of all variables: no request changes anything twice.          *)
THEOREM TypeCorrect == Spec => []TypeOK
<1>1. IInv => TypeOK
  BY DEF IInv
<1> QED
  BY InitIInv, NextIInv, <1>1, PTL DEF Spec

(* No change without a live token and a role that may make it.             *)
THEOREM ChangesArePermitted == Spec => []OnlyPermitted
<1>1. IInv => OnlyPermitted
  <2> SUFFICES ASSUME IInv, NEW q \in Requests, changes[q] > 0, Resource(request[q]) # "none"
               PROVE  fresh[q] /\ MayChange(RoleOf[request[q].user], Handler(request[q]),
                                            request[q].mfa)
    BY DEF OnlyPermitted
  <2>1. call[q] # "none" /\ Handler(request[q]) \in Changing
    BY DEF IInv, CallOK
  <2>2. Passed(q) /\ Found(request[q])
    BY <2>1 DEF IInv, GateOK
  <2>3. request[q] \in Inputs
    BY DEF IInv, TypeOK
  <2> QED
    BY <2>1, <2>2, <2>3, RolePermits DEF Passed
<1> QED
  BY InitIInv, NextIInv, <1>1, PTL DEF Spec

-----------------------------------------------------------------------------
(* The refinement.                                                         *)

OutcomeFn == [q \in Requests |-> Outcome(q)]

(* What the client has been told, as far as RequestPromise speaks of it.   *)
OutcomeOK(q) ==
    /\ Outcome(q) \in {"none", "success", "read", "refused", "open"}
    /\ Outcome(q) = "none" <=> told[q] = "none"
    /\ Outcome(q) = "success" => changes[q] = 1
    /\ Outcome(q) \in {"read", "refused"} => changes[q] = 0
    /\ MayStillChange(q) => Outcome(q) \in {"none", "open"}

LEMMA OutcomeFits == IInv => \A q \in Requests : OutcomeOK(q)
<1> SUFFICES ASSUME IInv, NEW q \in Requests PROVE OutcomeOK(q)
  OBVIOUS
<1>1. told[q] \in {"none"} \cup Statuses /\ Fits(q, told[q])
  BY DEF IInv, TypeOK, AnswerOK
<1>2. changes[q] \in {0, 1}
      /\ (changes[q] > 0 => Found(request[q]) /\ Handler(request[q]) \in Changing)
      /\ (call[q] # "none" => Found(request[q]))
      /\ (MayStillChange(q) => Handler(request[q]) \in Changing /\ call[q] # "none")
  BY DEF IInv, TypeOK, CallOK, GateOK, MayStillChange
<1>3. CASE told[q] = "none"
  BY <1>3 DEF Outcome, OutcomeOK
<1>4. CASE told[q] \in Succeeding
  <2>1. told[q] \in {"200", "201", "202", "204"} /\ told[q] # "none"
    BY <1>4 DEF Succeeding
  <2>2. Outcome(q) = IF ~Found(request[q]) THEN "read"
                     ELSE IF Handler(request[q]) \in Confirming THEN "success"
                     ELSE IF Handler(request[q]) \in Changing \cup Pages THEN "open" ELSE "read"
    BY <2>1 DEF Outcome
  <2>3. AsksChange(q) => call[q] # "sent" /\ changes[q] = 1 /\ ~MayStillChange(q)
    BY <1>1, <1>4 DEF Fits, MayStillChange, AsksChange, Confirming
  <2> QED
    BY <1>2, <2>1, <2>2, <2>3 DEF OutcomeOK, AsksChange
<1>5. CASE told[q] \in Refusing
  <2>1. Outcome(q) = "refused" /\ told[q] # "none"
    BY <1>5 DEF Outcome, Refusing
  <2> QED
    BY <1>1, <1>5, <2>1 DEF OutcomeOK, Fits, MayStillChange
<1>6. CASE told[q] \notin {"none"} \cup Succeeding \cup Refusing
  <2>1. Outcome(q) = "open" /\ told[q] # "none"
    BY <1>6 DEF Outcome, Refusing, Succeeding
  <2> QED
    BY <2>1 DEF OutcomeOK
<1> QED
  BY <1>3, <1>4, <1>5, <1>6

(* A step that tells nobody anything.                                      *)
LEMMA Silent ==
    ASSUME told' = told, request' = request
    PROVE  OutcomeFn' = OutcomeFn
  BY DEF OutcomeFn, Outcome

(* A step that tells one client a status.                                  *)
LEMMA Told ==
    ASSUME IInv, \A p \in Requests : OutcomeOK(p), \A p \in Requests : OutcomeOK(p)',
           NEW q \in Requests, NEW s \in Statuses,
           told[q] = "none", told' = [told EXCEPT ![q] = s],
           request' = request, changes' = changes
    PROVE  Promise!Next
<1> DEFINE o == Outcome(q)'
<1>1. told'[q] = s /\ \A p \in Requests \ {q} : told'[p] = told[p]
  BY DEF IInv, TypeOK
<1>2. \A p \in Requests \ {q} : Outcome(p)' = Outcome(p)
  BY <1>1 DEF Outcome
<1>3. OutcomeFn' = [OutcomeFn EXCEPT ![q] = o]
  BY <1>2 DEF OutcomeFn
<1>4. OutcomeFn[q] = "none"
  BY DEF OutcomeFn, OutcomeOK
<1>5. s # "none"
  BY DEF Statuses
<1>6. /\ o \in {"success", "read", "refused", "open"}
      /\ o = "success" => changes[q] = 1
      /\ o \in {"read", "refused"} => changes[q] = 0
  BY <1>1, <1>5 DEF OutcomeOK
<1> HIDE DEF o
<1>7. Promise!Tell(q, o)
  BY <1>3, <1>4, <1>6 DEF Promise!Tell, OutcomeFn
<1> QED
  BY <1>6, <1>7 DEF Promise!Next

(* A backend that makes the change, or does not.                           *)
LEMMA Made ==
    ASSUME IInv, \A p \in Requests : OutcomeOK(p), NEW q \in Requests,
           call[q] = "sent", NEW n \in {0, 1}, Changed(q, n),
           n = 1 => Handler(request[q]) \in Changing \ {"ReanalyzePosts"},
           told' = told, request' = request
    PROVE  [Promise!Next]_Promise!vars
<1>1. OutcomeFn' = OutcomeFn
  BY Silent
<1>2. changes \in [Requests -> {0, 1}] /\ (n = 1 => changes[q] = 0)
  BY DEF IInv, TypeOK, CallOK
<1>3. CASE n = 0
  <2>1. changes' = changes
    BY <1>2, <1>3 DEF Changed
  <2> QED
    BY <1>1, <2>1 DEF Promise!vars, OutcomeFn
<1>4. CASE n = 1
  <2>1. changes' = [changes EXCEPT ![q] = 1]
    BY <1>2, <1>4 DEF Changed
  <2>2. OutcomeFn[q] \in {"none", "open"}
    BY <1>4 DEF OutcomeOK, OutcomeFn, MayStillChange
  <2>3. Promise!Change(q)
    BY <1>1, <1>2, <1>4, <2>1, <2>2 DEF Promise!Change, OutcomeFn
  <2> QED
    BY <2>3 DEF Promise!Next
<1> QED
  BY <1>3, <1>4

(* The death of the process breaks every connection at once.               *)
LEMMA Broken ==
    ASSUME IInv, \A p \in Requests : OutcomeOK(p), Die
    PROVE  Promise!Next
<1> DEFINE broken == {p \in Requests : step[p] # "idle" /\ told[p] = "none"}
<1>1. \A p \in Requests : told'[p] = IF p \in broken THEN "reset" ELSE told[p]
  BY DEF Die
<1>2. request' = request /\ changes' = changes
  BY DEF Die
<1>3. \A p \in Requests : Outcome(p)' = IF p \in broken THEN "open" ELSE Outcome(p)
  BY <1>1, <1>2 DEF Outcome
<1>4. \A p \in broken : OutcomeFn[p] = "none"
  BY DEF OutcomeFn, OutcomeOK
<1>5. OutcomeFn' = [p \in Requests |-> IF p \in broken THEN "open" ELSE OutcomeFn[p]]
  BY <1>3 DEF OutcomeFn
<1>6. broken \in SUBSET Requests
  OBVIOUS
<1> HIDE DEF broken
<1>7. Promise!Break
  BY <1>2, <1>4, <1>5, <1>6 DEF Promise!Break, OutcomeFn
<1> QED
  BY <1>7 DEF Promise!Next

LEMMA NextKeepsPromise ==
    ASSUME IInv, \A p \in Requests : OutcomeOK(p), \A p \in Requests : OutcomeOK(p)',
           [Next]_vars
    PROVE  [Promise!Next]_Promise!vars
<1> USE DEF process, tokens, handler, response
<1>1. ASSUME told' = told, request' = request, changes' = changes
      PROVE  [Promise!Next]_Promise!vars
  BY <1>1, Silent DEF Promise!vars, OutcomeFn
<1>2. ASSUME NEW q \in Requests, Preflight(q) \/ Limit(q)
      PROVE  [Promise!Next]_Promise!vars
  <2>1. PICK s \in {"204", "429"} : Answer(q, s)
    BY <1>2 DEF Preflight, Limit
  <2>2. told[q] = "none"
    BY <2>1 DEF Answer, IInv, AnswerOK
  <2> QED
    BY <2>1, <2>2, Told DEF Answer, Statuses
<1>3. ASSUME NEW q \in Requests, Arrive(q) \/ Handle(q) \/ Deadline(q)
      PROVE  [Promise!Next]_Promise!vars
  BY <1>1, <1>3 DEF Arrive, Deadline, Handle, ValidateToken, InvalidToken, Authorize,
        AuthorizeFails, Deny, NoRoute, NotEnabled, BadInput, AnswerLocally, FetchFails,
        Call, CallFails, Return, Write, Goto, Finish
<1>4. ASSUME NEW q \in Requests, Decline(q) \/ IssueToken(q) \/ Publish(q) \/ GiveUp(q)
      PROVE  [Promise!Next]_Promise!vars
  BY <1>1, <1>4 DEF Decline, IssueToken, Publish, GiveUp, Result
<1>5. ASSUME NEW q \in Requests, Perform(q)
      PROVE  [Promise!Next]_Promise!vars
  BY <1>5, Made DEF Perform, Result
<1>6. ASSUME NEW q \in Requests, PerformPartly(q) \/ Fail(q)
      PROVE  [Promise!Next]_Promise!vars
  <2>1. PICK n \in {0, 1} :
           Changed(q, n) /\ (n = 1 => Handler(request[q]) \in Changing \ {"ReanalyzePosts"})
    BY <1>6 DEF PerformPartly, Fail, Changing
  <2> QED
    BY <1>6, <2>1, Made DEF PerformPartly, Fail, Result
<1>7. ASSUME NEW q \in Requests, Complete(q) \/ Send(q)
      PROVE  [Promise!Next]_Promise!vars
  <2>1. Sent(q) /\ told[q] = "none"
    BY <1>7 DEF Complete, Send, Timely, IInv, AnswerOK
  <2>2. PICK s \in written[q] : told' = [told EXCEPT ![q] = s]
    BY <2>1 DEF Sent
  <2>3. s \in Statuses
    BY <2>2 DEF IInv, TypeOK
  <2> QED
    BY <2>1, <2>2, <2>3, Told DEF Sent
<1>8. ASSUME Die PROVE [Promise!Next]_Promise!vars
  BY <1>8, Broken
<1>9. ASSUME Restart \/ (\E u \in Users : TokenExpires(u)) \/ UNCHANGED vars
      PROVE  [Promise!Next]_Promise!vars
  BY <1>1, <1>9 DEF Restart, TokenExpires, vars
<1>10. ASSUME NEW q \in Requests, Enqueue(q)
       PROVE  [Promise!Next]_Promise!vars
  <2>1. MayStillChange(q)
    BY <1>10 DEF Enqueue, MayStillChange, Changing
  <2>2. OutcomeFn[q] \in {"none", "open"}
    BY <2>1 DEF OutcomeOK, OutcomeFn
  <2>3. OutcomeFn' = OutcomeFn
    BY <1>10, Silent DEF Enqueue
  <2>4. changes[q] = 0 /\ changes' = [changes EXCEPT ![q] = 1]
    BY <1>10 DEF Enqueue, Changed
  <2>5. Promise!Change(q)
    BY <2>2, <2>3, <2>4 DEF Promise!Change, OutcomeFn
  <2> QED
    BY <2>5 DEF Promise!Next
<1> QED
  BY <1>2, <1>3, <1>4, <1>5, <1>6, <1>7, <1>8, <1>9, <1>10 DEF Next, Serve, Wait, Collide, Crash

(* The gateway keeps the promise to its clients, for any number of         *)
(* requests, through timeouts, lost answers and deaths of the process.     *)
THEOREM PromiseKept == Spec => KeepsPromise
<1>1. Init => Promise!Init
  BY DEF Init, Promise!Init, Outcome
<1>2. IInv /\ (\A q \in Requests : OutcomeOK(q)) /\ (\A q \in Requests : OutcomeOK(q))'
      /\ [Next]_vars => [Promise!Next]_Promise!vars
  BY NextKeepsPromise
<1> QED
  BY InitIInv, NextIInv, OutcomeFits, <1>1, <1>2, PTL DEF Spec, KeepsPromise, Promise!Spec

=============================================================================
