------------------------------- MODULE Gateway -------------------------------
(***************************************************************************)
(* One HTTP request through the gateway: rate limit, deadline, access      *)
(* control through two RPCs to authsvc, the router, the handler with its   *)
(* call of a backend, and the answer.  Timeout runs the handler in a       *)
(* goroutine of its own, which lives on when the deadline has passed;      *)
(* both goroutines write to the same response, and neither the RPCs nor    *)
(* the backends are promised to answer.                                    *)
(***************************************************************************)
EXTENDS Integers, Sequences, FiniteSets

CONSTANTS
    Requests,    \* the request goroutines
    Inputs,      \* requests: their route, method, user, mfa header, and whether
                 \* the handler's checks of id and body pass (good)
    May,         \* what each client may send
    Users,       \* the accounts of authsvc
    RoleOf,      \* the role of each account
    NoUser,      \* a request without a bearer token
    Enabled,     \* the optional backends: "rabbitmq", "minio", "triton"
    Faults,      \* "limit", "rpc", "service", "crash"
    MaxDeaths    \* bound: how often the gateway dies

Methods == {"GET", "POST", "PUT", "PATCH", "DELETE"}

ASSUME GatewayAssumption ==
    /\ \A r \in Inputs :
          /\ {"route", "method", "user", "mfa", "good"} \subseteq DOMAIN r
          /\ r.method \in Methods \cup {"OPTIONS"}
          /\ r.mfa \in BOOLEAN
    /\ \A q \in Requests : May[q] \subseteq Inputs
    /\ NoUser \notin Users
    /\ MaxDeaths \in Nat

-----------------------------------------------------------------------------
(* The routes of runServe, Router.ServeHTTP and handleV1, with the handler *)
(* of each method.                                                         *)

Served ==
    { <<"posts", "GET", "ListPosts">>, <<"posts", "POST", "CreatePost">>,
      <<"post", "GET", "GetPost">>, <<"post", "PUT", "UpdatePost">>,
      <<"post", "DELETE", "DeletePost">>,
      <<"bulk", "POST", "BulkCreatePosts">>, <<"export", "GET", "ExportPosts">>,
      <<"analytics", "GET", "AnalyzePosts">>,
      <<"reanalyze", "POST", "ReanalyzePosts">>,
      <<"sentiment", "POST", "ClassifySentiment">>,
      <<"exports", "GET", "ListExports">>, <<"exports/", "GET", "GetExport">>,
      <<"api/auth/login", "POST", "Login">> }

For(path, methods, h) == { <<path, m, h>> : m \in methods }

(* Most are for any method; what no pattern of /web/posts takes goes to    *)
(* the pattern "/".                                                        *)
OpenRoutes ==
    { <<"web", "GET", "WebListPosts">>, <<"web", "POST", "WebCreatePost">>,
      <<"web/", "GET", "WebGetPost">>, <<"web/", "PUT", "WebUpdatePost">>,
      <<"web/", "DELETE", "WebDeletePost">>, <<"/add", "POST", "AddPost">> }
    \cup For("web", Methods \ {"GET", "POST"}, "Home")
    \cup For("web/", Methods \ {"GET", "PUT", "DELETE"}, "Home")
    \cup For("/add", Methods \ {"POST"}, "AddForm")
    \cup For("login", Methods, "Login") \cup For("/", Methods, "Home")
    \cup For("/fetch", Methods, "FetchPosts") \cup For("/analyze", Methods, "Analyze")
    \cup For("/health", Methods, "Health") \cup For("/readiness", Methods, "Readiness")

AdminRoutes == For("admin", Methods, "AdminStatus")

Table == Served \cup OpenRoutes \cup AdminRoutes
Handlers == { entry[3] : entry \in Table }

Found(r) == \E h \in Handlers : <<r.route, r.method, h>> \in Table
Handler(r) == CHOOSE h \in Handlers : <<r.route, r.method, h>> \in Table

(* The ABAC resource that guards a route, or "none".                       *)
Resource(r) ==
    IF \E entry \in OpenRoutes : entry[1] = r.route THEN "none"
    ELSE IF \E entry \in AdminRoutes : entry[1] = r.route THEN "admin"
    ELSE "post"

NotServed(r) == IF \E entry \in Table : entry[1] = r.route THEN "405" ELSE "404"

Changing ==
    {"CreatePost", "UpdatePost", "DeletePost", "BulkCreatePosts", "ReanalyzePosts",
     "WebCreatePost", "WebUpdatePost", "WebDeletePost", "FetchPosts", "AddPost"}

Pages == {"AddForm", "Home", "FetchPosts", "Analyze", "AddPost"}

(* The handlers whose success says that the change is made: a page is sent *)
(* whatever happened, and ReanalyzePosts does not wait for the broker.     *)
Confirming == Changing \ (Pages \cup {"ReanalyzePosts"})

(* The handlers that answer without a call.                                *)
Local == {"AdminStatus", "AddForm", "Health"}

(* The handlers that check an id, a body, a format or a form.              *)
Checking ==
    {"GetPost", "CreatePost", "UpdatePost", "DeletePost", "BulkCreatePosts",
     "ExportPosts", "ClassifySentiment", "Login", "WebCreatePost", "WebGetPost",
     "WebUpdatePost", "WebDeletePost", "AddPost", "GetExport"}

Optional(h) ==
    CASE h = "ReanalyzePosts" -> {"rabbitmq"}
      [] h \in {"ListExports", "GetExport"} -> {"minio"}
      [] h = "ClassifySentiment" -> {"triton"}
      [] OTHER -> {}

Success(h) ==
    CASE h \in {"CreatePost", "BulkCreatePosts", "WebCreatePost"} -> "201"
      [] h = "ReanalyzePosts" -> "202"
      [] h = "WebDeletePost" -> "204"
      [] OTHER -> "200"

(* The typed errors of the backend that a handler passes on.               *)
Refusals(h) ==
    (IF h \in {"GetPost", "UpdatePost", "DeletePost", "GetExport",
               "WebGetPost", "WebUpdatePost", "WebDeletePost"} THEN {"404"} ELSE {})
    \cup
    (IF h \in {"CreatePost", "UpdatePost", "WebCreatePost", "WebUpdatePost"} THEN {"422"} ELSE {})
    \cup (IF h = "Login" THEN {"401"} ELSE {})

-----------------------------------------------------------------------------
ActionByMethod(m) ==
    CASE m = "GET" -> "read" [] m = "DELETE" -> "delete" [] OTHER -> "write"

(* abac.DefaultPolicies and Evaluate: the first match decides; all the     *)
(* built-in policies allow, and no match is a denial.                      *)
Policy(resource, action, role, mfa) ==
    [resource |-> resource, action |-> action, role |-> role, mfa |-> mfa]

DefaultPolicies ==
    { Policy("*", "*", "admin", FALSE),
      Policy("post", "delete", "editor", TRUE),
      Policy("post", "write", "editor", FALSE),
      Policy("post", "read", "editor", FALSE),
      Policy("post", "read", "viewer", FALSE) }

Matches(p, role, resource, action, mfa) ==
    /\ p.resource \in {"*", resource}
    /\ p.action \in {"*", action}
    /\ p.role \in {"*", role}
    /\ p.mfa => mfa

Evaluate(r) ==
    \E p \in DefaultPolicies :
        Matches(p, RoleOf[r.user], Resource(r), ActionByMethod(r.method), r.mfa)

-----------------------------------------------------------------------------
VARIABLES
    alive,     \* whether the gateway's process runs
    deaths,    \* how often it has died, against MaxDeaths
    live,      \* the users who hold a token that has not expired
    request,   \* what each client sends
    fresh,     \* history: the token was live at some time since the arrival
    step,      \* where the handler's goroutine is
    call,      \* the call of the backend: "none", "sent", or its result
    reply,     \* the status the handler answers with, or "none"
    wait,      \* where Timeout is: "idle", "select" or "late"
    expired,   \* whether the context has ended, by the deadline or otherwise
    written,   \* the statuses written to the response that is not sent yet
    told,      \* the status the client has got, or "none"
    changes    \* history: how often the request has changed the posts or the queue

process == <<alive, deaths>>
tokens == <<live, fresh>>
handler == <<step, call, reply>>
response == <<wait, expired, written, told>>
vars == <<process, tokens, request, handler, response, changes>>

Statuses ==
    {"200", "201", "202", "204", "207", "401", "403", "404", "405", "422", "429",
     "500", "503", "504", "reset"}

Init ==
    /\ alive = TRUE /\ deaths = 0
    /\ request \in { f \in [Requests -> Inputs] : \A q \in Requests : f[q] \in May[q] }
    /\ live = Users \cap { request[q].user : q \in Requests }
    /\ fresh = [q \in Requests |-> FALSE]
    /\ step = [q \in Requests |-> "idle"]
    /\ call = [q \in Requests |-> "none"]
    /\ reply = [q \in Requests |-> "none"]
    /\ wait = [q \in Requests |-> "idle"]
    /\ expired = [q \in Requests |-> FALSE]
    /\ written = [q \in Requests |-> {}]
    /\ told = [q \in Requests |-> "none"]
    /\ changes = [q \in Requests |-> 0]

-----------------------------------------------------------------------------
(* The middleware before Timeout.                                          *)

Answer(q, s) ==
    /\ alive /\ step[q] = "idle"
    /\ step' = [step EXCEPT ![q] = "done"]
    /\ told' = [told EXCEPT ![q] = s]
    /\ UNCHANGED <<process, tokens, request, call, reply, wait, expired, written, changes>>

Preflight(q) == request[q].method = "OPTIONS" /\ Answer(q, "204")

Limit(q) == request[q].method # "OPTIONS" /\ "limit" \in Faults /\ Answer(q, "429")

(* Timeout starts the goroutine that runs the rest.                        *)
Arrive(q) ==
    /\ alive /\ step[q] = "idle" /\ request[q].method # "OPTIONS"
    /\ step' = [step EXCEPT ![q] =
          IF Resource(request[q]) = "none" THEN "handle" ELSE "validate"]
    /\ wait' = [wait EXCEPT ![q] = "select"]
    /\ fresh' = [fresh EXCEPT ![q] = request[q].user \in live]
    /\ UNCHANGED <<process, live, request, call, reply, expired, written, told, changes>>

-----------------------------------------------------------------------------
(* The handler's goroutine: the ABAC middleware.                           *)

At(q, s) == alive /\ step[q] = s

Goto(q, s) ==
    /\ step' = [step EXCEPT ![q] = s]
    /\ UNCHANGED <<process, tokens, request, call, reply, response, changes>>

Finish(q, s) ==
    /\ step' = [step EXCEPT ![q] = "write"]
    /\ reply' = [reply EXCEPT ![q] = s]
    /\ UNCHANGED <<process, tokens, request, call, response, changes>>

RpcFails(q) == "rpc" \in Faults \/ expired[q]

(* authsvc parses the token; none is sent without one.                     *)
ValidateToken(q) == At(q, "validate") /\ request[q].user \in live /\ Goto(q, "authorize")

InvalidToken(q) ==
    /\ At(q, "validate")
    /\ request[q].user \notin live \/ RpcFails(q)
    /\ Finish(q, "401")

Authorize(q) == At(q, "authorize") /\ Evaluate(request[q]) /\ Goto(q, "handle")

(* Mutant of AuthorizeFails: the request passes when authsvc does not      *)
(* answer.                                                                 *)
AuthorizeOpen(q) == At(q, "authorize") /\ RpcFails(q) /\ Goto(q, "handle")

AuthorizeFails(q) == At(q, "authorize") /\ RpcFails(q) /\ Finish(q, "403")

Deny(q) == At(q, "authorize") /\ ~Evaluate(request[q]) /\ Finish(q, "403")

-----------------------------------------------------------------------------
(* The handler's goroutine: router and handler.                            *)

Runs(q, h) == At(q, "handle") /\ Found(request[q]) /\ Handler(request[q]) = h

NoRoute(q) ==
    /\ At(q, "handle") /\ ~Found(request[q])
    /\ Finish(q, NotServed(request[q]))

NotEnabled(q) ==
    \E h \in Handlers :
        Runs(q, h) /\ ~(Optional(h) \subseteq Enabled) /\ Finish(q, "503")

(* A page reports an error in a page of its own, with status 200,          *)
(* Readiness every error as 503, and GetExport every error of MinIO as a   *)
(* missing export.                                                         *)
Shown(h, s) ==
    CASE h \in Pages -> "200"
      [] h = "Readiness" /\ s # "200" -> "503"
      [] h = "GetExport" /\ s = "500" -> "404"
      [] OTHER -> s

BadInput(q) ==
    \E h \in Checking :
        /\ Runs(q, h) /\ Optional(h) \subseteq Enabled
        /\ ~request[q].good
        /\ Finish(q, Shown(h, "422"))

AnswerLocally(q) == \E h \in Local : Runs(q, h) /\ Finish(q, "200")

(* FetchPosts asks the external API first.                                 *)
FetchFails(q) ==
    Runs(q, "FetchPosts") /\ RpcFails(q) /\ Finish(q, Shown("FetchPosts", "500"))

Call(q) ==
    /\ \E h \in Handlers \ Local :
          /\ Runs(q, h) /\ Optional(h) \subseteq Enabled
          /\ h \in Checking => request[q].good
    /\ step' = [step EXCEPT ![q] = "call"]
    /\ call' = [call EXCEPT ![q] = "sent"]
    /\ UNCHANGED <<process, tokens, request, reply, response, changes>>

Unavailable(h) == IF h = "Login" THEN "503" ELSE Shown(h, "500")

(* Mutant of CallFails: the failed call is made again.                     *)
CallAgain(q) ==
    /\ At(q, "call") /\ RpcFails(q)
    /\ call' = [call EXCEPT ![q] = "sent"]
    /\ UNCHANGED <<process, tokens, request, step, reply, response, changes>>

(* Mutant of CallFails: a lost answer is taken for a missing post.         *)
CallMisses(q) == At(q, "call") /\ RpcFails(q) /\ Finish(q, "404")

(* The call fails on its way or at the deadline; the backend may have been *)
(* reached or may still be.                                                *)
CallFails(q) ==
    /\ At(q, "call") /\ RpcFails(q)
    /\ Finish(q, Unavailable(Handler(request[q])))

Return(q) ==
    /\ At(q, "call") /\ call[q] \notin {"none", "sent"}
    /\ Finish(q, Shown(Handler(request[q]), call[q]))

(* The goroutine writes the answer and ends.  Assumed of Hertz: what is    *)
(* written to a response after it was sent goes nowhere, not even when     *)
(* Hertz uses the object for another request.                              *)
Write(q) ==
    /\ At(q, "write")
    /\ step' = [step EXCEPT ![q] = "done"]
    /\ reply' = [reply EXCEPT ![q] = "none"]
    /\ written' = [written EXCEPT ![q] = IF wait[q] = "idle" THEN {} ELSE @ \cup {reply[q]}]
    /\ UNCHANGED <<process, tokens, request, call, wait, expired, told, changes>>

-----------------------------------------------------------------------------
(* The backends: postsvc, authsvc's Login, RabbitMQ, MinIO, Triton.  They  *)
(* go on with a call that the gateway has given up.                        *)

Result(q, s) ==
    /\ call[q] = "sent"
    /\ call' = [call EXCEPT ![q] = s]
    /\ UNCHANGED <<process, request, step, reply, response>>

Changed(q, n) == changes' = [changes EXCEPT ![q] = @ + n]

Perform(q) ==
    LET h == Handler(request[q]) IN
    /\ call[q] = "sent" /\ h \notin {"Login", "ReanalyzePosts"}
    /\ Result(q, Success(h))
    /\ Changed(q, IF h \in Changing THEN 1 ELSE 0)
    /\ UNCHANGED tokens

(* PublishWithContext returns when the job is handed to the connection:    *)
(* there are no confirms.                                                  *)
Publish(q) ==
    /\ At(q, "call") /\ Handler(request[q]) = "ReanalyzePosts"
    /\ Result(q, "202")
    /\ UNCHANGED <<tokens, changes>>

(* The broker stores the job, before or after the client is answered, or   *)
(* never.                                                                  *)
Enqueue(q) ==
    /\ call[q] # "none" /\ Handler(request[q]) = "ReanalyzePosts"
    /\ changes[q] = 0
    /\ Changed(q, 1)
    /\ UNCHANGED <<process, tokens, request, handler, response>>

(* A bulk request of which some items fail, or all.                        *)
PerformPartly(q) ==
    /\ call[q] = "sent"
    /\ Handler(request[q]) \in {"BulkCreatePosts", "FetchPosts"}
    /\ Result(q, "207")
    /\ \E n \in {0, 1} : Changed(q, n)
    /\ UNCHANGED tokens

Decline(q) ==
    /\ call[q] = "sent"
    /\ \E s \in Refusals(Handler(request[q])) : Result(q, s)
    /\ UNCHANGED <<tokens, changes>>

(* An internal error, before or after the change was made; a job that      *)
(* could not be published may yet be stored (Enqueue).                     *)
Fail(q) ==
    LET h == Handler(request[q]) IN
    /\ "service" \in Faults
    /\ call[q] = "sent" /\ h # "Login"
    /\ Result(q, "500")
    /\ \E n \in {0, 1} :
          Changed(q, IF h \in Changing \ {"ReanalyzePosts"} THEN n ELSE 0)
    /\ UNCHANGED tokens

IssueToken(q) ==
    /\ call[q] = "sent"
    /\ Handler(request[q]) = "Login"
    /\ request[q].user \in Users
    /\ Result(q, "200")
    /\ live' = live \cup {request[q].user}
    /\ fresh' = [p \in Requests |->
          fresh[p] \/ (step[p] # "idle" /\ request[p].user = request[q].user)]
    /\ UNCHANGED changes

TokenExpires(u) ==
    /\ u \in live
    /\ live' = live \ {u}
    /\ UNCHANGED <<process, fresh, request, handler, response, changes>>

-----------------------------------------------------------------------------
(* Timeout: the goroutine of the request.                                  *)

Timely(q) == alive /\ wait[q] = "select"

Deadline(q) ==
    /\ Timely(q) /\ ~expired[q]
    /\ expired' = [expired EXCEPT ![q] = TRUE]
    /\ UNCHANGED <<process, tokens, request, handler, wait, written, told, changes>>

(* The response is sent when the request's goroutine returns, which also   *)
(* cancels the context.  If handler and timeout have both written, either  *)
(* status may be the one sent.                                             *)
Sent(q) ==
    /\ wait' = [wait EXCEPT ![q] = "idle"]
    /\ \E s \in written[q] : told' = [told EXCEPT ![q] = s]
    /\ written' = [written EXCEPT ![q] = {}]
    /\ expired' = [expired EXCEPT ![q] = TRUE]
    /\ UNCHANGED <<process, tokens, request, handler, changes>>

Complete(q) == Timely(q) /\ step[q] = "done" /\ Sent(q)

(* Mutant of GiveUp: it waits for the handler to notice the deadline.      *)
GiveUpAfter(q) ==
    /\ Timely(q) /\ expired[q] /\ step[q] = "done"
    /\ wait' = [wait EXCEPT ![q] = "late"]
    /\ written' = [written EXCEPT ![q] = @ \cup {"504"}]
    /\ UNCHANGED <<process, tokens, request, handler, expired, told, changes>>

GiveUp(q) ==
    /\ Timely(q) /\ expired[q]
    /\ wait' = [wait EXCEPT ![q] = "late"]
    /\ written' = [written EXCEPT ![q] = @ \cup {"504"}]
    /\ UNCHANGED <<process, tokens, request, handler, expired, told, changes>>

Send(q) == alive /\ wait[q] = "late" /\ Sent(q)

-----------------------------------------------------------------------------
(* The process.                                                            *)

(* Every request in it is cut off.                                         *)
Die ==
    /\ alive /\ deaths < MaxDeaths
    /\ alive' = FALSE
    /\ deaths' = deaths + 1
    /\ told' = [q \in Requests |->
          IF step[q] # "idle" /\ told[q] = "none" THEN "reset" ELSE told[q]]
    /\ step' = [q \in Requests |-> IF step[q] = "idle" THEN "idle" ELSE "done"]
    /\ reply' = [q \in Requests |-> "none"]
    /\ wait' = [q \in Requests |-> "idle"]
    /\ written' = [q \in Requests |-> {}]
    /\ expired' = [q \in Requests |-> step[q] # "idle"]
    /\ UNCHANGED <<tokens, request, call, changes>>

(* The handler and the timeout use the header map of one response at the   *)
(* same time, which the runtime may answer by ending the process.          *)
Collide(q) == At(q, "write") /\ Timely(q) /\ expired[q] /\ Die

(* A panic in the goroutine that Timeout has started, where Recovery does  *)
(* not see it; or the process is killed.                                   *)
Crash == "crash" \in Faults /\ Die

Restart ==
    /\ ~alive
    /\ alive' = TRUE
    /\ UNCHANGED <<deaths, tokens, request, handler, response, changes>>

-----------------------------------------------------------------------------
Handle(q) ==
    \/ ValidateToken(q) \/ InvalidToken(q)
    \/ Authorize(q) \/ AuthorizeFails(q) \/ Deny(q)
    \/ NoRoute(q) \/ NotEnabled(q) \/ BadInput(q) \/ AnswerLocally(q) \/ FetchFails(q)
    \/ Call(q) \/ CallFails(q) \/ Return(q) \/ Write(q)

Serve(q) ==
    \/ Perform(q) \/ PerformPartly(q) \/ Decline(q) \/ Fail(q) \/ IssueToken(q)
    \/ Publish(q) \/ Enqueue(q)

Wait(q) == Complete(q) \/ GiveUp(q) \/ Send(q)

Next ==
    \/ \E q \in Requests :
          \/ Preflight(q) \/ Limit(q) \/ Arrive(q)
          \/ Handle(q) \/ Serve(q) \/ Deadline(q) \/ Wait(q) \/ Collide(q)
    \/ \E u \in Users : TokenExpires(u)
    \/ Crash \/ Restart

(* Time passes and Timeout's goroutine runs on.  Neither the handler nor   *)
(* the backends are fair: they may hang.                                   *)
Fairness == \A q \in Requests : WF_vars(Deadline(q)) /\ WF_vars(Wait(q))

Spec == Init /\ [][Next]_vars
FairSpec == Spec /\ Fairness

-----------------------------------------------------------------------------
(* Every variable has its type; no request changes anything twice.         *)
TypeOK ==
    /\ alive \in BOOLEAN /\ deaths \in 0..MaxDeaths
    /\ live \subseteq Users
    /\ request \in [Requests -> Inputs]
    /\ fresh \in [Requests -> BOOLEAN]
    /\ step \in [Requests -> {"idle", "validate", "authorize", "handle", "call", "write", "done"}]
    /\ call \in [Requests -> {"none", "sent"} \cup Statuses]
    /\ reply \in [Requests -> {"none"} \cup Statuses]
    /\ wait \in [Requests -> {"idle", "select", "late"}]
    /\ expired \in [Requests -> BOOLEAN]
    /\ written \in [Requests -> SUBSET Statuses]
    /\ told \in [Requests -> {"none"} \cup Statuses]
    /\ changes \in [Requests -> {0, 1}]

(* README.md:145-148, handler by handler, whatever method and policy carry *)
(* it there: who may change posts through the protected API, ...           *)
MayChange(role, h, mfa) ==
    \/ role = "admin"
    \/ role = "editor" /\ (h = "DeletePost" => mfa)

(* ... and that no change is made by a request that does not bring a token *)
(* that was live while it was handled and whose role may make it: not when *)
(* authsvc fails or is slow, nor when the token expires in between.        *)
OnlyPermitted ==
    \A q \in Requests :
        changes[q] > 0 /\ Resource(request[q]) # "none" =>
            /\ fresh[q]
            /\ MayChange(RoleOf[request[q].user], Handler(request[q]), request[q].mfa)

(* What the client may conclude: the gateway keeps the promise of          *)
(* RequestPromise, through timeouts, lost answers, late effects and deaths *)
(* of the process.  A page and 207 tell the outcome in their body, and 202 *)
(* leaves it open.                                                         *)
Outcome(q) ==
    CASE told[q] = "none" -> "none"
      [] told[q] \in {"200", "201", "202", "204"} ->
            IF ~Found(request[q]) THEN "read"
            ELSE IF Handler(request[q]) \in Confirming THEN "success"
            ELSE IF Handler(request[q]) \in Changing \cup Pages THEN "open" ELSE "read"
      [] told[q] \in {"401", "403", "404", "405", "422", "429"} -> "refused"
      [] OTHER -> "open"
Promise == INSTANCE RequestPromise WITH outcome <- [q \in Requests |-> Outcome(q)]
KeepsPromise == Promise!Spec

(* Every request that has arrived is answered, or cut off by the death of  *)
(* the process, though handlers and backends may hang.                     *)
EventuallyAnswered == \A q \in Requests : step[q] # "idle" ~> told[q] # "none"

=============================================================================
