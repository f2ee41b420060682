--------------------------------- MODULE Rpc ---------------------------------
(***************************************************************************)
(* A call from the gateway to postsvc or authsvc: models are turned into   *)
(* Thrift structs, encoded, decoded and turned back, on the way there and  *)
(* on the way back, and the service is called in between.  rpcclient       *)
(* promises that its callers need not know about any of it.  One of the    *)
(* two processes may be of a newer version, whose structs have more        *)
(* fields, as while a new release is rolled out.                           *)
(***************************************************************************)
EXTENDS RpcTypes

CONSTANTS
    Store,       \* the posts that postsvc keeps, in the order of the storage
    Inputs,      \* method -> what the gateway may call it with
    Subjects,    \* who may hold a token
    Maps,        \* the attributes of a subject, a resource or a context
    RFC3339,     \* the text of each second
    Now,         \* the time at which a post is created or changed
    MaxInt32     \* bound: the largest 32-bit integer, 2^31 - 1 in the code

(* A fraction of a second, or none.                                        *)
Times == [secs : DOMAIN RFC3339, nanos : {0, 1}]

Posts ==
    [ID : Int, UserID : Int, Title : STRING, Body : STRING, CreatedAt : Times, UpdatedAt : Times]

Filters == [UserID : Int \cup {Nil}, Search : STRING, SortBy : STRING, SortOrder : STRING]
Pages == [Page : Int, PageSize : Int, Offset : Int]
Drafts == [UserID : Int, Title : STRING, Body : STRING]
Holders == [UserID : Int, Username : STRING, Role : STRING, Attributes : Maps]

(* What each method may be asked for.                                      *)
Questions ==
    [ListPosts |-> [filter : Filters \cup {Null}, pagination : Pages \cup {Null}],
     GetPost |-> Int,
     CreatePost |-> Drafts,
     UpdatePost |-> [id : Int, UserID : Int, Title : STRING, Body : STRING],
     DeletePost |-> Int,
     BatchCreatePosts |-> { a \in Seq(Drafts) : Len(a) <= MaxInt32 },
     AnalyzePosts |-> {Null},
     Login |-> [username : STRING, password : STRING],
     ValidateToken |-> STRING,
     Authorize |-> [Subject : Holders, Resource : STRING, Action : STRING,
                    ResourceAttributes : Maps, Context : Maps]]

(* Two seconds have two texts, none of which is empty.  No list has more   *)
(* elements than a 32-bit integer can count.                               *)
ASSUME RpcAssumption ==
    /\ MaxInt32 \in Nat /\ MaxInt32 > 599
    /\ Nil \notin STRING \cup Int
    /\ DOMAIN RFC3339 \subseteq Int
    /\ \A s \in DOMAIN RFC3339 :
          /\ RFC3339[s] \in STRING \ {""}
          /\ \A t \in DOMAIN RFC3339 : RFC3339[s] = RFC3339[t] => s = t
    /\ Now \in Times
    /\ Store \in Seq(Posts) /\ Len(Store) <= MaxInt32
    /\ \A i, j \in DOMAIN Store : Store[i].ID = Store[j].ID => i = j
    /\ DOMAIN Inputs = DOMAIN ArgsOf
    /\ \A m \in DOMAIN Inputs : Inputs[m] \subseteq Questions[m]
    /\ Subjects \subseteq Holders

Int32(n) == ((n + MaxInt32 + 1) % (2 * (MaxInt32 + 1))) - MaxInt32 - 1

-----------------------------------------------------------------------------
(* Package adapt.                                                          *)

Unset(s) == IF s = "" THEN Nil ELSE s
Given(p) == IF p = Nil THEN "" ELSE p

(* RFC3339 has no fractions of a second.                                   *)
Format(t) == RFC3339[t.secs]
Parse(s) ==
    [secs |-> IF s = "" THEN 0 ELSE CHOOSE n \in DOMAIN RFC3339 : RFC3339[n] = s, nanos |-> 0]

ModelToThriftPost(p) ==
    [Id |-> p.ID, UserId |-> p.UserID, Title |-> p.Title, Body |-> p.Body,
     CreatedAt |-> Format(p.CreatedAt), UpdatedAt |-> Format(p.UpdatedAt)]

ThriftPostToModel(p) ==
    [ID |-> p.Id, UserID |-> p.UserId, Title |-> p.Title, Body |-> p.Body,
     CreatedAt |-> Parse(p.CreatedAt), UpdatedAt |-> Parse(p.UpdatedAt)]

ModelFilterToThrift(f) ==
    IF f = Null THEN Null
    ELSE [UserId |-> f.UserID, Search |-> Unset(f.Search),
          SortBy |-> Unset(f.SortBy), SortOrder |-> Unset(f.SortOrder)]

ThriftFilterToModel(f) ==
    IF f = Null THEN Null
    ELSE [UserID |-> f.UserId, Search |-> Given(f.Search),
          SortBy |-> Given(f.SortBy), SortOrder |-> Given(f.SortOrder)]

PageOf(page, size) == [Page |-> page, PageSize |-> size, Offset |-> (page - 1) * size]

(* Mutant of ThriftPaginationToModel: the page number is not checked.      *)
AnyPageToModel(p) ==
    IF p = Null THEN Null
    ELSE PageOf(p.Page, IF p.PageSize < 1 THEN 20 ELSE p.PageSize)

ThriftPaginationToModel(p) ==
    IF p = Null THEN Null
    ELSE PageOf(IF p.Page < 1 THEN 1 ELSE p.Page, IF p.PageSize < 1 THEN 20 ELSE p.PageSize)

ModelPaginationToThrift(m) ==
    IF m = Null
    THEN [Page |-> 0, PageSize |-> 0, TotalItems |-> 0, TotalPages |-> 0,
          HasNext |-> FALSE, HasPrev |-> FALSE]
    ELSE [Page |-> Int32(m.Page), PageSize |-> Int32(m.PageSize),
          TotalItems |-> Int32(m.TotalItems), TotalPages |-> Int32(m.TotalPages),
          HasNext |-> m.HasNext, HasPrev |-> m.HasPrev]

Resp(status, message, extra) ==
    [StatusCode |-> status, StatusMessage |-> message, Extra |-> extra]

OK == Resp(0, "OK", Null)

(* An *errors.AppError, and any other error.                               *)
AppError(code, message, status, fields) ==
    [typed |-> TRUE, Code |-> code, Message |-> message, StatusCode |-> status,
     Fields |-> fields]
Plain(message) == [typed |-> FALSE, Message |-> message]

NotFound == AppError("NOT_FOUND", "Post_not_found", 404, {})
Invalid == AppError("VALIDATION_FAILED", "validation_failed", 422, {"title"})
Wrapped == AppError("INTERNAL_ERROR", "failed_to_update_post", 500, {})
InternalError == AppError("INTERNAL_ERROR", "Internal_server_error", 500, {})

(* Mutant of Err: without the error's code.                                *)
ErrWithoutCode(e) ==
    IF e.typed THEN Resp(Int32(e.StatusCode), e.Message, Null)
    ELSE Resp(500, "internal_error", Null)

Err(e) ==
    IF e.typed THEN Resp(Int32(e.StatusCode), e.Message, [code |-> e.Code])
    ELSE Resp(500, "internal_error", Null)

-----------------------------------------------------------------------------
(* The requests that rpcclient makes of the arguments of its caller.       *)

NewBase == [LogID |-> "", Caller |-> "", Addr |-> "", Client |-> "gateway", Extra |-> Null]

GetAllRequest(a) ==
    [Base |-> NewBase, Filter |-> ModelFilterToThrift(a.filter),
     Pagination |-> IF a.pagination = Null THEN Null
                    ELSE [Page |-> Int32(a.pagination.Page),
                          PageSize |-> Int32(a.pagination.PageSize)]]

CreateRequest(a) ==
    [Base |-> NewBase, UserId |-> a.UserID, Title |-> a.Title, Body |-> a.Body]

(* Mutant of UpdateRequest: the body is sent along with a title only.      *)
UpdateWithTitle(a) ==
    [Base |-> NewBase, Id |-> a.id, Title |-> Unset(a.Title),
     Body |-> IF a.Title = "" THEN Nil ELSE Unset(a.Body)]

UpdateRequest(a) ==
    [Base |-> NewBase, Id |-> a.id, Title |-> Unset(a.Title), Body |-> Unset(a.Body)]

ToThriftSubject(s) ==
    [UserId |-> s.UserID, Username |-> s.Username, Role |-> s.Role,
     Attributes |-> s.Attributes]

AuthorizeCall(a) ==
    [Base |-> NewBase, Subject |-> ToThriftSubject(a.Subject), Resource |-> a.Resource,
     Action |-> a.Action, ResourceAttributes |-> a.ResourceAttributes,
     Context |-> a.Context]

Request(m, a) ==
    CASE m = "ListPosts" -> GetAllRequest(a)
      [] m \in {"GetPost", "DeletePost"} -> [Base |-> NewBase, Id |-> a]
      [] m = "CreatePost" -> CreateRequest(a)
      [] m = "UpdatePost" -> UpdateRequest(a)
      [] m = "BatchCreatePosts" ->
            [Base |-> NewBase, Posts |-> [i \in DOMAIN a |-> CreateRequest(a[i])]]
      [] m = "AnalyzePosts" -> [Base |-> NewBase]
      [] m = "Login" ->
            [Base |-> NewBase, Username |-> a.username, Password |-> a.password]
      [] m = "ValidateToken" -> [Base |-> NewBase, Token |-> a]
      [] m = "Authorize" -> AuthorizeCall(a)

-----------------------------------------------------------------------------
(* What the servers' handlers call the service with.                       *)

ToCreate(req) == [UserID |-> req.UserId, Title |-> req.Title, Body |-> req.Body]

FromThriftSubject(s) ==
    IF s = Null THEN [UserID |-> 0, Username |-> "", Role |-> "", Attributes |-> Null]
    ELSE [UserID |-> s.UserId, Username |-> s.Username, Role |-> s.Role,
          Attributes |-> s.Attributes]

Arguments(m, req) ==
    CASE m = "ListPosts" ->
            [filter |-> ThriftFilterToModel(req.Filter),
             pagination |-> ThriftPaginationToModel(req.Pagination)]
      [] m \in {"GetPost", "DeletePost"} -> req.Id
      [] m = "CreatePost" -> ToCreate(req)
      [] m = "UpdatePost" ->
            [id |-> req.Id, UserID |-> 0, Title |-> Given(req.Title), Body |-> Given(req.Body)]
      [] m = "BatchCreatePosts" -> [i \in DOMAIN req.Posts |-> ToCreate(req.Posts[i])]
      [] m = "AnalyzePosts" -> Null
      [] m = "Login" -> [username |-> req.Username, password |-> req.Password]
      [] m = "ValidateToken" -> req.Token
      [] m = "Authorize" ->
            [Subject |-> FromThriftSubject(req.Subject), Resource |-> req.Resource,
             Action |-> req.Action, ResourceAttributes |-> req.ResourceAttributes,
             Context |-> req.Context]

-----------------------------------------------------------------------------
(* The service: what it may return.  GetAll is spelled out, since what a   *)
(* page holds depends on the arguments.  A text contains only itself here. *)

(* posts[i] for i in I, by key.  Equal keys come in the order of the list: *)
(* sort.Slice has one of its own, also the same for the same list.         *)
Before(key, i, j) == key[i] < key[j] \/ (key[i] = key[j] /\ i < j)
Rank(key, I, i) == Cardinality({ j \in I : Before(key, j, i) }) + 1
Arranged(posts, I, key) ==
    [r \in 1..Cardinality(I) |-> posts[CHOOSE i \in I : Rank(key, I, i) = r]]

Passes(p, f) ==
    f # Null =>
        /\ f.UserID # Nil => p.UserID = f.UserID
        /\ f.Search # "" => f.Search \in {p.Title, p.Body}

FilterPosts(posts, f) ==
    LET kept == { i \in DOMAIN posts : Passes(posts[i], f) }
    IN Arranged(posts, kept, [i \in kept |-> i])

Key(p, by) ==
    CASE by = "createdAt" -> 2 * p.CreatedAt.secs + p.CreatedAt.nanos
      [] by = "updatedAt" -> 2 * p.UpdatedAt.secs + p.UpdatedAt.nanos
      [] OTHER -> p.ID

SortPosts(posts, f) ==
    LET sign == IF f.SortOrder \in {"", "desc"} THEN -1 ELSE 1
    IN IF f = Null THEN posts
       ELSE IF f.SortBy = "" THEN posts
       ELSE Arranged(posts, DOMAIN posts, [i \in DOMAIN posts |-> sign * Key(posts[i], f.SortBy)])

(* Mutant of CalculatePagination: a page that is not full is not counted.  *)
FullPagesOnly(total, p) ==
    [Page |-> p.Page, PageSize |-> p.PageSize, TotalItems |-> total,
     TotalPages |-> total \div p.PageSize, HasNext |-> p.Page < total \div p.PageSize,
     HasPrev |-> p.Page > 1]

CalculatePagination(total, p) ==
    LET all == (total + p.PageSize - 1) \div p.PageSize
        pages == IF all = 0 THEN 1 ELSE all
    IN [Page |-> p.Page, PageSize |-> p.PageSize, TotalItems |-> total,
        TotalPages |-> pages, HasNext |-> p.Page < pages, HasPrev |-> p.Page > 1]

(* The end of a page, which may begin after the end of the list.           *)
PageEnd(p, total) == IF p.Offset + p.PageSize < total THEN p.Offset + p.PageSize ELSE total

Listed(f) == SortPosts(FilterPosts(Store, f), f)

GetAll(a) ==
    LET posts == Listed(a.filter)
        p == a.pagination
    IN IF p = Null THEN [posts |-> posts, meta |-> Null]
       ELSE [posts |-> SubSeq(posts, p.Offset + 1, PageEnd(p, Len(posts))),
             meta |-> CalculatePagination(Len(posts), p)]

Ok(value) == [ok |-> TRUE, value |-> value]
Failed(err) == [ok |-> FALSE, err |-> err]

Stored == { Store[i] : i \in DOMAIN Store }

Created(a, id) ==
    [ID |-> id, UserID |-> a.UserID, Title |-> a.Title, Body |-> a.Body,
     CreatedAt |-> Now, UpdatedAt |-> Now]

Updated(a) ==
    { [ID |-> p.ID, UserID |-> IF a.UserID = 0 THEN p.UserID ELSE a.UserID,
       Title |-> IF a.Title = "" THEN p.Title ELSE a.Title,
       Body |-> IF a.Body = "" THEN p.Body ELSE a.Body,
       CreatedAt |-> p.CreatedAt, UpdatedAt |-> Now]
      : p \in { q \in Stored : q.ID = a.id } }

BulkResult(a, failed) ==
    [Created |-> Len(a) - failed, Failed |-> failed,
     Errors |-> [i \in 1..failed |-> "validation_failed"],
     PostIDs |-> [i \in 1..(Len(a) - failed) |-> Len(Store) + i]]

Analysis ==
    [TotalPosts |-> Len(Store), TotalCharacters |-> 3, UniqueChars |-> 2,
     CharFrequency |-> [a |-> 2, b |-> 1],
     TopCharacters |-> <<[Character |-> "a", Count |-> 2, Frequency |-> 66],
                         [Character |-> "b", Count |-> 1, Frequency |-> 33]>>,
     Statistics |-> [AveragePostLength |-> 1, MedianPostLength |-> 1,
                     PostsPerUser |-> [u \in { p.UserID : p \in Stored } |-> 1],
                     TimeDistribution |-> [morning |-> 1]]]

Errors(m) ==
    CASE m \in {"GetPost", "DeletePost"} -> {NotFound, Wrapped}
      [] m \in {"CreatePost", "BatchCreatePosts"} -> {Invalid, Wrapped}
      [] m = "UpdatePost" -> {NotFound, Invalid, Wrapped}
      [] m \in {"ListPosts", "AnalyzePosts"} -> {Wrapped, Plain("pq_connection_reset")}
      [] m \in {"Login", "ValidateToken"} -> {Plain("invalid")}
      [] m = "Authorize" -> {}

Values(m, a) ==
    CASE m = "ListPosts" -> {GetAll(a)}
      [] m = "GetPost" -> { p \in Stored : p.ID = a }
      [] m = "CreatePost" -> {Created(a, Len(Store) + 1)}
      [] m = "UpdatePost" -> Updated(a)
      [] m = "DeletePost" -> {Null}
      [] m = "BatchCreatePosts" -> { BulkResult(a, n) : n \in 0..Len(a) }
      [] m = "AnalyzePosts" -> {Analysis}
      [] m = "Login" -> { [Token |-> "token", Subject |-> s] : s \in Subjects }
      [] m = "ValidateToken" -> Subjects
      [] m = "Authorize" ->
            { [Allowed |-> b, Reason |-> "reason", MatchedPolicy |-> "policy"] : b \in BOOLEAN }

Outcomes(m, a) == { Ok(v) : v \in Values(m, a) } \cup { Failed(e) : e \in Errors(m) }

-----------------------------------------------------------------------------
(* The responses that the servers' handlers make of it.                    *)

(* What a handler leaves out of a response stays the zero of its type.  A  *)
(* list that failed comes with a page of zeros.                            *)
Fail(schema, m, e) ==
    [n \in DOMAIN schema |->
        IF n = "Pagination" THEN ModelPaginationToThrift(Null)
        ELSE IF n # "BaseResp" THEN InitDefault(schema[n])
        ELSE IF m \in {"Login", "ValidateToken"} THEN Resp(1, e.Message, Null)
        ELSE Err(e)]

Succeed(m, v) ==
    CASE m = "ListPosts" ->
            [Posts |-> [i \in DOMAIN v.posts |-> ModelToThriftPost(v.posts[i])],
             Pagination |-> ModelPaginationToThrift(v.meta), BaseResp |-> OK]
      [] m \in {"GetPost", "CreatePost", "UpdatePost"} ->
            [Post |-> ModelToThriftPost(v), BaseResp |-> OK]
      [] m = "DeletePost" -> [BaseResp |-> OK]
      [] m = "BatchCreatePosts" ->
            [Created |-> Int32(v.Created), Failed |-> Int32(v.Failed), Errors |-> v.Errors,
             PostIds |-> v.PostIDs, BaseResp |-> OK]
      [] m = "AnalyzePosts" ->
            [TotalPosts |-> Int32(v.TotalPosts), TotalCharacters |-> v.TotalCharacters,
             UniqueChars |-> Int32(v.UniqueChars), TopCharacters |-> v.TopCharacters,
             Statistics |-> v.Statistics, BaseResp |-> OK]
      [] m = "Login" ->
            [Token |-> v.Token, ExpiresAt |-> 1, Subject |-> ToThriftSubject(v.Subject),
             BaseResp |-> OK]
      [] m = "ValidateToken" ->
            [Valid |-> TRUE, Subject |-> ToThriftSubject(v), BaseResp |-> OK]
      [] m = "Authorize" ->
            [Allowed |-> v.Allowed, Reason |-> v.Reason, MatchedPolicy |-> v.MatchedPolicy,
             BaseResp |-> OK]

Response(m, result) ==
    IF result.ok THEN Succeed(m, result.value)
    ELSE Fail(ResultOf[m].Success.type.schema, m, result.err)

-----------------------------------------------------------------------------
(* What rpcclient makes of a response for its caller.                      *)

RpcErr(resp) ==
    IF resp.StatusCode \in 400..499
    THEN AppError(IF resp.Extra = Null THEN "ERROR" ELSE resp.Extra.code,
                  resp.StatusMessage, resp.StatusCode, {})
    ELSE InternalError

Decoded(m, resp) ==
    CASE m = "ListPosts" ->
            [posts |-> [i \in DOMAIN resp.Posts |-> ThriftPostToModel(resp.Posts[i])],
             meta |-> resp.Pagination]
      [] m \in {"GetPost", "CreatePost", "UpdatePost"} -> ThriftPostToModel(resp.Post)
      [] m = "DeletePost" -> Null
      [] m = "BatchCreatePosts" ->
            [Created |-> resp.Created, Failed |-> resp.Failed, Errors |-> resp.Errors,
             PostIDs |-> resp.PostIds]
      [] m = "AnalyzePosts" ->
            [TotalPosts |-> resp.TotalPosts, TotalCharacters |-> resp.TotalCharacters,
             UniqueChars |-> resp.UniqueChars, CharFrequency |-> Null,
             TopCharacters |-> resp.TopCharacters, Statistics |-> resp.Statistics]
      [] m = "Login" -> [Token |-> resp.Token, Subject |-> FromThriftSubject(resp.Subject)]
      [] m = "ValidateToken" -> FromThriftSubject(resp.Subject)
      [] m = "Authorize" ->
            [Allowed |-> resp.Allowed, Reason |-> resp.Reason,
             MatchedPolicy |-> resp.MatchedPolicy]

Answer(m, resp) ==
    LET failed == resp.BaseResp.StatusCode # 0
        message == resp.BaseResp.StatusMessage
    IN CASE m = "ValidateToken" /\ ~resp.Valid -> Failed(Plain(message))
         [] m = "Login" /\ failed -> Failed(AppError("UNAUTHORIZED", message, 401, {}))
         [] m = "Authorize" /\ failed -> Failed(Plain(message))
         [] m \notin {"ValidateToken", "Login", "Authorize"} /\ failed ->
                Failed(RpcErr(resp.BaseResp))
         [] OTHER -> Ok(Decoded(m, resp))

(* The call itself fails.                                                  *)
Broken(m) ==
    CASE m = "Login" ->
            AppError("SERVICE_UNAVAILABLE", "authentication_service_unavailable", 503, {})
      [] m \in {"ValidateToken", "Authorize"} -> Plain("authsvc_rpc")
      [] OTHER -> InternalError

-----------------------------------------------------------------------------
VARIABLES
    newer,     \* which of the two, "client" or "server", is of a newer version
    at,        \* where the call is
    method,    \* what is called, and ...
    asked,     \* ... what the gateway asks for
    wire,      \* the bytes on their way, or Nil
    served,    \* what the service is called with, or Nil
    result,    \* what the service has returned, or Nil
    got,       \* what the caller gets, or Nil
    walk       \* history: the pages that the caller has gone through

vars == <<newer, at, method, asked, wire, served, result, got, walk>>

(* The fields of the newer version.                                        *)
Added(side) == IF side \in newer THEN {200} ELSE {}

Sent(m, a) == FastWrite(Added("client"), ArgsOf[m], [Req |-> Request(m, a)])

Init ==
    /\ newer \in {{}, {"client"}, {"server"}}
    /\ at = "request"
    /\ method \in DOMAIN Inputs
    /\ asked \in Inputs[method]
    /\ wire = Sent(method, asked)
    /\ served = Nil /\ result = Nil /\ got = Nil
    /\ walk = [from |-> 0, posts |-> <<>>]

Receive ==
    /\ at = "request"
    /\ at' = "serve"
    /\ served' = Arguments(method, FastRead(ArgsOf[method], wire).Req)
    /\ wire' = Nil
    /\ UNCHANGED <<newer, method, asked, result, got, walk>>

Serve ==
    /\ at = "serve"
    /\ at' = "response"
    /\ result' \in Outcomes(method, served)
    /\ wire' = FastWrite(Added("server"), ResultOf[method],
                         [Success |-> Response(method, result')])
    /\ UNCHANGED <<newer, method, asked, served, got, walk>>

Take ==
    /\ at = "response"
    /\ at' = "done"
    /\ got' = Answer(method, FastRead(ResultOf[method], wire).Success)
    /\ wire' = Nil
    /\ walk' = IF method # "ListPosts" \/ ~got'.ok \/ asked.pagination = Null THEN walk
               ELSE [from |-> IF walk.from = 0 THEN served.pagination.Offset + 1 ELSE walk.from,
                     posts |-> walk.posts \o got'.value.posts]
    /\ UNCHANGED <<newer, method, asked, served, result>>

(* The connection breaks or the deadline passes; if the service still      *)
(* answers, nobody reads it.                                               *)
Break ==
    /\ at \in {"request", "serve", "response"}
    /\ at' = "broken"
    /\ got' = Failed(Broken(method))
    /\ wire' = Nil
    /\ UNCHANGED <<newer, method, asked, served, result, walk>>

(* The user of the web page or of the API asks for the next page: the page *)
(* counts for itself where it is, from 1 on, and looks at HasNext.         *)
NextPage ==
    /\ at = "done" /\ method = "ListPosts" /\ got.ok
    /\ asked.pagination # Null /\ got.value.meta.HasNext
    /\ asked.pagination.Page \in 1..MaxInt32
    /\ at' = "request"
    /\ asked' = [filter |-> asked.filter,
                 pagination |-> PageOf(asked.pagination.Page + 1, asked.pagination.PageSize)]
    /\ wire' = Sent(method, asked')
    /\ served' = Nil /\ result' = Nil /\ got' = Nil
    /\ UNCHANGED <<newer, method, walk>>

Next == Receive \/ Serve \/ Take \/ Break \/ NextPage

Spec == Init /\ [][Next]_vars

-----------------------------------------------------------------------------
(* The service is asked for what the caller asked for: an update keeps     *)
(* what is not sent, a filter is neither lost nor invented, the page is    *)
(* the same one.  Two things do not cross: the user of an update, and page *)
(* numbers and sizes beyond 32 bits.                                       *)
SameRequest ==
    at \in {"serve", "response"} =>
        CASE method = "ListPosts" ->
                LET p == asked.pagination IN
                /\ served.filter = asked.filter
                /\ p = Null => served.pagination = Null
                /\ p # Null =>
                    (p.Page \in 1..MaxInt32 /\ p.PageSize \in 1..MaxInt32
                        => served.pagination = PageOf(p.Page, p.PageSize))
          [] method = "UpdatePost" -> served = [asked EXCEPT !.UserID = 0]
          [] OTHER -> served = asked

(* Whatever page and size come in, and however they are cut to 32 bits,    *)
(* the service divides by no size that is not positive and cuts no page    *)
(* that begins before the list.                                            *)
PageIsSound ==
    at = "serve" /\ method = "ListPosts" =>
        LET p == served.pagination IN
        p # Null => p.PageSize > 0 /\ p.Offset >= 0 /\ p.Offset = (p.Page - 1) * p.PageSize

Seen(t) == [t EXCEPT !.nanos = 0]
SeenPost(p) ==
    [ID |-> p.ID, UserID |-> p.UserID, Title |-> p.Title, Body |-> p.Body,
     CreatedAt |-> Seen(p.CreatedAt), UpdatedAt |-> Seen(p.UpdatedAt)]

SeenValue(m, v) ==
    CASE m = "ListPosts" ->
            [posts |-> [i \in DOMAIN v.posts |-> SeenPost(v.posts[i])],
             meta |-> IF v.meta = Null THEN ModelPaginationToThrift(Null) ELSE v.meta]
      [] m \in {"GetPost", "CreatePost", "UpdatePost"} -> SeenPost(v)
      [] m = "AnalyzePosts" -> [v EXCEPT !.CharFrequency = Null]
      [] OTHER -> v

(* README.md:227: an error of the service with a status below 500 is the   *)
(* same error at the gateway, except for its fields, and any other error   *)
(* says nothing; a failed check of a token or a password is always one.    *)
SeenError(m, e) ==
    CASE m = "ValidateToken" -> e
      [] m = "Login" -> AppError("UNAUTHORIZED", e.Message, 401, {})
      [] m \notin {"ValidateToken", "Login"} /\ e.typed ->
            IF e.StatusCode < 500 THEN AppError(e.Code, e.Message, e.StatusCode, {})
            ELSE InternalError
      [] OTHER -> InternalError

(* The caller gets what the service returned, whichever version either is  *)
(* of, but for fractions of seconds, the table of all characters, and what *)
(* SeenError says; or learns that the call has failed.                     *)
SameAnswer ==
    at = "done" =>
        got = IF result.ok THEN Ok(SeenValue(method, result.value))
              ELSE Failed(SeenError(method, result.err))

(* Who goes on to the next page as long as there is one has seen every     *)
(* post that the filter lets through, from the first page on and in the    *)
(* order asked for, exactly once.                                          *)
WalkIsComplete ==
    at = "done" /\ walk.from > 0 /\ got.ok =>
        LET all == Listed(asked.filter)
            passed == SubSeq(all, walk.from, Len(all))
        IN ~got.value.meta.HasNext =>
            walk.posts = [i \in DOMAIN passed |-> SeenPost(passed[i])]

=============================================================================
