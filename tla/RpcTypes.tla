------------------------------ MODULE RpcTypes ------------------------------
(***************************************************************************)
(* The structs and methods of idl/thrift/{base,post,auth}.thrift, as the   *)
(* generated code reads and writes them.                                   *)
(***************************************************************************)
EXTENDS Wire

Base ==
    [LogID |-> Field(1, TString), Caller |-> Field(2, TString), Addr |-> Field(3, TString),
     Client |-> Field(4, TString), Extra |-> Optional(5, TMap(TString))]

BaseResp ==
    [StatusMessage |-> Field(1, TString), StatusCode |-> Field(2, TI32),
     Extra |-> Optional(3, TMap(TString))]

(* Every request carries a Base and every response a BaseResp.             *)
TheBase == Field(1, TStruct(Base))
TheBaseResp == Field(255, TStruct(BaseResp))

-----------------------------------------------------------------------------
(* post.thrift                                                             *)

Post ==
    [Id |-> Field(1, TI64), UserId |-> Field(2, TI64), Title |-> Field(3, TString),
     Body |-> Field(4, TString), CreatedAt |-> Field(5, TString), UpdatedAt |-> Field(6, TString)]

PostFilter ==
    [UserId |-> Optional(1, TI64), Search |-> Optional(2, TString),
     SortBy |-> Optional(3, TString), SortOrder |-> Optional(4, TString)]

Pagination == [Page |-> Field(1, TI32), PageSize |-> Field(2, TI32)]

PaginationMeta ==
    [Page |-> Field(1, TI32), PageSize |-> Field(2, TI32), TotalItems |-> Field(3, TI32),
     TotalPages |-> Field(4, TI32), HasNext |-> Field(5, TBool), HasPrev |-> Field(6, TBool)]

ListPostsRequest ==
    [Base |-> TheBase, Filter |-> Optional(2, TStruct(PostFilter)),
     Pagination |-> Optional(3, TStruct(Pagination))]
ListPostsResponse ==
    [BaseResp |-> TheBaseResp, Posts |-> Field(1, TList(TStruct(Post))),
     Pagination |-> Field(2, TStruct(PaginationMeta))]

GetPostRequest == [Base |-> TheBase, Id |-> Field(2, TI64)]
GetPostResponse == [BaseResp |-> TheBaseResp, Post |-> Field(1, TStruct(Post))]

CreatePostRequest ==
    [Base |-> TheBase, UserId |-> Field(2, TI64), Title |-> Field(3, TString),
     Body |-> Field(4, TString)]
CreatePostResponse == [BaseResp |-> TheBaseResp, Post |-> Field(1, TStruct(Post))]

UpdatePostRequest ==
    [Base |-> TheBase, Id |-> Field(2, TI64), Title |-> Optional(3, TString),
     Body |-> Optional(4, TString)]
UpdatePostResponse == [BaseResp |-> TheBaseResp, Post |-> Field(1, TStruct(Post))]

DeletePostRequest == [Base |-> TheBase, Id |-> Field(2, TI64)]
DeletePostResponse == [BaseResp |-> TheBaseResp]

BatchCreatePostsRequest ==
    [Base |-> TheBase, Posts |-> Field(2, TList(TStruct(CreatePostRequest)))]
BatchCreatePostsResponse ==
    [BaseResp |-> TheBaseResp, Created |-> Field(1, TI32), Failed |-> Field(2, TI32),
     Errors |-> Field(3, TList(TString)), PostIds |-> Field(4, TList(TI64))]

CharacterStat ==
    [Character |-> Field(1, TString), Count |-> Field(2, TI64), Frequency |-> Field(3, TDouble)]

AnalyticsStats ==
    [AveragePostLength |-> Field(1, TDouble), MedianPostLength |-> Field(2, TI32),
     PostsPerUser |-> Field(3, TMap(TI32)), TimeDistribution |-> Field(4, TMap(TI32))]

AnalyzePostsRequest == [Base |-> TheBase]
AnalyzePostsResponse ==
    [BaseResp |-> TheBaseResp, TotalPosts |-> Field(1, TI32), TotalCharacters |-> Field(2, TI64),
     UniqueChars |-> Field(3, TI32), TopCharacters |-> Field(4, TList(TStruct(CharacterStat))),
     Statistics |-> Field(5, TStruct(AnalyticsStats))]

-----------------------------------------------------------------------------
(* auth.thrift                                                             *)

Subject ==
    [UserId |-> Field(1, TI64), Username |-> Field(2, TString), Role |-> Field(3, TString),
     Attributes |-> Field(4, TMap(TString))]

LoginRequest ==
    [Base |-> TheBase, Username |-> Field(2, TString), Password |-> Field(3, TString)]
LoginResponse ==
    [BaseResp |-> TheBaseResp, Token |-> Field(1, TString), ExpiresAt |-> Field(2, TI64),
     Subject |-> Field(3, TStruct(Subject))]

ValidateTokenRequest == [Base |-> TheBase, Token |-> Field(2, TString)]
ValidateTokenResponse ==
    [BaseResp |-> TheBaseResp, Valid |-> Field(1, TBool), Subject |-> Field(2, TStruct(Subject))]

AuthorizeRequest ==
    [Base |-> TheBase, Subject |-> Field(2, TStruct(Subject)), Resource |-> Field(3, TString),
     Action |-> Field(4, TString), ResourceAttributes |-> Optional(5, TMap(TString)),
     Context |-> Optional(6, TMap(TString))]
AuthorizeResponse ==
    [BaseResp |-> TheBaseResp, Allowed |-> Field(1, TBool), Reason |-> Field(2, TString),
     MatchedPolicy |-> Field(3, TString)]

-----------------------------------------------------------------------------
(* A call carries its request as the one argument of the method, and the   *)
(* response as its result.                                                 *)
Args(request) == [Req |-> Field(1, TStruct(request))]
Result(response) == [Success |-> Optional(0, TStruct(response))]

PostServiceListPostsArgs == Args(ListPostsRequest)
PostServiceListPostsResult == Result(ListPostsResponse)
PostServiceGetPostArgs == Args(GetPostRequest)
PostServiceGetPostResult == Result(GetPostResponse)
PostServiceCreatePostArgs == Args(CreatePostRequest)
PostServiceCreatePostResult == Result(CreatePostResponse)
PostServiceUpdatePostArgs == Args(UpdatePostRequest)
PostServiceUpdatePostResult == Result(UpdatePostResponse)
PostServiceDeletePostArgs == Args(DeletePostRequest)
PostServiceDeletePostResult == Result(DeletePostResponse)
PostServiceBatchCreatePostsArgs == Args(BatchCreatePostsRequest)
PostServiceBatchCreatePostsResult == Result(BatchCreatePostsResponse)
PostServiceAnalyzePostsArgs == Args(AnalyzePostsRequest)
PostServiceAnalyzePostsResult == Result(AnalyzePostsResponse)
AuthServiceLoginArgs == Args(LoginRequest)
AuthServiceLoginResult == Result(LoginResponse)
AuthServiceValidateTokenArgs == Args(ValidateTokenRequest)
AuthServiceValidateTokenResult == Result(ValidateTokenResponse)
AuthServiceAuthorizeArgs == Args(AuthorizeRequest)
AuthServiceAuthorizeResult == Result(AuthorizeResponse)

ArgsOf ==
    [ListPosts |-> PostServiceListPostsArgs, GetPost |-> PostServiceGetPostArgs,
     CreatePost |-> PostServiceCreatePostArgs, UpdatePost |-> PostServiceUpdatePostArgs,
     DeletePost |-> PostServiceDeletePostArgs,
     BatchCreatePosts |-> PostServiceBatchCreatePostsArgs,
     AnalyzePosts |-> PostServiceAnalyzePostsArgs,
     Login |-> AuthServiceLoginArgs, ValidateToken |-> AuthServiceValidateTokenArgs,
     Authorize |-> AuthServiceAuthorizeArgs]

ResultOf ==
    [ListPosts |-> PostServiceListPostsResult, GetPost |-> PostServiceGetPostResult,
     CreatePost |-> PostServiceCreatePostResult, UpdatePost |-> PostServiceUpdatePostResult,
     DeletePost |-> PostServiceDeletePostResult,
     BatchCreatePosts |-> PostServiceBatchCreatePostsResult,
     AnalyzePosts |-> PostServiceAnalyzePostsResult,
     Login |-> AuthServiceLoginResult, ValidateToken |-> AuthServiceValidateTokenResult,
     Authorize |-> AuthServiceAuthorizeResult]

=============================================================================
