------------------------------ MODULE RpcProofs ------------------------------
(***************************************************************************)
(* The proofs about Rpc: the codec carries a struct whole, whichever side  *)
(* is of a newer version; so the service is asked what the gateway was     *)
(* asked, and answers it what it returned; so whoever turns the pages of a *)
(* list has seen all of it.                                                *)
(***************************************************************************)
EXTENDS Rpc, FiniteSetTheorems, SequenceTheorems, TLAPS

-----------------------------------------------------------------------------
(* Integers.                                                               *)

LEMMA ModSmall == ASSUME NEW a \in Nat, NEW b \in Nat, a < b PROVE a % b = a
OBVIOUS

LEMMA ModRange == ASSUME NEW a \in Int, NEW b \in Nat, b > 0 PROVE a % b \in 0 .. b - 1
OBVIOUS

LEMMA DivIs ==
    ASSUME NEW a \in Nat, NEW b \in Nat, b > 0
    PROVE  a \div b \in Nat /\ (a \div b) * b <= a /\ a < (a \div b) * b + b
OBVIOUS

LEMMA Bound == MaxInt32 \in Nat /\ MaxInt32 > 599
BY RpcAssumption

LEMMA Typed == DOMAIN RFC3339 \subseteq Int /\ Now \in Times /\ Subjects \subseteq Holders
BY RpcAssumption

LEMMA StoreBound == Store \in Seq(Posts) /\ Len(Store) \in Nat /\ Len(Store) <= MaxInt32
<1>1. Store \in Seq(Posts) /\ Len(Store) <= MaxInt32
  BY RpcAssumption
<1> QED BY <1>1

(* What fits in 32 bits is not changed, and everything is made to fit.     *)
LEMMA Int32Same ==
    ASSUME NEW n \in Int, -MaxInt32 - 1 <= n, n <= MaxInt32  PROVE Int32(n) = n
BY ModSmall, Bound DEF Int32

LEMMA Int32Range ==
    ASSUME NEW n \in Int
    PROVE  Int32(n) \in Int /\ -MaxInt32 - 1 <= Int32(n) /\ Int32(n) <= MaxInt32
BY ModRange, Bound DEF Int32

-----------------------------------------------------------------------------
(* The codec, one level after the other.                                   *)

(* No two fields have the same id, and none has that of the added ones.    *)
Sound(S) ==
    \A n \in DOMAIN S : S[n].id # 200 /\ \A m \in DOMAIN S : S[n].id = S[m].id => n = m

(* The fields that a reader takes are those that the writer has not left   *)
(* out, with the payloads that it gave them.                               *)
LEMMA Arrives ==
    ASSUME NEW S, NEW v, NEW p, NEW new \in SUBSET {200}, Sound(S), DOMAIN v = DOMAIN S
    PROVE  LET w == Struct(new, S, v, p) IN
           /\ Came(S, w) = Present(S, v)
           /\ \A n \in Present(S, v) : w[S[n].id].payload = p[n]
<1> DEFINE w == Struct(new, S, v, p)
           ids == { S[n].id : n \in Present(S, v) }
           Of(i) == CHOOSE n \in Present(S, v) : S[n].id = i
           more == { id \in new : DOMAIN v # {} }
<1>0. Present(S, v) \subseteq DOMAIN S
  BY DEF Present
<1>1. ASSUME NEW n \in Present(S, v)  PROVE Of(S[n].id) = n
  <2>1. \A k \in Present(S, v) : S[k].id = S[n].id => k = n
    BY <1>0 DEF Sound
  <2> QED BY <2>1
<1>2. w = [i \in ids \cup more |->
            IF i \in ids THEN [ttype |-> S[Of(i)].type.kind, payload |-> p[Of(i)]]
            ELSE [ttype |-> "STRING", payload |-> "added"]]
  BY DEF Struct
<1>3. \A i \in more : i = 200
  OBVIOUS
<1> HIDE DEF w, Of, more
<1>4. ASSUME NEW n \in Present(S, v)
      PROVE  /\ S[n].id \in DOMAIN w
             /\ w[S[n].id].ttype = S[n].type.kind
             /\ w[S[n].id].payload = p[n]
  <2>1. S[n].id \in ids
    OBVIOUS
  <2>2. Of(S[n].id) = n
    BY <1>1
  <2> HIDE DEF ids
  <2> QED BY <1>2, <2>1, <2>2
<1>5. ASSUME NEW n \in DOMAIN S, S[n].id \in DOMAIN w  PROVE n \in Present(S, v)
  <2>1. S[n].id # 200
    BY DEF Sound
  <2>2. S[n].id \in ids
    BY <1>2, <1>3, <1>5, <2>1
  <2> QED BY <1>0, <2>2 DEF Sound
<1>6. Came(S, w) = Present(S, v)
  BY <1>0, <1>4, <1>5 DEF Came
<1>7. \A n \in Present(S, v) : w[S[n].id].payload = p[n]
  BY <1>4
<1> QED BY <1>6, <1>7 DEF w

(* What Through makes of a payload, without the operator for an argument.  *)
Out1(new, type, x) ==
    CASE type.kind = "STRUCT" -> Write1(new, type.schema, x)
      [] type.kind = "LIST" /\ type.of.kind = "STRUCT" ->
            [i \in DOMAIN x |-> Write1(new, type.of.schema, x[i])]
      [] OTHER -> x
Out2(new, type, x) ==
    CASE type.kind = "STRUCT" -> Write2(new, type.schema, x)
      [] type.kind = "LIST" /\ type.of.kind = "STRUCT" ->
            [i \in DOMAIN x |-> Write2(new, type.of.schema, x[i])]
      [] OTHER -> x
Out3(new, type, x) ==
    CASE type.kind = "STRUCT" -> Write3(new, type.schema, x)
      [] type.kind = "LIST" /\ type.of.kind = "STRUCT" ->
            [i \in DOMAIN x |-> Write3(new, type.of.schema, x[i])]
      [] OTHER -> x
In1(type, x) ==
    CASE type.kind = "STRUCT" -> Read1(type.schema, x)
      [] type.kind = "LIST" /\ type.of.kind = "STRUCT" ->
            [i \in DOMAIN x |-> Read1(type.of.schema, x[i])]
      [] OTHER -> x
In2(type, x) ==
    CASE type.kind = "STRUCT" -> Read2(type.schema, x)
      [] type.kind = "LIST" /\ type.of.kind = "STRUCT" ->
            [i \in DOMAIN x |-> Read2(type.of.schema, x[i])]
      [] OTHER -> x
In3(type, x) ==
    CASE type.kind = "STRUCT" -> Read3(type.schema, x)
      [] type.kind = "LIST" /\ type.of.kind = "STRUCT" ->
            [i \in DOMAIN x |-> Read3(type.of.schema, x[i])]
      [] OTHER -> x

(* A type without a struct in it.                                          *)
Flat(type) == type.kind # "STRUCT" /\ ~(type.kind = "LIST" /\ type.of.kind = "STRUCT")

(* A field comes through, be it that it is left out.                       *)
Carried1(new, f, x) == (f.optional /\ x = InitDefault(f)) \/ In1(f.type, Out1(new, f.type, x)) = x
Carried2(new, f, x) == (f.optional /\ x = InitDefault(f)) \/ In2(f.type, Out2(new, f.type, x)) = x

LEMMA Level1 ==
    ASSUME NEW S, NEW v, NEW new \in SUBSET {200}, Sound(S), DOMAIN v = DOMAIN S,
           NEW n \in DOMAIN S, Flat(S[n].type)
    PROVE  Read1(S, Write1(new, S, v))[n] = v[n]
<1> DEFINE w == Struct(new, S, v, v)
<1>1. Read1(S, w)[n] = IF n \in Came(S, w) THEN w[S[n].id].payload ELSE InitDefault(S[n])
  BY DEF Read1, ReadFields, Through, Flat
<1>2. Came(S, w) = Present(S, v) /\ (n \in Present(S, v) => w[S[n].id].payload = v[n])
  BY Arrives
<1> QED BY <1>1, <1>2 DEF Write1, Present

LEMMA Level2 ==
    ASSUME NEW S, NEW v, NEW new \in SUBSET {200}, Sound(S), DOMAIN v = DOMAIN S,
           NEW n \in DOMAIN S, Carried1(new, S[n], v[n])
    PROVE  Read2(S, Write2(new, S, v))[n] = v[n]
<1> DEFINE p == [k \in DOMAIN v |-> Out1(new, S[k].type, v[k])]
           w == Struct(new, S, v, p)
<1>1. Write2(new, S, v) = w
  BY DEF Write2, WriteFields, Through, Out1
<1>2. Read2(S, w)[n] =
        IF n \in Came(S, w) THEN In1(S[n].type, w[S[n].id].payload) ELSE InitDefault(S[n])
  BY DEF Read2, ReadFields, Through, In1
<1>3. Came(S, w) = Present(S, v) /\ (n \in Present(S, v) => w[S[n].id].payload = p[n])
  BY Arrives
<1> QED BY <1>1, <1>2, <1>3 DEF Carried1, Present

LEMMA Level3 ==
    ASSUME NEW S, NEW v, NEW new \in SUBSET {200}, Sound(S), DOMAIN v = DOMAIN S,
           NEW n \in DOMAIN S, Carried2(new, S[n], v[n])
    PROVE  Read3(S, Write3(new, S, v))[n] = v[n]
<1> DEFINE p == [k \in DOMAIN v |-> Out2(new, S[k].type, v[k])]
           w == Struct(new, S, v, p)
<1>1. Write3(new, S, v) = w
  BY DEF Write3, WriteFields, Through, Out2
<1>2. Read3(S, w)[n] =
        IF n \in Came(S, w) THEN In2(S[n].type, w[S[n].id].payload) ELSE InitDefault(S[n])
  BY DEF Read3, ReadFields, Through, In2
<1>3. Came(S, w) = Present(S, v) /\ (n \in Present(S, v) => w[S[n].id].payload = p[n])
  BY Arrives
<1> QED BY <1>1, <1>2, <1>3 DEF Carried2, Present

(* The one argument of a call, and the result.                             *)
LEMMA Level4 ==
    ASSUME NEW S, NEW n, NEW f, S = [k \in {n} |-> f], f.type.kind = "STRUCT", f.id # 200,
           NEW v, v = [k \in {n} |-> v[n]],
           f.optional => v[n] # InitDefault(f),
           NEW new \in SUBSET {200}
    PROVE  FastRead(S, FastWrite(new, S, v))[n]
             = Read3(f.type.schema, Write3(new, f.type.schema, v[n]))
<1> DEFINE p == [k \in DOMAIN v |-> Out3(new, S[k].type, v[k])]
           w == Struct(new, S, v, p)
<1>1. FastWrite(new, S, v) = w
  BY DEF FastWrite, WriteFields, Through, Out3
<1>2. FastRead(S, w)[n] =
        IF n \in Came(S, w) THEN In3(S[n].type, w[S[n].id].payload) ELSE InitDefault(S[n])
  BY DEF FastRead, ReadFields, Through, In3
<1>3. Sound(S) /\ DOMAIN v = DOMAIN S /\ n \in DOMAIN S /\ S[n] = f
  BY DEF Sound
<1>4. Came(S, w) = Present(S, v) /\ (n \in Present(S, v) => w[S[n].id].payload = p[n])
  BY <1>3, Arrives
<1>5. n \in Present(S, v)
  BY <1>3 DEF Present
<1>6. p[n] = Write3(new, f.type.schema, v[n])
  BY <1>3 DEF Out3
<1> HIDE DEF p, w
<1>7. In3(f.type, p[n]) = Read3(f.type.schema, p[n])
  BY DEF In3
<1> QED BY <1>1, <1>2, <1>3, <1>4, <1>5, <1>6, <1>7

-----------------------------------------------------------------------------
(* A struct that has no struct in it comes through whole.                  *)
FlatStruct(S) == Sound(S) /\ \A n \in DOMAIN S : Flat(S[n].type)

(* v has the fields of S.                                                  *)
Of(S, v) == v = [n \in DOMAIN S |-> v[n]]

LEMMA FlatSchemas ==
    /\ FlatStruct(Base) /\ FlatStruct(BaseResp) /\ FlatStruct(Post) /\ FlatStruct(PostFilter)
    /\ FlatStruct(Pagination) /\ FlatStruct(PaginationMeta) /\ FlatStruct(CharacterStat)
    /\ FlatStruct(AnalyticsStats) /\ FlatStruct(Subject)
<1> USE DEF FlatStruct, Sound, Flat, Field, Optional, TBool, TI32, TI64, TDouble, TString, TMap
<1>1. FlatStruct(Base)
  BY DEF Base
<1>2. FlatStruct(BaseResp)
  BY DEF BaseResp
<1>3. FlatStruct(Post)
  BY DEF Post
<1>4. FlatStruct(PostFilter)
  BY DEF PostFilter
<1>5. FlatStruct(Pagination)
  BY DEF Pagination
<1>6. FlatStruct(PaginationMeta)
  BY DEF PaginationMeta
<1>7. FlatStruct(CharacterStat)
  BY DEF CharacterStat
<1>8. FlatStruct(AnalyticsStats)
  BY DEF AnalyticsStats
<1>9. FlatStruct(Subject)
  BY DEF Subject
<1> QED BY <1>1, <1>2, <1>3, <1>4, <1>5, <1>6, <1>7, <1>8, <1>9

LEMMA FlatWhole ==
    ASSUME NEW S, FlatStruct(S), NEW v, Of(S, v), NEW new \in SUBSET {200}
    PROVE  Read1(S, Write1(new, S, v)) = v /\ Read2(S, Write2(new, S, v)) = v
<1>1. Sound(S) /\ DOMAIN v = DOMAIN S
  BY DEF FlatStruct, Of
<1>2. ASSUME NEW n \in DOMAIN S
      PROVE  Read1(S, Write1(new, S, v))[n] = v[n] /\ Read2(S, Write2(new, S, v))[n] = v[n]
  <2>1. Flat(S[n].type)
    BY DEF FlatStruct
  <2>2. Carried1(new, S[n], v[n])
    BY <2>1 DEF Carried1, In1, Out1, Flat
  <2> QED BY <1>1, <2>1, <2>2, Level1, Level2
<1> DEFINE r1 == Read1(S, Write1(new, S, v))
           r2 == Read2(S, Write2(new, S, v))
<1>3. r1 = [n \in DOMAIN S |-> r1[n]]
  BY DEF Read1, ReadFields
<1>4. r2 = [n \in DOMAIN S |-> r2[n]]
  BY DEF Read2, ReadFields
<1> HIDE DEF r1, r2
<1>5. \A n \in DOMAIN S : r1[n] = v[n] /\ r2[n] = v[n]
  BY <1>2 DEF r1, r2
<1>6. r1 = v /\ r2 = v
  BY <1>3, <1>4, <1>5 DEF Of
<1> QED BY <1>6 DEF r1, r2

(* What a field of a request or a response may be, to come through.        *)
LEMMA FlatField ==
    ASSUME NEW f, Flat(f.type), NEW x, NEW new  PROVE Carried2(new, f, x)
BY DEF Carried2, In2, Out2, Flat

LEMMA StructField ==
    ASSUME NEW f, f.type.kind = "STRUCT", FlatStruct(f.type.schema),
           NEW x, Of(f.type.schema, x), NEW new \in SUBSET {200}
    PROVE  Carried2(new, f, x)
BY FlatWhole DEF Carried2, In2, Out2

LEMMA ListField ==
    ASSUME NEW f, f.type.kind = "LIST", f.type.of.kind = "STRUCT", NEW new,
           NEW x, x = [i \in DOMAIN x |-> x[i]],
           \A i \in DOMAIN x : Read2(f.type.of.schema, Write2(new, f.type.of.schema, x[i])) = x[i]
    PROVE  Carried2(new, f, x)
<1> DEFINE y == Out2(new, f.type, x)
<1>1. y = [i \in DOMAIN x |-> Write2(new, f.type.of.schema, x[i])]
  BY DEF Out2
<1> HIDE DEF y
<1>2. In2(f.type, y) = [i \in DOMAIN y |-> Read2(f.type.of.schema, y[i])]
  BY DEF In2
<1>3. In2(f.type, y) = x
  BY <1>1, <1>2
<1> QED BY <1>3 DEF Carried2, y

(* A request or a response of which every field comes through.             *)
LEMMA Whole ==
    ASSUME NEW S, Sound(S), NEW v, Of(S, v), NEW new \in SUBSET {200},
           \A n \in DOMAIN S : Carried2(new, S[n], v[n])
    PROVE  Read3(S, Write3(new, S, v)) = v
<1> DEFINE r == Read3(S, Write3(new, S, v))
<1>1. \A n \in DOMAIN S : r[n] = v[n]
  BY Level3 DEF Of
<1>2. r = [n \in DOMAIN S |-> r[n]]
  BY DEF Read3, ReadFields
<1> HIDE DEF r
<1>3. r = v
  BY <1>1, <1>2 DEF Of
<1> QED BY <1>3 DEF r

-----------------------------------------------------------------------------
(* Requests.                                                               *)

LEMMA Argument ==
    ASSUME NEW S, Sound(S), NEW r, Of(S, r), NEW new \in SUBSET {200},
           \A n \in DOMAIN S : Carried2(new, S[n], r[n])
    PROVE  FastRead(Args(S), FastWrite(new, Args(S), [Req |-> r])).Req = r
<1> DEFINE f == Field(1, TStruct(S))
           v == [Req |-> r]
<1>1. Args(S) = [k \in {"Req"} |-> f]
  BY DEF Args
<1>2. v = [k \in {"Req"} |-> v["Req"]] /\ v.Req = r
  OBVIOUS
<1>3. f.type.kind = "STRUCT" /\ f.id # 200 /\ ~f.optional /\ f.type.schema = S
  BY DEF Field, TStruct
<1> HIDE DEF f, v
<1>4. FastRead(Args(S), FastWrite(new, Args(S), v))["Req"] = Read3(S, Write3(new, S, v["Req"]))
  BY <1>1, <1>2, <1>3, Level4
<1> QED BY <1>2, <1>4, Whole DEF v

LEMMA BaseWhole ==
    ASSUME NEW new \in SUBSET {200}
    PROVE  Carried2(new, TheBase, NewBase) /\ Carried1(new, TheBase, NewBase)
<1>1. Of(Base, NewBase)
  BY DEF Of, Base, NewBase
<1>2. TheBase.type.kind = "STRUCT" /\ TheBase.type.schema = Base
  BY DEF TheBase, Field, TStruct
<1>3. Carried2(new, TheBase, NewBase)
  BY <1>1, <1>2, FlatSchemas, StructField
<1>4. Carried1(new, TheBase, NewBase)
  BY <1>1, <1>2, FlatSchemas, FlatWhole DEF Carried1, In1, Out1
<1> QED BY <1>3, <1>4

LEMMA DraftWhole ==
    ASSUME NEW new \in SUBSET {200}, NEW a
    PROVE  Read2(CreatePostRequest, Write2(new, CreatePostRequest, CreateRequest(a)))
              = CreateRequest(a)
<1> DEFINE S == CreatePostRequest
           v == CreateRequest(a)
           r == Read2(S, Write2(new, S, v))
<1>1. Sound(S) /\ DOMAIN v = DOMAIN S /\ Of(S, v)
  BY DEF Sound, CreatePostRequest, CreateRequest, TheBase, Field, Of
<1>2. Carried1(new, S["Base"], v["Base"])
  BY BaseWhole DEF CreatePostRequest, CreateRequest
<1>3. \A n \in DOMAIN S \ {"Base"} : Flat(S[n].type)
  BY DEF CreatePostRequest, Flat, Field, TI64, TString
<1> HIDE DEF S, v
<1>4. \A n \in DOMAIN S : Carried1(new, S[n], v[n])
  <2>1. \A f, x : Flat(f.type) => Carried1(new, f, x)
    BY DEF Carried1, In1, Out1, Flat
  <2> QED BY <1>2, <1>3, <2>1
<1>5. \A n \in DOMAIN S : r[n] = v[n]
  BY <1>1, <1>4, Level2
<1>6. r = [n \in DOMAIN S |-> r[n]]
  BY DEF Read2, ReadFields
<1> HIDE DEF r
<1>7. r = v
  BY <1>1, <1>5, <1>6 DEF Of
<1> QED BY <1>7 DEF r, S, v

(* A struct that leaves its Base to the lemma above, and has no other      *)
(* struct in it.                                                           *)
LEMMA PlainArgument ==
    ASSUME NEW S, Sound(S), NEW r, Of(S, r), NEW new \in SUBSET {200},
           S.Base = TheBase, r.Base = NewBase, \A n \in DOMAIN S \ {"Base"} : Flat(S[n].type)
    PROVE  FastRead(Args(S), FastWrite(new, Args(S), [Req |-> r])).Req = r
<1>1. ASSUME NEW n \in DOMAIN S  PROVE Carried2(new, S[n], r[n])
  BY BaseWhole, FlatField
<1> QED BY <1>1, Argument

(* The server gets the request that the client has made.                   *)
Comes(m, a, new) ==
    FastRead(ArgsOf[m], FastWrite(new, ArgsOf[m], [Req |-> Request(m, a)])).Req = Request(m, a)

LEMMA RequestComes ==
    ASSUME NEW m \in DOMAIN ArgsOf, NEW a \in Questions[m], NEW new \in SUBSET {200}
    PROVE  Comes(m, a, new)
<1> USE DEF Sound, Of, Flat, TheBase, Field, Optional, TI64, TString, TMap, TStruct, TList
<1>1. CASE m = "ListPosts"
  <2> DEFINE S == ListPostsRequest
             r == GetAllRequest(a)
  <2>1. Sound(S) /\ Of(S, r)
    BY DEF ListPostsRequest, GetAllRequest
  <2>2. Carried2(new, S.Base, r.Base)
    BY BaseWhole DEF ListPostsRequest, GetAllRequest
  <2>3. Carried2(new, S.Filter, r.Filter)
    <3>1. CASE a.filter = Null
      BY <3>1 DEF ListPostsRequest, GetAllRequest, Carried2, InitDefault, ModelFilterToThrift
    <3>2. CASE a.filter # Null
      <4>1. Of(PostFilter, r.Filter)
        BY <3>2 DEF GetAllRequest, PostFilter, ModelFilterToThrift
      <4>2. S.Filter.type.kind = "STRUCT" /\ S.Filter.type.schema = PostFilter
        BY DEF ListPostsRequest
      <4> QED BY <4>1, <4>2, FlatSchemas, StructField
    <3> QED BY <3>1, <3>2
  <2>4. Carried2(new, S.Pagination, r.Pagination)
    <3>1. CASE a.pagination = Null
      BY <3>1 DEF ListPostsRequest, GetAllRequest, Carried2, InitDefault
    <3>2. CASE a.pagination # Null
      <4>1. Of(Pagination, r.Pagination)
        BY <3>2 DEF GetAllRequest, Pagination
      <4>2. S.Pagination.type.kind = "STRUCT" /\ S.Pagination.type.schema = Pagination
        BY DEF ListPostsRequest
      <4> QED BY <4>1, <4>2, FlatSchemas, StructField
    <3> QED BY <3>1, <3>2
  <2>5. DOMAIN S = {"Base", "Filter", "Pagination"}
    BY DEF ListPostsRequest
  <2>6. Args(S) = ArgsOf[m] /\ r = Request(m, a)
    BY <1>1 DEF ArgsOf, PostServiceListPostsArgs, Request
  <2> HIDE DEF S, r
  <2>7. \A n \in DOMAIN S : Carried2(new, S[n], r[n])
    BY <2>2, <2>3, <2>4, <2>5
  <2> QED BY <2>1, <2>6, <2>7, Argument DEF Comes
<1>2. CASE m = "GetPost"
  <2> DEFINE r == [Base |-> NewBase, Id |-> a]
  <2>1. Args(GetPostRequest) = ArgsOf[m] /\ r = Request(m, a)
    BY <1>2 DEF ArgsOf, PostServiceGetPostArgs, Request
  <2>2. /\ Sound(GetPostRequest) /\ Of(GetPostRequest, r)
        /\ GetPostRequest.Base = TheBase /\ r.Base = NewBase
    BY DEF GetPostRequest
  <2>3. \A n \in DOMAIN GetPostRequest \ {"Base"} : Flat(GetPostRequest[n].type)
    BY DEF GetPostRequest
  <2> HIDE DEF Sound, Of, Flat, TheBase, r
  <2> QED BY <2>1, <2>2, <2>3, PlainArgument DEF Comes
<1>3. CASE m = "CreatePost"
  <2>1. Args(CreatePostRequest) = ArgsOf[m] /\ CreateRequest(a) = Request(m, a)
    BY <1>3 DEF ArgsOf, PostServiceCreatePostArgs, Request
  <2>2. Sound(CreatePostRequest) /\ Of(CreatePostRequest, CreateRequest(a))
    BY DEF CreatePostRequest, CreateRequest
  <2>3. CreatePostRequest.Base = TheBase /\ CreateRequest(a).Base = NewBase
    BY DEF CreatePostRequest, CreateRequest
  <2>4. \A n \in DOMAIN CreatePostRequest \ {"Base"} : Flat(CreatePostRequest[n].type)
    BY DEF CreatePostRequest
  <2> HIDE DEF Sound, Of, Flat, TheBase
  <2> QED BY <2>1, <2>2, <2>3, <2>4, PlainArgument DEF Comes
<1>4. CASE m = "UpdatePost"
  <2>1. Args(UpdatePostRequest) = ArgsOf[m] /\ UpdateRequest(a) = Request(m, a)
    BY <1>4 DEF ArgsOf, PostServiceUpdatePostArgs, Request
  <2>2. Sound(UpdatePostRequest) /\ Of(UpdatePostRequest, UpdateRequest(a))
    BY DEF UpdatePostRequest, UpdateRequest
  <2>3. UpdatePostRequest.Base = TheBase /\ UpdateRequest(a).Base = NewBase
    BY DEF UpdatePostRequest, UpdateRequest
  <2>4. \A n \in DOMAIN UpdatePostRequest \ {"Base"} : Flat(UpdatePostRequest[n].type)
    BY DEF UpdatePostRequest
  <2> HIDE DEF Sound, Of, Flat, TheBase
  <2> QED BY <2>1, <2>2, <2>3, <2>4, PlainArgument DEF Comes
<1>5. CASE m = "DeletePost"
  <2> DEFINE r == [Base |-> NewBase, Id |-> a]
  <2>1. Args(DeletePostRequest) = ArgsOf[m] /\ r = Request(m, a)
    BY <1>5 DEF ArgsOf, PostServiceDeletePostArgs, Request
  <2>2. /\ Sound(DeletePostRequest) /\ Of(DeletePostRequest, r)
        /\ DeletePostRequest.Base = TheBase /\ r.Base = NewBase
    BY DEF DeletePostRequest
  <2>3. \A n \in DOMAIN DeletePostRequest \ {"Base"} : Flat(DeletePostRequest[n].type)
    BY DEF DeletePostRequest
  <2> HIDE DEF Sound, Of, Flat, TheBase, r
  <2> QED BY <2>1, <2>2, <2>3, PlainArgument DEF Comes
<1>6. CASE m = "BatchCreatePosts"
  <2> DEFINE S == BatchCreatePostsRequest
             r == [Base |-> NewBase, Posts |-> [i \in DOMAIN a |-> CreateRequest(a[i])]]
  <2>1. Args(S) = ArgsOf[m] /\ r = Request(m, a)
    BY <1>6 DEF ArgsOf, PostServiceBatchCreatePostsArgs, Request
  <2>2. Sound(S) /\ Of(S, r) /\ DOMAIN S = {"Base", "Posts"}
    BY DEF BatchCreatePostsRequest
  <2>3. Carried2(new, S.Base, r.Base)
    BY BaseWhole DEF BatchCreatePostsRequest
  <2>4. S.Posts.type.kind = "LIST" /\ S.Posts.type.of.kind = "STRUCT"
        /\ S.Posts.type.of.schema = CreatePostRequest
    BY DEF BatchCreatePostsRequest
  <2>5. r.Posts = [i \in DOMAIN r.Posts |-> r.Posts[i]]
        /\ \A i \in DOMAIN r.Posts : r.Posts[i] = CreateRequest(a[i])
    OBVIOUS
  <2> HIDE DEF S, r
  <2>6. Carried2(new, S.Posts, r.Posts)
    BY <2>4, <2>5, DraftWhole, ListField
  <2>7. \A n \in DOMAIN S : Carried2(new, S[n], r[n])
    BY <2>2, <2>3, <2>6
  <2> QED BY <2>1, <2>2, <2>7, Argument DEF Comes
<1>7. CASE m = "AnalyzePosts"
  <2> DEFINE r == [Base |-> NewBase]
  <2>1. Args(AnalyzePostsRequest) = ArgsOf[m] /\ r = Request(m, a)
    BY <1>7 DEF ArgsOf, PostServiceAnalyzePostsArgs, Request
  <2>2. /\ Sound(AnalyzePostsRequest) /\ Of(AnalyzePostsRequest, r)
        /\ AnalyzePostsRequest.Base = TheBase /\ r.Base = NewBase
    BY DEF AnalyzePostsRequest
  <2>3. \A n \in DOMAIN AnalyzePostsRequest \ {"Base"} : Flat(AnalyzePostsRequest[n].type)
    BY DEF AnalyzePostsRequest
  <2> HIDE DEF Sound, Of, Flat, TheBase, r
  <2> QED BY <2>1, <2>2, <2>3, PlainArgument DEF Comes
<1>8. CASE m = "Login"
  <2> DEFINE r == [Base |-> NewBase, Username |-> a.username, Password |-> a.password]
  <2>1. Args(LoginRequest) = ArgsOf[m] /\ r = Request(m, a)
    BY <1>8 DEF ArgsOf, AuthServiceLoginArgs, Request
  <2>2. /\ Sound(LoginRequest) /\ Of(LoginRequest, r)
        /\ LoginRequest.Base = TheBase /\ r.Base = NewBase
    BY DEF LoginRequest
  <2>3. \A n \in DOMAIN LoginRequest \ {"Base"} : Flat(LoginRequest[n].type)
    BY DEF LoginRequest
  <2> HIDE DEF Sound, Of, Flat, TheBase, r
  <2> QED BY <2>1, <2>2, <2>3, PlainArgument DEF Comes
<1>9. CASE m = "ValidateToken"
  <2> DEFINE r == [Base |-> NewBase, Token |-> a]
             S == ValidateTokenRequest
  <2>1. Args(S) = ArgsOf[m] /\ r = Request(m, a)
    BY <1>9 DEF ArgsOf, AuthServiceValidateTokenArgs, Request
  <2>2. Sound(S) /\ Of(S, r) /\ S.Base = TheBase /\ r.Base = NewBase
    BY DEF ValidateTokenRequest
  <2>3. \A n \in DOMAIN S \ {"Base"} : Flat(S[n].type)
    BY DEF ValidateTokenRequest
  <2> HIDE DEF Sound, Of, Flat, TheBase, r
  <2> QED BY <2>1, <2>2, <2>3, PlainArgument DEF Comes
<1>10. CASE m = "Authorize"
  <2> DEFINE S == AuthorizeRequest
             r == AuthorizeCall(a)
  <2>1. Args(S) = ArgsOf[m] /\ r = Request(m, a)
    BY <1>10 DEF ArgsOf, AuthServiceAuthorizeArgs, Request
  <2>2. Sound(S) /\ Of(S, r)
    BY DEF AuthorizeRequest, AuthorizeCall
  <2>3. Carried2(new, S.Base, r.Base)
    BY BaseWhole DEF AuthorizeRequest, AuthorizeCall
  <2>4. Of(Subject, r.Subject)
    BY DEF AuthorizeCall, ToThriftSubject, Subject
  <2>5. S.Subject.type.kind = "STRUCT" /\ S.Subject.type.schema = Subject
    BY DEF AuthorizeRequest
  <2>6. Carried2(new, S.Subject, r.Subject)
    BY <2>4, <2>5, FlatSchemas, StructField
  <2>7. \A n \in DOMAIN S \ {"Base", "Subject"} : Flat(S[n].type)
    BY DEF AuthorizeRequest
  <2> HIDE DEF S, r
  <2>8. \A n \in DOMAIN S : Carried2(new, S[n], r[n])
    BY <2>3, <2>6, <2>7, FlatField
  <2> QED BY <2>1, <2>2, <2>8, Argument DEF Comes
<1> QED BY <1>1, <1>2, <1>3, <1>4, <1>5, <1>6, <1>7, <1>8, <1>9, <1>10 DEF ArgsOf

-----------------------------------------------------------------------------
(* Responses.                                                              *)

(* What the client gets for the response r.                                *)
Back(S, r, new) == FastRead(Result(S), FastWrite(new, Result(S), [Success |-> r])).Success

LEMMA BackIs ==
    ASSUME NEW S, Sound(S), NEW r, DOMAIN r = DOMAIN S, "BaseResp" \in DOMAIN S,
           NEW new \in SUBSET {200}
    PROVE  Back(S, r, new) = Read3(S, Write3(new, S, r))
<1> DEFINE f == Optional(0, TStruct(S))
           v == [Success |-> r]
<1>1. Result(S) = [k \in {"Success"} |-> f]
  BY DEF Result
<1>2. v = [k \in {"Success"} |-> v["Success"]] /\ v.Success = r
  OBVIOUS
<1>3. f.type.kind = "STRUCT" /\ f.id # 200 /\ f.type.schema = S /\ InitDefault(f) = Null
  BY DEF Optional, TStruct, InitDefault
<1>4. r # Null
  BY DEF Null
<1> HIDE DEF f, v
<1>5. FastRead(Result(S), FastWrite(new, Result(S), v))["Success"]
        = Read3(S, Write3(new, S, v["Success"]))
  BY <1>1, <1>2, <1>3, <1>4, Level4
<1> QED BY <1>2, <1>5 DEF v, Back

LEMMA WholeBack ==
    ASSUME NEW S, Sound(S), NEW r, Of(S, r), "BaseResp" \in DOMAIN S,
           NEW new \in SUBSET {200},
           S.BaseResp = TheBaseResp, Of(BaseResp, r.BaseResp),
           \A n \in DOMAIN S \ {"BaseResp"} : Carried2(new, S[n], r[n])
    PROVE  Back(S, r, new) = r
<1>1. TheBaseResp.type.kind = "STRUCT" /\ TheBaseResp.type.schema = BaseResp
  BY DEF TheBaseResp, Field, TStruct
<1>2. Carried2(new, S.BaseResp, r.BaseResp)
  BY <1>1, FlatSchemas, StructField
<1>3. \A n \in DOMAIN S : Carried2(new, S[n], r[n])
  BY <1>2
<1>4. DOMAIN r = DOMAIN S
  BY DEF Of
<1>5. Back(S, r, new) = Read3(S, Write3(new, S, r))
  BY <1>4, BackIs
<1>6. Read3(S, Write3(new, S, r)) = r
  BY <1>3, Whole
<1> QED BY <1>5, <1>6

(* The BaseResp comes back, whatever the rest is.                          *)
LEMMA BaseBack ==
    ASSUME NEW S, Sound(S), NEW r, DOMAIN r = DOMAIN S, "BaseResp" \in DOMAIN S,
           NEW new \in SUBSET {200},
           S.BaseResp = TheBaseResp, Of(BaseResp, r.BaseResp)
    PROVE  /\ Back(S, r, new).BaseResp = r.BaseResp
           /\ \A n \in DOMAIN S : Flat(S[n].type) => Back(S, r, new)[n] = r[n]
<1>1. TheBaseResp.type.kind = "STRUCT" /\ TheBaseResp.type.schema = BaseResp
  BY DEF TheBaseResp, Field, TStruct
<1>2. Carried2(new, S.BaseResp, r.BaseResp)
  BY <1>1, FlatSchemas, StructField
<1>3. \A n \in DOMAIN S : Carried2(new, S[n], r[n]) => Back(S, r, new)[n] = r[n]
  BY BackIs, Level3
<1> QED BY <1>2, <1>3, FlatField

SchemaOf(m) == ResultOf[m].Success.type.schema

LEMMA Schemas ==
    ASSUME NEW m \in DOMAIN ResultOf
    PROVE  /\ ResultOf[m] = Result(SchemaOf(m)) /\ Sound(SchemaOf(m))
           /\ "BaseResp" \in DOMAIN SchemaOf(m) /\ SchemaOf(m).BaseResp = TheBaseResp
           /\ m = "ListPosts" => SchemaOf(m) = ListPostsResponse
           /\ m = "GetPost" => SchemaOf(m) = GetPostResponse
           /\ m = "CreatePost" => SchemaOf(m) = CreatePostResponse
           /\ m = "UpdatePost" => SchemaOf(m) = UpdatePostResponse
           /\ m = "DeletePost" => SchemaOf(m) = DeletePostResponse
           /\ m = "BatchCreatePosts" => SchemaOf(m) = BatchCreatePostsResponse
           /\ m = "AnalyzePosts" => SchemaOf(m) = AnalyzePostsResponse
           /\ m = "Login" => SchemaOf(m) = LoginResponse
           /\ m = "ValidateToken" => SchemaOf(m) = ValidateTokenResponse
           /\ m = "Authorize" => SchemaOf(m) = AuthorizeResponse
<1>1. \A S : Result(S).Success.type.schema = S
  BY DEF Result, Optional, TStruct
<1>2. \A S \in {ListPostsResponse, GetPostResponse, CreatePostResponse, UpdatePostResponse,
                DeletePostResponse, BatchCreatePostsResponse, AnalyzePostsResponse,
                LoginResponse, ValidateTokenResponse, AuthorizeResponse} :
        Sound(S) /\ "BaseResp" \in DOMAIN S /\ S.BaseResp = TheBaseResp
  <2> USE DEF Sound, Field, TheBaseResp
  <2>1. Sound(ListPostsResponse) /\ "BaseResp" \in DOMAIN ListPostsResponse
        /\ ListPostsResponse.BaseResp = TheBaseResp
    BY DEF ListPostsResponse
  <2>2. Sound(GetPostResponse) /\ "BaseResp" \in DOMAIN GetPostResponse
        /\ GetPostResponse.BaseResp = TheBaseResp
    BY DEF GetPostResponse
  <2>3. CreatePostResponse = GetPostResponse /\ UpdatePostResponse = GetPostResponse
    BY DEF CreatePostResponse, UpdatePostResponse, GetPostResponse
  <2>4. Sound(DeletePostResponse) /\ "BaseResp" \in DOMAIN DeletePostResponse
        /\ DeletePostResponse.BaseResp = TheBaseResp
    BY DEF DeletePostResponse
  <2>5. Sound(BatchCreatePostsResponse) /\ "BaseResp" \in DOMAIN BatchCreatePostsResponse
        /\ BatchCreatePostsResponse.BaseResp = TheBaseResp
    BY DEF BatchCreatePostsResponse
  <2>6. Sound(AnalyzePostsResponse) /\ "BaseResp" \in DOMAIN AnalyzePostsResponse
        /\ AnalyzePostsResponse.BaseResp = TheBaseResp
    BY DEF AnalyzePostsResponse
  <2>7. Sound(LoginResponse) /\ "BaseResp" \in DOMAIN LoginResponse
        /\ LoginResponse.BaseResp = TheBaseResp
    BY DEF LoginResponse
  <2>8. Sound(ValidateTokenResponse) /\ "BaseResp" \in DOMAIN ValidateTokenResponse
        /\ ValidateTokenResponse.BaseResp = TheBaseResp
    BY DEF ValidateTokenResponse
  <2>9. Sound(AuthorizeResponse) /\ "BaseResp" \in DOMAIN AuthorizeResponse
        /\ AuthorizeResponse.BaseResp = TheBaseResp
    BY DEF AuthorizeResponse
  <2> HIDE DEF Sound, TheBaseResp
  <2> QED BY <2>1, <2>2, <2>3, <2>4, <2>5, <2>6, <2>7, <2>8, <2>9
<1>3. /\ ResultOf["ListPosts"] = Result(ListPostsResponse)
      /\ ResultOf["GetPost"] = Result(GetPostResponse)
      /\ ResultOf["CreatePost"] = Result(CreatePostResponse)
      /\ ResultOf["UpdatePost"] = Result(UpdatePostResponse)
      /\ ResultOf["DeletePost"] = Result(DeletePostResponse)
      /\ ResultOf["BatchCreatePosts"] = Result(BatchCreatePostsResponse)
      /\ ResultOf["AnalyzePosts"] = Result(AnalyzePostsResponse)
      /\ ResultOf["Login"] = Result(LoginResponse)
      /\ ResultOf["ValidateToken"] = Result(ValidateTokenResponse)
      /\ ResultOf["Authorize"] = Result(AuthorizeResponse)
      /\ DOMAIN ResultOf = {"ListPosts", "GetPost", "CreatePost", "UpdatePost", "DeletePost",
            "BatchCreatePosts", "AnalyzePosts", "Login", "ValidateToken", "Authorize"}
  BY DEF ResultOf, PostServiceListPostsResult, PostServiceGetPostResult,
         PostServiceCreatePostResult, PostServiceUpdatePostResult, PostServiceDeletePostResult,
         PostServiceBatchCreatePostsResult, PostServiceAnalyzePostsResult,
         AuthServiceLoginResult, AuthServiceValidateTokenResult, AuthServiceAuthorizeResult
<1> QED BY <1>1, <1>2, <1>3 DEF SchemaOf

LEMMA OKIs == Of(BaseResp, OK) /\ OK.StatusCode = 0
BY DEF Of, BaseResp, OK, Resp

(* What the service has returned comes back as the handler has put it.     *)
LEMMA SuccessBack ==
    ASSUME NEW m \in DOMAIN ResultOf, NEW v, m = "AnalyzePosts" => v = Analysis,
           NEW new \in SUBSET {200}
    PROVE  Back(SchemaOf(m), Succeed(m, v), new) = Succeed(m, v)
<1> DEFINE S == SchemaOf(m)
           r == Succeed(m, v)
<1>0. Sound(S) /\ "BaseResp" \in DOMAIN S /\ S.BaseResp = TheBaseResp
  BY Schemas
<1> HIDE DEF S
<1> USE DEF Field, Optional, TBool, TI32, TI64, TDouble, TString, TMap, TStruct, TList
<1> SUFFICES Back(S, r, new) = r
  BY DEF S
<1>a. ASSUME Of(S, r), r.BaseResp = OK, \A n \in DOMAIN S \ {"BaseResp"} : Flat(S[n].type)
      PROVE  Back(S, r, new) = r
  <2> HIDE DEF r
  <2>1. \A n \in DOMAIN S \ {"BaseResp"} : Carried2(new, S[n], r[n])
    BY <1>a, FlatField
  <2> QED BY <1>0, <1>a, <2>1, OKIs, WholeBack
<1>b. ASSUME Of(S, r), r.BaseResp = OK,
             \A n \in DOMAIN S \ {"BaseResp"} : Carried2(new, S[n], r[n])
      PROVE  Back(S, r, new) = r
  <2> HIDE DEF r
  <2> QED BY <1>0, <1>b, OKIs, WholeBack
<1>1. CASE m = "ListPosts"
  <2>1. S = ListPostsResponse
    BY <1>1, Schemas DEF S
  <2>2. Of(S, r) /\ r.BaseResp = OK /\ DOMAIN S = {"BaseResp", "Posts", "Pagination"}
    BY <1>1, <2>1 DEF ListPostsResponse, Succeed, Of
  <2>3. /\ S.Posts.type.kind = "LIST" /\ S.Posts.type.of.kind = "STRUCT"
        /\ S.Posts.type.of.schema = Post
        /\ S.Pagination.type.kind = "STRUCT" /\ S.Pagination.type.schema = PaginationMeta
    BY <2>1 DEF ListPostsResponse
  <2>4. Of(PaginationMeta, r.Pagination)
    <3>1. ASSUME NEW x  PROVE Of(PaginationMeta, ModelPaginationToThrift(x))
      <4>1. CASE x = Null
        BY <4>1 DEF Of, PaginationMeta, ModelPaginationToThrift
      <4>2. CASE x # Null
        BY <4>2 DEF Of, PaginationMeta, ModelPaginationToThrift
      <4> QED BY <4>1, <4>2
    <3> QED BY <1>1, <3>1 DEF Succeed
  <2>5. r.Posts = [i \in DOMAIN v.posts |-> ModelToThriftPost(v.posts[i])]
    BY <1>1 DEF Succeed
  <2>6. \A p : Of(Post, ModelToThriftPost(p))
    BY DEF Of, Post, ModelToThriftPost
  <2> HIDE DEF r
  <2>7. Carried2(new, S.Pagination, r.Pagination)
    BY <2>3, <2>4, FlatSchemas, StructField
  <2>8. \A i \in DOMAIN r.Posts : Read2(Post, Write2(new, Post, r.Posts[i])) = r.Posts[i]
    BY <2>5, <2>6, FlatSchemas, FlatWhole
  <2>9. Carried2(new, S.Posts, r.Posts)
    <3>1. r.Posts = [i \in DOMAIN r.Posts |-> r.Posts[i]]
      BY <2>5
    <3> QED BY <2>3, <2>8, <3>1, ListField
  <2> QED BY <1>b, <2>2, <2>7, <2>9
<1>2. CASE m = "GetPost"
  <2>1. S = GetPostResponse
    BY <1>2, Schemas DEF S
  <2>2. Of(S, r) /\ r.BaseResp = OK
    BY <1>2, <2>1 DEF GetPostResponse, Succeed, Of
  <2>3. S.Post.type.kind = "STRUCT" /\ S.Post.type.schema = Post
    BY <2>1 DEF GetPostResponse
  <2>4. Of(Post, r.Post)
    BY <1>2 DEF Succeed, Of, ModelToThriftPost, Post
  <2>5. Carried2(new, S.Post, r.Post)
    BY <2>3, <2>4, FlatSchemas, StructField
  <2>6. \A n \in DOMAIN S \ {"BaseResp", "Post"} : Flat(S[n].type)
    BY <2>1 DEF GetPostResponse, Flat
  <2> HIDE DEF r
  <2>7. \A n \in DOMAIN S \ {"BaseResp"} : Carried2(new, S[n], r[n])
    BY <2>5, <2>6, FlatField
  <2> QED BY <1>b, <2>2, <2>7
<1>3. CASE m = "CreatePost"
  <2>1. S = CreatePostResponse
    BY <1>3, Schemas DEF S
  <2>2. Of(S, r) /\ r.BaseResp = OK
    BY <1>3, <2>1 DEF CreatePostResponse, Succeed, Of
  <2>3. S.Post.type.kind = "STRUCT" /\ S.Post.type.schema = Post
    BY <2>1 DEF CreatePostResponse
  <2>4. Of(Post, r.Post)
    BY <1>3 DEF Succeed, Of, ModelToThriftPost, Post
  <2>5. Carried2(new, S.Post, r.Post)
    BY <2>3, <2>4, FlatSchemas, StructField
  <2>6. \A n \in DOMAIN S \ {"BaseResp", "Post"} : Flat(S[n].type)
    BY <2>1 DEF CreatePostResponse, Flat
  <2> HIDE DEF r
  <2>7. \A n \in DOMAIN S \ {"BaseResp"} : Carried2(new, S[n], r[n])
    BY <2>5, <2>6, FlatField
  <2> QED BY <1>b, <2>2, <2>7
<1>4. CASE m = "UpdatePost"
  <2>1. S = UpdatePostResponse
    BY <1>4, Schemas DEF S
  <2>2. Of(S, r) /\ r.BaseResp = OK
    BY <1>4, <2>1 DEF UpdatePostResponse, Succeed, Of
  <2>3. S.Post.type.kind = "STRUCT" /\ S.Post.type.schema = Post
    BY <2>1 DEF UpdatePostResponse
  <2>4. Of(Post, r.Post)
    BY <1>4 DEF Succeed, Of, ModelToThriftPost, Post
  <2>5. Carried2(new, S.Post, r.Post)
    BY <2>3, <2>4, FlatSchemas, StructField
  <2>6. \A n \in DOMAIN S \ {"BaseResp", "Post"} : Flat(S[n].type)
    BY <2>1 DEF UpdatePostResponse, Flat
  <2> HIDE DEF r
  <2>7. \A n \in DOMAIN S \ {"BaseResp"} : Carried2(new, S[n], r[n])
    BY <2>5, <2>6, FlatField
  <2> QED BY <1>b, <2>2, <2>7
<1>5. CASE m = "DeletePost"
  <2>1. S = DeletePostResponse
    BY <1>5, Schemas DEF S
  <2>2. Of(S, r) /\ r.BaseResp = OK
    BY <1>5, <2>1 DEF DeletePostResponse, Succeed, Of
  <2>3. \A n \in DOMAIN S \ {"BaseResp"} : Flat(S[n].type)
    BY <2>1 DEF DeletePostResponse, Flat
  <2> QED BY <1>a, <2>2, <2>3
<1>6. CASE m = "BatchCreatePosts"
  <2>1. S = BatchCreatePostsResponse
    BY <1>6, Schemas DEF S
  <2>2. Of(S, r) /\ r.BaseResp = OK
    BY <1>6, <2>1 DEF BatchCreatePostsResponse, Succeed, Of
  <2>3. \A n \in DOMAIN S \ {"BaseResp"} : Flat(S[n].type)
    BY <2>1 DEF BatchCreatePostsResponse, Flat
  <2> QED BY <1>a, <2>2, <2>3
<1>7. CASE m = "AnalyzePosts"
  <2>1. S = AnalyzePostsResponse
    BY <1>7, Schemas DEF S
  <2>2. Of(S, r) /\ r.BaseResp = OK
    BY <1>7, <2>1 DEF AnalyzePostsResponse, Succeed, Of
  <2>3. /\ S.TopCharacters.type.kind = "LIST" /\ S.TopCharacters.type.of.kind = "STRUCT"
        /\ S.TopCharacters.type.of.schema = CharacterStat
        /\ S.Statistics.type.kind = "STRUCT" /\ S.Statistics.type.schema = AnalyticsStats
    BY <2>1 DEF AnalyzePostsResponse
  <2>4. Of(AnalyticsStats, r.Statistics)
    BY <1>7 DEF Succeed, Of, AnalyticsStats, Analysis
  <2>5. DEFINE x == r.TopCharacters
  <2>6. x = [i \in DOMAIN x |-> x[i]] /\ \A i \in DOMAIN x : Of(CharacterStat, x[i])
    BY <1>7 DEF Succeed, Of, CharacterStat, Analysis
  <2>7. \A n \in DOMAIN S \ {"BaseResp", "TopCharacters", "Statistics"} : Flat(S[n].type)
    BY <2>1 DEF AnalyzePostsResponse, Flat
  <2> HIDE DEF r
  <2>8. Carried2(new, S.Statistics, r.Statistics)
    BY <2>3, <2>4, FlatSchemas, StructField
  <2>9. \A i \in DOMAIN x : Read2(CharacterStat, Write2(new, CharacterStat, x[i])) = x[i]
    BY <2>6, FlatSchemas, FlatWhole
  <2>10. Carried2(new, S.TopCharacters, x)
    BY <2>3, <2>6, <2>9, ListField
  <2>11. \A n \in DOMAIN S \ {"BaseResp"} : Carried2(new, S[n], r[n])
    BY <2>7, <2>8, <2>10, FlatField
  <2> QED BY <1>b, <2>2, <2>11
<1>8. CASE m = "Login"
  <2>1. S = LoginResponse
    BY <1>8, Schemas DEF S
  <2>2. Of(S, r) /\ r.BaseResp = OK
    BY <1>8, <2>1 DEF LoginResponse, Succeed, Of
  <2>3. S.Subject.type.kind = "STRUCT" /\ S.Subject.type.schema = Subject
    BY <2>1 DEF LoginResponse
  <2>4. Of(Subject, r.Subject)
    BY <1>8 DEF Succeed, Of, ToThriftSubject, Subject
  <2>5. Carried2(new, S.Subject, r.Subject)
    BY <2>3, <2>4, FlatSchemas, StructField
  <2>6. \A n \in DOMAIN S \ {"BaseResp", "Subject"} : Flat(S[n].type)
    BY <2>1 DEF LoginResponse, Flat
  <2> HIDE DEF r
  <2>7. \A n \in DOMAIN S \ {"BaseResp"} : Carried2(new, S[n], r[n])
    BY <2>5, <2>6, FlatField
  <2> QED BY <1>b, <2>2, <2>7
<1>9. CASE m = "ValidateToken"
  <2>1. S = ValidateTokenResponse
    BY <1>9, Schemas DEF S
  <2>2. Of(S, r) /\ r.BaseResp = OK
    BY <1>9, <2>1 DEF ValidateTokenResponse, Succeed, Of
  <2>3. S.Subject.type.kind = "STRUCT" /\ S.Subject.type.schema = Subject
    BY <2>1 DEF ValidateTokenResponse
  <2>4. Of(Subject, r.Subject)
    BY <1>9 DEF Succeed, Of, ToThriftSubject, Subject
  <2>5. Carried2(new, S.Subject, r.Subject)
    BY <2>3, <2>4, FlatSchemas, StructField
  <2>6. \A n \in DOMAIN S \ {"BaseResp", "Subject"} : Flat(S[n].type)
    BY <2>1 DEF ValidateTokenResponse, Flat
  <2> HIDE DEF r
  <2>7. \A n \in DOMAIN S \ {"BaseResp"} : Carried2(new, S[n], r[n])
    BY <2>5, <2>6, FlatField
  <2> QED BY <1>b, <2>2, <2>7
<1>10. CASE m = "Authorize"
  <2>1. S = AuthorizeResponse
    BY <1>10, Schemas DEF S
  <2>2. Of(S, r) /\ r.BaseResp = OK
    BY <1>10, <2>1 DEF AuthorizeResponse, Succeed, Of
  <2>3. \A n \in DOMAIN S \ {"BaseResp"} : Flat(S[n].type)
    BY <2>1 DEF AuthorizeResponse, Flat
  <2> QED BY <1>a, <2>2, <2>3
<1> QED BY <1>1, <1>2, <1>3, <1>4, <1>5, <1>6, <1>7, <1>8, <1>9, <1>10 DEF ResultOf

LEMMA AnswerSuccess ==
    ASSUME NEW m \in DOMAIN ResultOf, NEW v
    PROVE  Answer(m, Succeed(m, v)) = Ok(Decoded(m, Succeed(m, v)))
<1> DEFINE r == Succeed(m, v)
<1>1. r.BaseResp = OK /\ (m = "ValidateToken" => r.Valid = TRUE)
  BY DEF Succeed, ResultOf
<1> HIDE DEF r
<1>2. Answer(m, r) = Ok(Decoded(m, r))
  BY <1>1, OKIs DEF Answer
<1> QED BY <1>2 DEF r

LEMMA ErrOf ==
    ASSUME NEW e
    PROVE  /\ e.typed => Err(e) = Resp(Int32(e.StatusCode), e.Message, [code |-> e.Code])
           /\ ~e.typed => Err(e) = Resp(500, "internal_error", Null)
BY DEF Err

(* The errors that there are.                                              *)
LEMMA ErrIs ==
    /\ Err(NotFound) = Resp(404, "Post_not_found", [code |-> "NOT_FOUND"])
    /\ Err(Invalid) = Resp(422, "validation_failed", [code |-> "VALIDATION_FAILED"])
    /\ Err(Wrapped) = Resp(500, "failed_to_update_post", [code |-> "INTERNAL_ERROR"])
    /\ \A text : Err(Plain(text)) = Resp(500, "internal_error", Null)
<1>1. Int32(404) = 404 /\ Int32(422) = 422 /\ Int32(500) = 500
  BY Bound, Int32Same
<1>2. /\ NotFound.typed /\ NotFound.StatusCode = 404
      /\ NotFound.Message = "Post_not_found" /\ NotFound.Code = "NOT_FOUND"
  BY DEF NotFound, AppError
<1>3. /\ Invalid.typed /\ Invalid.StatusCode = 422
      /\ Invalid.Message = "validation_failed" /\ Invalid.Code = "VALIDATION_FAILED"
  BY DEF Invalid, AppError
<1>4. /\ Wrapped.typed /\ Wrapped.StatusCode = 500
      /\ Wrapped.Message = "failed_to_update_post" /\ Wrapped.Code = "INTERNAL_ERROR"
  BY DEF Wrapped, AppError
<1>5. Err(NotFound) = Resp(404, "Post_not_found", [code |-> "NOT_FOUND"])
  BY <1>1, <1>2, ErrOf
<1>6. Err(Invalid) = Resp(422, "validation_failed", [code |-> "VALIDATION_FAILED"])
  BY <1>1, <1>3, ErrOf
<1>7. Err(Wrapped) = Resp(500, "failed_to_update_post", [code |-> "INTERNAL_ERROR"])
  BY <1>1, <1>4, ErrOf
<1>8. ASSUME NEW text  PROVE Err(Plain(text)) = Resp(500, "internal_error", Null)
  <2>1. ~Plain(text).typed
    BY DEF Plain
  <2> QED BY <2>1, ErrOf
<1> QED BY <1>5, <1>6, <1>7, <1>8

LEMMA RpcErrIs ==
    /\ RpcErr(Err(NotFound)) = AppError("NOT_FOUND", "Post_not_found", 404, {})
    /\ RpcErr(Err(Invalid)) = AppError("VALIDATION_FAILED", "validation_failed", 422, {})
    /\ RpcErr(Err(Wrapped)) = InternalError
    /\ \A text : RpcErr(Err(Plain(text))) = InternalError
<1>1. ASSUME NEW c  PROVE [code |-> c] # Null
  BY DEF Null
<1>2. RpcErr(Err(NotFound)) = AppError("NOT_FOUND", "Post_not_found", 404, {})
  BY <1>1, ErrIs DEF RpcErr, Resp
<1>3. RpcErr(Err(Invalid)) = AppError("VALIDATION_FAILED", "validation_failed", 422, {})
  BY <1>1, ErrIs DEF RpcErr, Resp
<1>4. RpcErr(Err(Wrapped)) = InternalError
  BY ErrIs DEF RpcErr, Resp
<1>5. \A text : RpcErr(Err(Plain(text))) = InternalError
  BY ErrIs DEF RpcErr, Resp
<1> QED BY <1>2, <1>3, <1>4, <1>5

LEMMA SeenErrorIs ==
    ASSUME NEW m, m \notin {"ValidateToken", "Login"}
    PROVE  /\ SeenError(m, NotFound) = AppError("NOT_FOUND", "Post_not_found", 404, {})
           /\ SeenError(m, Invalid) = AppError("VALIDATION_FAILED", "validation_failed", 422, {})
           /\ SeenError(m, Wrapped) = InternalError
           /\ \A text : SeenError(m, Plain(text)) = InternalError
<1>1. /\ NotFound.typed /\ NotFound.StatusCode = 404
      /\ NotFound.Message = "Post_not_found" /\ NotFound.Code = "NOT_FOUND"
  BY DEF NotFound, AppError
<1>2. /\ Invalid.typed /\ Invalid.StatusCode = 422
      /\ Invalid.Message = "validation_failed" /\ Invalid.Code = "VALIDATION_FAILED"
  BY DEF Invalid, AppError
<1>3. Wrapped.typed /\ Wrapped.StatusCode = 500
  BY DEF Wrapped, AppError
<1>4. ASSUME NEW text  PROVE SeenError(m, Plain(text)) = InternalError
  <2>1. ~Plain(text).typed
    BY DEF Plain
  <2> QED BY <2>1 DEF SeenError
<1>5. SeenError(m, NotFound) = AppError("NOT_FOUND", "Post_not_found", 404, {})
  BY <1>1 DEF SeenError
<1>6. SeenError(m, Invalid) = AppError("VALIDATION_FAILED", "validation_failed", 422, {})
  BY <1>2 DEF SeenError
<1>7. SeenError(m, Wrapped) = InternalError
  BY <1>3 DEF SeenError
<1> QED BY <1>4, <1>5, <1>6, <1>7

(* An error comes back as SeenError says.                                  *)
LEMMA FailureBack ==
    ASSUME NEW m \in DOMAIN ResultOf, NEW e \in Errors(m), NEW new \in SUBSET {200}
    PROVE  Answer(m, Back(SchemaOf(m), Fail(SchemaOf(m), m, e), new)) = Failed(SeenError(m, e))
<1> DEFINE S == SchemaOf(m)
           r == Fail(S, m, e)
           b == Back(S, r, new)
<1>1. Sound(S) /\ "BaseResp" \in DOMAIN S /\ S.BaseResp = TheBaseResp
  BY Schemas
<1>2. r.BaseResp = IF m \in {"Login", "ValidateToken"} THEN Resp(1, e.Message, Null) ELSE Err(e)
  BY <1>1 DEF Fail
<1>3. DOMAIN r = DOMAIN S
  BY DEF Fail
<1>4. \A n \in DOMAIN S : n \notin {"BaseResp", "Pagination"} => r[n] = InitDefault(S[n])
  BY DEF Fail
<1> HIDE DEF S, r, b
<1>5. Of(BaseResp, r.BaseResp)
  <2>1. \A s, t, x : Of(BaseResp, Resp(s, t, x))
    BY DEF Of, BaseResp, Resp
  <2>2. Err(e) = Resp(Int32(e.StatusCode), e.Message, [code |-> e.Code])
        \/ Err(e) = Resp(500, "internal_error", Null)
    BY ErrOf
  <2> QED BY <1>2, <2>1, <2>2
<1>6. b.BaseResp = r.BaseResp /\ \A n \in DOMAIN S : Flat(S[n].type) => b[n] = r[n]
  BY <1>1, <1>3, <1>5, BaseBack DEF b
<1>7. CASE m = "ValidateToken"
  <2>1. S = ValidateTokenResponse
    BY <1>7, Schemas DEF S
  <2>2. "Valid" \in DOMAIN S /\ Flat(S.Valid.type) /\ InitDefault(S.Valid) = FALSE
    BY <2>1 DEF ValidateTokenResponse, Flat, Field, TBool, InitDefault
  <2>3. b.Valid = FALSE
    BY <1>4, <1>6, <2>2
  <2>4. e = Plain("invalid")
    BY <1>7 DEF Errors
  <2>5. b.BaseResp.StatusMessage = "invalid"
    BY <1>2, <1>6, <1>7, <2>4 DEF Resp, Plain
  <2>6. Answer(m, b) = Failed(Plain("invalid"))
    BY <1>7, <2>3, <2>5 DEF Answer
  <2> QED BY <1>7, <2>4, <2>6 DEF SeenError, S, r, b
<1>8. CASE m = "Login"
  <2>1. e.Message = "invalid"
    BY <1>8 DEF Errors, Plain
  <2>2. b.BaseResp.StatusMessage = "invalid" /\ b.BaseResp.StatusCode = 1
    BY <1>2, <1>6, <1>8, <2>1 DEF Resp
  <2>3. Answer(m, b) = Failed(AppError("UNAUTHORIZED", "invalid", 401, {}))
    BY <1>8, <2>2 DEF Answer
  <2> QED BY <1>8, <2>1, <2>3 DEF SeenError, S, r, b
<1>9. CASE m \notin {"ValidateToken", "Login"}
  <2>1. m # "Authorize"
    BY DEF Errors
  <2>2. b.BaseResp = Err(e)
    BY <1>2, <1>6, <1>9
  <2>3. e \in {NotFound, Invalid, Wrapped, Plain("pq_connection_reset")}
    BY <1>9, <2>1 DEF Errors, ResultOf
  <2>4. Err(e).StatusCode # 0 /\ RpcErr(Err(e)) = SeenError(m, e)
    <3>1. Err(e).StatusCode # 0
      BY <2>3, ErrIs DEF Resp
    <3> QED BY <1>9, <2>3, <3>1, RpcErrIs, SeenErrorIs
  <2>5. Answer(m, b) = Failed(RpcErr(b.BaseResp))
    BY <1>9, <2>1, <2>2, <2>4 DEF Answer
  <2> QED BY <2>2, <2>4, <2>5 DEF S, r, b
<1> QED BY <1>7, <1>8, <1>9

-----------------------------------------------------------------------------
(* What the service returns, as the caller sees it.                        *)

LEMMA SeenTime == ASSUME NEW t \in Times  PROVE Parse(Format(t)) = Seen(t)
<1>1. t.secs \in DOMAIN RFC3339 /\ t = [secs |-> t.secs, nanos |-> t.nanos]
  BY DEF Times
<1>2. RFC3339[t.secs] # ""
  BY <1>1, RpcAssumption
<1>3. \A n \in DOMAIN RFC3339 : RFC3339[n] = RFC3339[t.secs] => n = t.secs
  BY <1>1, RpcAssumption
<1>4. (CHOOSE n \in DOMAIN RFC3339 : RFC3339[n] = RFC3339[t.secs]) = t.secs
  BY <1>1, <1>3
<1>5. Parse(Format(t)) = [secs |-> t.secs, nanos |-> 0]
  BY <1>2, <1>4 DEF Parse, Format
<1> QED BY <1>1, <1>5 DEF Seen

LEMMA SeenPostIs ==
    ASSUME NEW p \in Posts  PROVE ThriftPostToModel(ModelToThriftPost(p)) = SeenPost(p)
<1>1. p.CreatedAt \in Times /\ p.UpdatedAt \in Times
  BY DEF Posts
<1>2. Parse(Format(p.CreatedAt)) = Seen(p.CreatedAt)
      /\ Parse(Format(p.UpdatedAt)) = Seen(p.UpdatedAt)
  BY <1>1, SeenTime
<1> QED BY <1>2 DEF ThriftPostToModel, ModelToThriftPost, SeenPost

Metas ==
    [Page : 0..MaxInt32, PageSize : 0..MaxInt32, TotalItems : 0..MaxInt32,
     TotalPages : 0..MaxInt32, HasNext : BOOLEAN, HasPrev : BOOLEAN]

LEMMA MetaSame == ASSUME NEW x \in Metas  PROVE ModelPaginationToThrift(x) = x /\ x # Null
<1>1. x = [Page |-> x.Page, PageSize |-> x.PageSize, TotalItems |-> x.TotalItems,
           TotalPages |-> x.TotalPages, HasNext |-> x.HasNext, HasPrev |-> x.HasPrev]
  BY DEF Metas
<1>2. x # Null
  BY <1>1 DEF Null
<1>3. /\ Int32(x.Page) = x.Page /\ Int32(x.PageSize) = x.PageSize
      /\ Int32(x.TotalItems) = x.TotalItems /\ Int32(x.TotalPages) = x.TotalPages
  BY Bound, Int32Same DEF Metas
<1> QED BY <1>1, <1>2, <1>3 DEF ModelPaginationToThrift

(* What the service may return for the method m.                           *)
Returned(m, v) ==
    /\ m = "ListPosts" => v \in [posts : Seq(Posts), meta : Metas \cup {Null}]
    /\ m \in {"GetPost", "CreatePost", "UpdatePost"} => v \in Posts
    /\ m = "DeletePost" => v = Null
    /\ m = "BatchCreatePosts" =>
          /\ v = [Created |-> v.Created, Failed |-> v.Failed, Errors |-> v.Errors,
                  PostIDs |-> v.PostIDs]
          /\ v.Created \in 0..MaxInt32 /\ v.Failed \in 0..MaxInt32
    /\ m = "AnalyzePosts" => v = Analysis
    /\ m = "Login" => v = [Token |-> v.Token, Subject |-> v.Subject] /\ v.Subject \in Holders
    /\ m = "ValidateToken" => v \in Holders
    /\ m = "Authorize" =>
          v = [Allowed |-> v.Allowed, Reason |-> v.Reason, MatchedPolicy |-> v.MatchedPolicy]

LEMMA HolderSame ==
    ASSUME NEW s \in Holders  PROVE FromThriftSubject(ToThriftSubject(s)) = s
<1>1. s = [UserID |-> s.UserID, Username |-> s.Username, Role |-> s.Role,
           Attributes |-> s.Attributes]
  BY DEF Holders
<1>2. ToThriftSubject(s) # Null
  BY DEF ToThriftSubject, Null
<1> QED BY <1>1, <1>2 DEF FromThriftSubject, ToThriftSubject

LEMMA ValueSeen ==
    ASSUME NEW m \in DOMAIN ResultOf, NEW v, Returned(m, v)
    PROVE  Decoded(m, Succeed(m, v)) = SeenValue(m, v)
<1>1. CASE m = "ListPosts"
  <2>1. v.posts \in Seq(Posts) /\ v.meta \in Metas \cup {Null}
    BY <1>1 DEF Returned
  <2>2. \A i \in DOMAIN v.posts :
            ThriftPostToModel(ModelToThriftPost(v.posts[i])) = SeenPost(v.posts[i])
    BY <2>1, SeenPostIs
  <2>3. ModelPaginationToThrift(v.meta)
            = IF v.meta = Null THEN ModelPaginationToThrift(Null) ELSE v.meta
    BY <2>1, MetaSame
  <2>4. Succeed(m, v) = [Posts |-> [i \in DOMAIN v.posts |-> ModelToThriftPost(v.posts[i])],
                         Pagination |-> ModelPaginationToThrift(v.meta), BaseResp |-> OK]
    BY <1>1 DEF Succeed
  <2>5. Decoded(m, Succeed(m, v)) =
            [posts |-> [i \in DOMAIN v.posts |-> ThriftPostToModel(ModelToThriftPost(v.posts[i]))],
             meta |-> ModelPaginationToThrift(v.meta)]
    BY <1>1, <2>4 DEF Decoded
  <2>6. SeenValue(m, v) =
            [posts |-> [i \in DOMAIN v.posts |-> SeenPost(v.posts[i])],
             meta |-> IF v.meta = Null THEN ModelPaginationToThrift(Null) ELSE v.meta]
    BY <1>1 DEF SeenValue
  <2> QED BY <2>2, <2>3, <2>5, <2>6
<1>2. CASE m \in {"GetPost", "CreatePost", "UpdatePost"}
  <2>1. v \in Posts
    BY <1>2 DEF Returned
  <2>2. Succeed(m, v).Post = ModelToThriftPost(v)
    BY <1>2 DEF Succeed
  <2>3. Decoded(m, Succeed(m, v)) = ThriftPostToModel(ModelToThriftPost(v))
    BY <1>2, <2>2 DEF Decoded
  <2>4. SeenValue(m, v) = SeenPost(v)
    BY <1>2 DEF SeenValue
  <2> QED BY <2>1, <2>3, <2>4, SeenPostIs
<1>3. CASE m = "DeletePost"
  BY <1>3 DEF Returned, Decoded, SeenValue
<1>4. CASE m = "BatchCreatePosts"
  <2>1. Int32(v.Created) = v.Created /\ Int32(v.Failed) = v.Failed
    BY <1>4, Bound, Int32Same DEF Returned
  <2> QED BY <1>4, <2>1 DEF Returned, Decoded, Succeed, SeenValue
<1>5. CASE m = "AnalyzePosts"
  <2>1. Int32(Len(Store)) = Len(Store) /\ Int32(2) = 2
    BY Bound, StoreBound, Int32Same
  <2>2. v = Analysis
    BY <1>5 DEF Returned
  <2> QED BY <1>5, <2>1, <2>2 DEF Decoded, Succeed, SeenValue, Analysis
<1>6. CASE m = "Login"
  BY <1>6, HolderSame DEF Returned, Decoded, Succeed, SeenValue
<1>7. CASE m = "ValidateToken"
  BY <1>7, HolderSame DEF Returned, Decoded, Succeed, SeenValue
<1>8. CASE m = "Authorize"
  BY <1>8 DEF Returned, Decoded, Succeed, SeenValue
<1> QED BY <1>1, <1>2, <1>3, <1>4, <1>5, <1>6, <1>7, <1>8 DEF ResultOf

(* What the client makes of the response that it gets.                     *)
LEMMA AnswerSeen ==
    ASSUME NEW m \in DOMAIN ResultOf, NEW res, NEW new \in SUBSET {200},
           \/ \E v : res = Ok(v) /\ Returned(m, v)
           \/ \E e \in Errors(m) : res = Failed(e)
    PROVE  Answer(m, FastRead(ResultOf[m],
                              FastWrite(new, ResultOf[m], [Success |-> Response(m, res)])).Success)
             = IF res.ok THEN Ok(SeenValue(m, res.value)) ELSE Failed(SeenError(m, res.err))
<1> DEFINE S == SchemaOf(m)
<1>1. \A r : FastRead(ResultOf[m], FastWrite(new, ResultOf[m], [Success |-> r])).Success
               = Back(S, r, new)
  BY Schemas DEF Back
<1> HIDE DEF S
<1>2. CASE \E v : res = Ok(v) /\ Returned(m, v)
  <2>1. PICK v : res = Ok(v) /\ Returned(m, v)
    BY <1>2
  <2>2. res.ok /\ res.value = v
    BY <2>1 DEF Ok
  <2>3. Response(m, res) = Succeed(m, v)
    BY <2>2 DEF Response
  <2>4. Back(S, Succeed(m, v), new) = Succeed(m, v)
    BY <2>1, SuccessBack DEF S, Returned
  <2>5. Answer(m, Succeed(m, v)) = Ok(SeenValue(m, v))
    BY <2>1, AnswerSuccess, ValueSeen
  <2> QED BY <1>1, <2>2, <2>3, <2>4, <2>5
<1>3. CASE \E e \in Errors(m) : res = Failed(e)
  <2>1. PICK e \in Errors(m) : res = Failed(e)
    BY <1>3
  <2>2. ~res.ok /\ res.err = e
    BY <2>1 DEF Failed
  <2>3. Response(m, res) = Fail(S, m, e)
    BY <2>2 DEF Response, S, SchemaOf
  <2>4. Answer(m, Back(S, Fail(S, m, e), new)) = Failed(SeenError(m, e))
    BY FailureBack DEF S
  <2> QED BY <1>1, <2>2, <2>3, <2>4
<1> QED BY <1>2, <1>3

-----------------------------------------------------------------------------
(* What the service is called with.                                        *)

(* The page that the server makes of the page p of the caller.             *)
Cut(p) ==
    IF p = Null THEN Null
    ELSE ThriftPaginationToModel([Page |-> Int32(p.Page), PageSize |-> Int32(p.PageSize)])

GoodPages ==
    { p \in [Page : 1..MaxInt32, PageSize : 1..MaxInt32, Offset : Nat] :
        p.Offset = (p.Page - 1) * p.PageSize }

LEMMA PageOfGood ==
    ASSUME NEW n \in 1..MaxInt32, NEW s \in 1..MaxInt32  PROVE PageOf(n, s) \in GoodPages
<1>1. MaxInt32 \in Nat
  BY Bound
<1>2. n - 1 \in Nat /\ s \in Nat
  BY <1>1
<1>3. (n - 1) * s \in Nat
  BY <1>2
<1> QED BY <1>3 DEF PageOf, GoodPages

LEMMA CutIs ==
    ASSUME NEW p \in Pages
    PROVE  LET size == IF Int32(p.PageSize) < 1 THEN 20 ELSE Int32(p.PageSize)
               page == IF Int32(p.Page) < 1 THEN 1 ELSE Int32(p.Page)
           IN /\ Cut(p) = PageOf(page, size)
              /\ page \in 1..MaxInt32 /\ size \in 1..MaxInt32
              /\ Cut(p) \in GoodPages
<1> DEFINE size == IF Int32(p.PageSize) < 1 THEN 20 ELSE Int32(p.PageSize)
           page == IF Int32(p.Page) < 1 THEN 1 ELSE Int32(p.Page)
           q == [Page |-> Int32(p.Page), PageSize |-> Int32(p.PageSize)]
<1>1. p.Page \in Int /\ p.PageSize \in Int /\ p # Null
  BY DEF Pages, Null
<1>2. /\ Int32(p.Page) \in Int /\ Int32(p.Page) <= MaxInt32
      /\ Int32(p.PageSize) \in Int /\ Int32(p.PageSize) <= MaxInt32
  BY <1>1, Int32Range
<1>3. page \in 1..MaxInt32 /\ size \in 1..MaxInt32
  BY <1>2, Bound
<1>4. q # Null
  BY DEF Null
<1>5. Cut(p) = PageOf(page, size)
  BY <1>1, <1>4 DEF Cut, ThriftPaginationToModel
<1> HIDE DEF page, size
<1>6. Cut(p) \in GoodPages
  BY <1>3, <1>5, PageOfGood
<1> QED BY <1>3, <1>5, <1>6 DEF page, size

LEMMA CutSame ==
    ASSUME NEW p \in Pages, p.Page \in 1..MaxInt32, p.PageSize \in 1..MaxInt32
    PROVE  Cut(p) = PageOf(p.Page, p.PageSize)
<1>1. Int32(p.Page) = p.Page /\ Int32(p.PageSize) = p.PageSize
  BY Bound, Int32Same
<1> QED BY <1>1, Bound, CutIs

LEMMA FilterSame ==
    ASSUME NEW f \in Filters \cup {Null}
    PROVE  ThriftFilterToModel(ModelFilterToThrift(f)) = f
<1>1. CASE f = Null
  BY <1>1 DEF ThriftFilterToModel, ModelFilterToThrift
<1>2. CASE f \in Filters
  <2>1. f = [UserID |-> f.UserID, Search |-> f.Search, SortBy |-> f.SortBy,
             SortOrder |-> f.SortOrder]
    BY <1>2 DEF Filters
  <2>2. f # Null
    BY <2>1 DEF Null
  <2>3. \A s \in STRING : Given(Unset(s)) = s
    BY RpcAssumption DEF Given, Unset
  <2>4. f.Search \in STRING /\ f.SortBy \in STRING /\ f.SortOrder \in STRING
    BY <1>2 DEF Filters
  <2>5. ModelFilterToThrift(f) =
            [UserId |-> f.UserID, Search |-> Unset(f.Search), SortBy |-> Unset(f.SortBy),
             SortOrder |-> Unset(f.SortOrder)]
    BY <2>2 DEF ModelFilterToThrift
  <2>6. ModelFilterToThrift(f) # Null
    BY <2>5 DEF Null
  <2>7. ThriftFilterToModel(ModelFilterToThrift(f)) =
            [UserID |-> f.UserID, Search |-> Given(Unset(f.Search)),
             SortBy |-> Given(Unset(f.SortBy)), SortOrder |-> Given(Unset(f.SortOrder))]
    BY <2>5, <2>6 DEF ThriftFilterToModel
  <2> QED BY <2>1, <2>3, <2>4, <2>7
<1> QED BY <1>1, <1>2

LEMMA ServedIs ==
    ASSUME NEW m \in DOMAIN ArgsOf, NEW a \in Questions[m]
    PROVE  /\ m = "ListPosts" =>
                Arguments(m, Request(m, a))
                  = [filter |-> a.filter, pagination |-> Cut(a.pagination)]
           /\ m = "UpdatePost" =>
                Arguments(m, Request(m, a)) =
                    [id |-> a.id, UserID |-> 0, Title |-> a.Title, Body |-> a.Body]
           /\ m \notin {"ListPosts", "UpdatePost"} => Arguments(m, Request(m, a)) = a
<1>1. CASE m = "ListPosts"
  <2>1. a \in [filter : Filters \cup {Null}, pagination : Pages \cup {Null}]
    BY <1>1 DEF Questions
  <2>2. Request(m, a).Filter = ModelFilterToThrift(a.filter)
    BY <1>1 DEF Request, GetAllRequest
  <2>3. ThriftPaginationToModel(Request(m, a).Pagination) = Cut(a.pagination)
    <3>1. CASE a.pagination = Null
      BY <1>1, <3>1 DEF Request, GetAllRequest, Cut, ThriftPaginationToModel
    <3>2. CASE a.pagination # Null
      BY <1>1, <3>2 DEF Request, GetAllRequest, Cut
    <3> QED BY <3>1, <3>2
  <2>4. ThriftFilterToModel(ModelFilterToThrift(a.filter)) = a.filter
    BY <2>1, FilterSame
  <2> QED BY <1>1, <2>2, <2>3, <2>4 DEF Arguments
<1>2. CASE m = "UpdatePost"
  <2>1. a.Title \in STRING /\ a.Body \in STRING
    BY <1>2 DEF Questions
  <2>2. \A s \in STRING : Given(Unset(s)) = s
    BY RpcAssumption DEF Given, Unset
  <2> QED BY <1>2, <2>1, <2>2 DEF Arguments, Request, UpdateRequest
<1>3. CASE m \in {"GetPost", "DeletePost"}
  BY <1>3 DEF Arguments, Request
<1>4. CASE m = "CreatePost"
  BY <1>4 DEF Questions, Drafts, Arguments, Request, CreateRequest, ToCreate
<1>5. CASE m = "BatchCreatePosts"
  <2>1. a \in Seq(Drafts)
    BY <1>5 DEF Questions
  <2>2. \A i \in DOMAIN a : ToCreate(CreateRequest(a[i])) = a[i]
    <3>1. \A d \in Drafts : ToCreate(CreateRequest(d)) = d
      BY DEF Drafts, CreateRequest, ToCreate
    <3> QED BY <2>1, <3>1
  <2>3. Request(m, a).Posts = [i \in DOMAIN a |-> CreateRequest(a[i])]
    BY <1>5 DEF Request
  <2>4. Arguments(m, Request(m, a)) = [i \in DOMAIN a |-> ToCreate(CreateRequest(a[i]))]
    BY <1>5, <2>3 DEF Arguments
  <2> QED BY <1>5, <2>1, <2>2, <2>4
<1>6. CASE m = "AnalyzePosts"
  BY <1>6 DEF Questions, Arguments
<1>7. CASE m = "Login"
  BY <1>7 DEF Questions, Arguments, Request
<1>8. CASE m = "ValidateToken"
  BY <1>8 DEF Arguments, Request
<1>9. CASE m = "Authorize"
  <2>1. a = [Subject |-> a.Subject, Resource |-> a.Resource, Action |-> a.Action,
             ResourceAttributes |-> a.ResourceAttributes, Context |-> a.Context]
    BY <1>9 DEF Questions
  <2>2. FromThriftSubject(ToThriftSubject(a.Subject)) = a.Subject
    BY <1>9, HolderSame DEF Questions
  <2>3. Request(m, a) = AuthorizeCall(a)
    BY <1>9 DEF Request
  <2> QED BY <1>9, <2>1, <2>2, <2>3 DEF Arguments, AuthorizeCall
<1> QED BY <1>1, <1>2, <1>3, <1>4, <1>5, <1>6, <1>7, <1>8, <1>9 DEF ArgsOf

-----------------------------------------------------------------------------
(* What the service may return.                                            *)

(* Every element of I has a rank of its own.                               *)
LEMMA RankIsBijection ==
    ASSUME NEW I, IsFiniteSet(I), I \subseteq Int, NEW key, \A i \in I : key[i] \in Int
    PROVE  /\ Cardinality(I) \in Nat
           /\ \A r \in 1..Cardinality(I) : \E i \in I : Rank(key, I, i) = r
<1> DEFINE n == Cardinality(I)
           Lower(i) == { j \in I : Before(key, j, i) }
           f == [i \in I |-> Rank(key, I, i)]
<1>1. n \in Nat
  BY FS_CardinalityType
<1>2. ASSUME NEW i \in I
      PROVE  /\ IsFiniteSet(Lower(i)) /\ Cardinality(Lower(i)) \in Nat
             /\ Cardinality(Lower(i)) < n
  <2>1. Lower(i) \subseteq I /\ i \notin Lower(i)
    BY DEF Before
  <2> HIDE DEF Lower
  <2>2. IsFiniteSet(Lower(i)) /\ Cardinality(Lower(i)) <= n /\ Cardinality(Lower(i)) # n
    BY <2>1, FS_Subset
  <2>3. Cardinality(Lower(i)) \in Nat
    BY <2>2, FS_CardinalityType
  <2> QED BY <1>1, <2>2, <2>3
<1>3. ASSUME NEW i \in I, NEW j \in I, Before(key, i, j)
      PROVE  Cardinality(Lower(i)) # Cardinality(Lower(j))
  <2>1. Lower(i) \subseteq Lower(j)
    <3>1. ASSUME NEW k \in I, Before(key, k, i)  PROVE Before(key, k, j)
      <4>1. key[i] \in Int /\ key[j] \in Int /\ key[k] \in Int
        OBVIOUS
      <4> QED BY <1>3, <3>1, <4>1 DEF Before
    <3> QED BY <3>1
  <2>2. i \in Lower(j) /\ i \notin Lower(i)
    BY <1>3 DEF Before
  <2> HIDE DEF Lower
  <2> QED BY <1>2, <2>1, <2>2, FS_Subset
<1>4. ASSUME NEW i \in I, NEW j \in I, i # j  PROVE f[i] # f[j]
  <2>1. Before(key, i, j) \/ Before(key, j, i)
    BY <1>4 DEF Before
  <2>2. Cardinality(Lower(i)) # Cardinality(Lower(j))
    BY <1>3, <2>1
  <2>3. f[i] = Cardinality(Lower(i)) + 1 /\ f[j] = Cardinality(Lower(j)) + 1
    BY DEF Rank
  <2> HIDE DEF f, Lower
  <2> QED BY <1>2, <2>2, <2>3
<1>5. f \in [I -> 1..n]
  <2>1. ASSUME NEW i \in I  PROVE Rank(key, I, i) \in 1..n
    <3>1. Rank(key, I, i) = Cardinality(Lower(i)) + 1
      BY DEF Rank
    <3> HIDE DEF Lower, n
    <3> QED BY <1>1, <1>2, <3>1
  <2> QED BY <2>1
<1>6. f \in Injection(I, 1..n)
  <2> HIDE DEF f, n
  <2> QED BY <1>4, <1>5 DEF Injection, IsInjective
<1>7. IsFiniteSet(1..n) /\ Cardinality(1..n) = n
  BY <1>1, FS_Interval
<1>8. f \in Surjection(I, 1..n)
  BY <1>6, <1>7, FS_Injection
<1>9. \A r \in 1..n : \E i \in I : f[i] = r
  BY <1>8 DEF Surjection
<1> QED BY <1>1, <1>9

LEMMA ArrangedIs ==
    ASSUME NEW posts \in Seq(Posts), NEW I \in SUBSET (DOMAIN posts), NEW key,
           \A i \in I : key[i] \in Int
    PROVE  /\ Arranged(posts, I, key) \in Seq(Posts)
           /\ Len(Arranged(posts, I, key)) <= Len(posts)
<1> DEFINE At(r) == CHOOSE i \in I : Rank(key, I, i) = r
           n == Cardinality(I)
<1>1. IsFiniteSet(DOMAIN posts) /\ Cardinality(DOMAIN posts) = Len(posts)
  <2>1. DOMAIN posts = 1..Len(posts) /\ Len(posts) \in Nat
    OBVIOUS
  <2> DEFINE len == Len(posts)
  <2>2. len \in Nat
    OBVIOUS
  <2> HIDE DEF len
  <2>3. IsFiniteSet(1..len) /\ Cardinality(1..len) = len
    BY <2>2, FS_Interval
  <2> QED BY <2>1, <2>3 DEF len
<1>2. IsFiniteSet(I) /\ n <= Len(posts)
  BY <1>1, FS_Subset
<1>3. n \in Nat /\ \A r \in 1..n : \E i \in I : Rank(key, I, i) = r
  <2>1. I \subseteq Int
    OBVIOUS
  <2> QED BY <1>2, <2>1, RankIsBijection
<1>4. \A r \in 1..n : At(r) \in I
  BY <1>3
<1>5. Arranged(posts, I, key) = [r \in 1..n |-> posts[At(r)]]
  BY DEF Arranged
<1> HIDE DEF At, n
<1>6. \A r \in 1..n : posts[At(r)] \in Posts
  BY <1>4
<1> QED BY <1>2, <1>3, <1>5, <1>6

LEMMA ListedIs ==
    ASSUME NEW f  PROVE Listed(f) \in Seq(Posts) /\ Len(Listed(f)) <= MaxInt32
<1> DEFINE some == FilterPosts(Store, f)
<1>1. some \in Seq(Posts) /\ Len(some) <= Len(Store)
  <2> DEFINE kept == { i \in DOMAIN Store : Passes(Store[i], f) }
             key == [i \in kept |-> i]
  <2>1. some = Arranged(Store, kept, key)
    BY DEF FilterPosts
  <2>2. kept \in SUBSET (DOMAIN Store) /\ \A i \in kept : key[i] \in Int
    BY StoreBound
  <2> HIDE DEF kept, key, some
  <2> QED BY <2>1, <2>2, StoreBound, ArrangedIs
<1>2. Len(some) \in Nat /\ Len(some) <= MaxInt32
  BY <1>1, StoreBound, Bound
<1> HIDE DEF some
<1>3. Listed(f) = SortPosts(some, f)
  BY DEF Listed, some
<1>4. CASE f = Null \/ f.SortBy = ""
  BY <1>1, <1>2, <1>3, <1>4 DEF SortPosts
<1>5. CASE ~(f = Null \/ f.SortBy = "")
  <2> DEFINE sign == IF f.SortOrder \in {"", "desc"} THEN -1 ELSE 1
             key == [i \in DOMAIN some |-> sign * Key(some[i], f.SortBy)]
  <2>1. SortPosts(some, f) = Arranged(some, DOMAIN some, key)
    BY <1>5 DEF SortPosts
  <2>2. ASSUME NEW p \in Posts  PROVE Key(p, f.SortBy) \in Int
    <3>1. p.CreatedAt \in Times /\ p.UpdatedAt \in Times /\ p.ID \in Int
      BY DEF Posts
    <3>2. \A t \in Times : t.secs \in Int /\ t.nanos \in Int
      BY Typed DEF Times
    <3> QED BY <3>1, <3>2 DEF Key
  <2>3. \A i \in DOMAIN some : Key(some[i], f.SortBy) \in Int
    BY <1>1, <2>2
  <2>4. \A i \in DOMAIN some : key[i] \in Int
    <3>1. sign \in Int
      OBVIOUS
    <3> HIDE DEF sign
    <3> QED BY <2>3, <3>1
  <2> HIDE DEF key
  <2>5. Arranged(some, DOMAIN some, key) \in Seq(Posts)
        /\ Len(Arranged(some, DOMAIN some, key)) <= Len(some)
    BY <1>1, <2>4, ArrangedIs
  <2>6. Listed(f) \in Seq(Posts) /\ Len(Listed(f)) <= Len(some) /\ Len(Listed(f)) \in Nat
    BY <1>3, <2>1, <2>5
  <2> HIDE DEF sign
  <2> QED BY <1>2, <2>6, Bound
<1> QED BY <1>4, <1>5

LEMMA TimesMonotone ==
    ASSUME NEW a \in Int, NEW b \in Int, a <= b, NEW c \in Nat  PROVE a * c <= b * c
<1>1. PICK d \in Nat : b = a + d
  <2>1. b - a \in Nat /\ b = a + (b - a)
    OBVIOUS
  <2> QED BY <2>1
<1>2. d * c \in Nat
  OBVIOUS
<1>3. b * c = a * c + d * c
  BY <1>1
<1> QED BY <1>2, <1>3

(* Whether there is a next page, and that its number fits in 32 bits.      *)
LEMMA PaginationIs ==
    ASSUME NEW total \in 0..MaxInt32, NEW p \in GoodPages
    PROVE  LET meta == CalculatePagination(total, p) IN
           /\ meta \in Metas
           /\ meta.Page = p.Page
           /\ meta.HasNext => p.Page < MaxInt32 /\ p.Page * p.PageSize < total
           /\ ~meta.HasNext => total <= p.Page * p.PageSize
<1> DEFINE n == p.Page
           s == p.PageSize
           q == (total + s - 1) \div s
           pages == IF q = 0 THEN 1 ELSE q
<1>1. n \in 1..MaxInt32 /\ s \in 1..MaxInt32 /\ MaxInt32 \in Nat
  BY Bound DEF GoodPages
<1>2. n \in Nat /\ s \in Nat /\ total \in Nat /\ 1 <= n /\ 1 <= s /\ total <= MaxInt32
  BY <1>1
<1>3. /\ CalculatePagination(total, p) =
            [Page |-> n, PageSize |-> s, TotalItems |-> total, TotalPages |-> pages,
             HasNext |-> n < pages, HasPrev |-> n > 1]
  BY DEF CalculatePagination
<1> HIDE DEF n, s
<1>4. q \in Nat /\ q * s <= total + s - 1 /\ total + s - 1 < q * s + s
  <2>1. total + s - 1 \in Nat /\ s > 0
    BY <1>2
  <2> QED BY <1>2, <2>1, DivIs
<1> HIDE DEF q
<1>5. q <= total
  <2>1. SUFFICES ASSUME total + 1 <= q  PROVE FALSE
    BY <1>2, <1>4
  <2>2. (total + 1) * s <= q * s
    BY <1>2, <1>4, <2>1, TimesMonotone
  <2>3. (total + 1) * s = total * s + s
    BY <1>2
  <2>4. 1 * total <= s * total
    BY <1>2, TimesMonotone
  <2>5. s * total = total * s /\ 1 * total = total
    BY <1>2
  <2>6. total * s \in Nat /\ q * s \in Nat
    BY <1>2, <1>4
  <2> QED BY <1>2, <1>4, <2>2, <2>3, <2>4, <2>5, <2>6
<1>6. pages \in 1..MaxInt32
  BY <1>2, <1>4, <1>5, Bound
<1>7. CalculatePagination(total, p) \in Metas
  BY <1>1, <1>2, <1>3, <1>6 DEF Metas
<1>8. n * s \in Nat /\ q * s \in Nat
  BY <1>2, <1>4
<1>9. ASSUME n < pages  PROVE n < MaxInt32 /\ n * s < total
  <2>1. n + 1 <= q
    BY <1>2, <1>4, <1>9
  <2>2. (n + 1) * s <= q * s
    BY <1>2, <1>4, <2>1, TimesMonotone
  <2>3. (n + 1) * s = n * s + s
    BY <1>2
  <2>4. n < MaxInt32
    BY <1>2, <1>4, <1>5, <2>1, Bound
  <2>5. n * s < total
    BY <1>2, <1>4, <1>8, <2>2, <2>3
  <2> QED BY <2>4, <2>5
<1>10. ASSUME ~(n < pages)  PROVE total <= n * s
  <2>1. CASE q = 0
    BY <1>2, <1>4, <1>8, <2>1
  <2>2. CASE q # 0
    <3>1. q <= n
      BY <1>2, <1>4, <1>10, <2>2
    <3>2. q * s <= n * s
      BY <1>2, <1>4, <3>1, TimesMonotone
    <3> QED BY <1>2, <1>4, <1>8, <3>2
  <2> QED BY <2>1, <2>2
<1> HIDE DEF pages
<1>11. /\ CalculatePagination(total, p).Page = n
       /\ CalculatePagination(total, p).HasNext = (n < pages)
  BY <1>3
<1> QED BY <1>7, <1>9, <1>10, <1>11 DEF n, s

(* The posts of a page: those from its offset on, up to its end.           *)
LEMMA PageIs ==
    ASSUME NEW p \in GoodPages, NEW posts \in Seq(Posts)
    PROVE  LET end == PageEnd(p, Len(posts))
               page == SubSeq(posts, p.Offset + 1, end)
           IN /\ end \in Nat /\ end <= Len(posts)
              /\ p.Offset \in Nat /\ p.Page * p.PageSize \in Nat
              /\ p.Page * p.PageSize < Len(posts) => end = p.Page * p.PageSize
              /\ Len(posts) <= p.Page * p.PageSize => end = Len(posts)
              /\ p.Offset < p.Page * p.PageSize
              /\ page \in Seq(Posts)
<1>1. p.Page \in 1..MaxInt32 /\ p.PageSize \in 1..MaxInt32 /\ MaxInt32 \in Nat
      /\ p.Offset \in Nat /\ p.Offset = (p.Page - 1) * p.PageSize
  BY Bound DEF GoodPages
<1>2. p.Page \in Nat /\ p.PageSize \in Nat /\ p.PageSize >= 1
  BY <1>1
<1>3. (p.Page - 1) * p.PageSize = p.Page * p.PageSize - p.PageSize /\ p.Page * p.PageSize \in Nat
  BY <1>2
<1>4. p.Offset + p.PageSize = p.Page * p.PageSize
  BY <1>1, <1>2, <1>3
<1>5. Len(posts) \in Nat
  OBVIOUS
<1>6. /\ PageEnd(p, Len(posts)) \in Nat /\ PageEnd(p, Len(posts)) <= Len(posts)
      /\ p.Page * p.PageSize < Len(posts) => PageEnd(p, Len(posts)) = p.Page * p.PageSize
      /\ Len(posts) <= p.Page * p.PageSize => PageEnd(p, Len(posts)) = Len(posts)
  BY <1>3, <1>4, <1>5 DEF PageEnd
<1>7. SubSeq(posts, p.Offset + 1, PageEnd(p, Len(posts))) \in Seq(Posts)
  BY <1>1, <1>6, SubSeqProperties
<1> QED BY <1>1, <1>2, <1>3, <1>4, <1>6, <1>7

LEMMA GetAllIs ==
    ASSUME NEW s, s.pagination \in GoodPages \cup {Null}
    PROVE  /\ GetAll(s) \in [posts : Seq(Posts), meta : Metas \cup {Null}]
           /\ s.pagination # Null =>
                /\ GetAll(s).posts = SubSeq(Listed(s.filter), s.pagination.Offset + 1,
                                            PageEnd(s.pagination, Len(Listed(s.filter))))
                /\ GetAll(s).meta = CalculatePagination(Len(Listed(s.filter)), s.pagination)
                /\ GetAll(s).meta # Null
<1> DEFINE all == Listed(s.filter)
<1>1. all \in Seq(Posts) /\ Len(all) <= MaxInt32 /\ Len(all) \in Nat /\ MaxInt32 \in Nat
  BY ListedIs, Bound
<1> HIDE DEF all
<1>2. CASE s.pagination = Null
  <2>1. GetAll(s) = [posts |-> all, meta |-> Null]
    BY <1>2 DEF GetAll, all
  <2> QED BY <1>1, <1>2, <2>1
<1>3. CASE s.pagination # Null
  <2> DEFINE p == s.pagination
             page == SubSeq(all, p.Offset + 1, PageEnd(p, Len(all)))
             meta == CalculatePagination(Len(all), p)
  <2>1. GetAll(s) = [posts |-> page, meta |-> meta]
    BY <1>3 DEF GetAll, all
  <2>2. p \in GoodPages /\ Len(all) \in 0..MaxInt32
    BY <1>1, <1>3
  <2>3. meta \in Metas /\ meta # Null
    BY <2>2, PaginationIs, MetaSame
  <2>4. page \in Seq(Posts)
    BY <1>1, <2>2, PageIs
  <2> HIDE DEF page, meta
  <2>5. GetAll(s) \in [posts : Seq(Posts), meta : Metas \cup {Null}]
    BY <2>1, <2>3, <2>4
  <2> QED BY <2>1, <2>3, <2>5 DEF page, meta, all
<1> QED BY <1>2, <1>3

(* What the service may be called with.                                    *)
Served(m, s) ==
    /\ m = "ListPosts" => s.pagination \in GoodPages \cup {Null}
    /\ m = "CreatePost" => s \in Drafts
    /\ m = "UpdatePost" => s.UserID \in Int /\ s.Title \in STRING /\ s.Body \in STRING
    /\ m = "BatchCreatePosts" => Len(s) \in Nat /\ Len(s) <= MaxInt32

LEMMA ServedTyped ==
    ASSUME NEW m \in DOMAIN ArgsOf, NEW a \in Questions[m]
    PROVE  Served(m, Arguments(m, Request(m, a)))
<1>1. CASE m = "ListPosts"
  <2>1. a.pagination \in Pages \cup {Null}
    BY <1>1 DEF Questions
  <2>2. Cut(a.pagination) \in GoodPages \cup {Null}
    <3>1. CASE a.pagination = Null
      BY <3>1 DEF Cut
    <3>2. CASE a.pagination \in Pages
      BY <3>2, CutIs
    <3> QED BY <2>1, <3>1, <3>2
  <2> QED BY <1>1, <2>2, ServedIs DEF Served
<1>2. CASE m = "CreatePost"
  BY <1>2, ServedIs DEF Served, Questions
<1>3. CASE m = "UpdatePost"
  <2>1. a.Title \in STRING /\ a.Body \in STRING
    BY <1>3 DEF Questions
  <2> QED BY <1>3, <2>1, ServedIs DEF Served
<1>4. CASE m = "BatchCreatePosts"
  <2>1. a \in Seq(Drafts) /\ Len(a) <= MaxInt32
    BY <1>4 DEF Questions
  <2>2. Len(a) \in Nat
    BY <2>1
  <2> QED BY <1>4, <2>1, <2>2, ServedIs DEF Served
<1>5. CASE m \notin {"ListPosts", "CreatePost", "UpdatePost", "BatchCreatePosts"}
  BY <1>5 DEF Served
<1> QED BY <1>1, <1>2, <1>3, <1>4, <1>5

LEMMA ValuesReturned ==
    ASSUME NEW m \in DOMAIN ResultOf, NEW s, Served(m, s), NEW v \in Values(m, s)
    PROVE  Returned(m, v)
<1>0. \A p \in Stored : p \in Posts
  BY StoreBound DEF Stored
<1>1. CASE m = "ListPosts"
  <2>1. v = GetAll(s)
    BY <1>1 DEF Values
  <2> QED BY <1>1, <2>1, GetAllIs DEF Returned, Served
<1>2. CASE m = "GetPost"
  BY <1>0, <1>2 DEF Values, Returned
<1>3. CASE m = "CreatePost"
  <2>1. v = Created(s, Len(Store) + 1) /\ s \in Drafts
    BY <1>3 DEF Values, Served
  <2>2. Now \in Times /\ Len(Store) + 1 \in Int
    BY Typed, StoreBound
  <2>3. s.UserID \in Int /\ s.Title \in STRING /\ s.Body \in STRING
    BY <2>1 DEF Drafts
  <2>4. v \in Posts
    BY <2>1, <2>2, <2>3 DEF Created, Posts
  <2> QED BY <1>3, <2>4 DEF Returned
<1>4. CASE m = "UpdatePost"
  <2>1. v \in Updated(s)
    BY <1>4 DEF Values
  <2>2. PICK p \in Stored :
            v = [ID |-> p.ID, UserID |-> IF s.UserID = 0 THEN p.UserID ELSE s.UserID,
                 Title |-> IF s.Title = "" THEN p.Title ELSE s.Title,
                 Body |-> IF s.Body = "" THEN p.Body ELSE s.Body,
                 CreatedAt |-> p.CreatedAt, UpdatedAt |-> Now]
    BY <2>1 DEF Updated
  <2>3. p \in Posts /\ Now \in Times
    BY <1>0, Typed
  <2>4. s.UserID \in Int /\ s.Title \in STRING /\ s.Body \in STRING
    BY <1>4 DEF Served
  <2>5. v \in Posts
    BY <2>2, <2>3, <2>4 DEF Posts
  <2> QED BY <1>4, <2>5 DEF Returned
<1>5. CASE m = "DeletePost"
  BY <1>5 DEF Values, Returned
<1>6. CASE m = "BatchCreatePosts"
  <2>1. PICK n \in 0..Len(s) : v = BulkResult(s, n)
    BY <1>6 DEF Values
  <2>2. Len(s) \in Nat /\ Len(s) <= MaxInt32 /\ MaxInt32 \in Nat
    BY <1>6, Bound DEF Served
  <2>3. Len(s) - n \in 0..MaxInt32 /\ n \in 0..MaxInt32
    BY <2>2
  <2> QED BY <1>6, <2>1, <2>3 DEF Returned, BulkResult
<1>7. CASE m = "AnalyzePosts"
  BY <1>7 DEF Values, Returned
<1>8. CASE m = "Login"
  BY <1>8, Typed DEF Values, Returned
<1>9. CASE m = "ValidateToken"
  BY <1>9, Typed DEF Values, Returned
<1>10. CASE m = "Authorize"
  BY <1>10 DEF Values, Returned
<1> QED BY <1>1, <1>2, <1>3, <1>4, <1>5, <1>6, <1>7, <1>8, <1>9, <1>10 DEF ResultOf

-----------------------------------------------------------------------------
(* The invariant of a call.                                                *)

Asking ==
    /\ newer \subseteq {"client", "server"}
    /\ at \in {"request", "serve", "response", "done", "broken"}
    /\ method \in DOMAIN ArgsOf
    /\ asked \in Questions[method]
    /\ at = "request" => wire = Sent(method, asked)

Serving ==
    at \in {"serve", "response", "done"} => served = Arguments(method, Request(method, asked))

Answering ==
    /\ at \in {"response", "done"} => result \in Outcomes(method, served)
    /\ at = "response" =>
         wire = FastWrite(Added("server"), ResultOf[method], [Success |-> Response(method, result)])

CallInv == Asking /\ Serving /\ Answering /\ SameAnswer

LEMMA Methods == DOMAIN ArgsOf = DOMAIN ResultOf
BY DEF ArgsOf, ResultOf

LEMMA AddedIs == ASSUME NEW side  PROVE Added(side) \in SUBSET {200}
BY DEF Added

LEMMA AskedTyped ==
    ASSUME NEW m \in DOMAIN Inputs, NEW a \in Inputs[m]
    PROVE  m \in DOMAIN ArgsOf /\ a \in Questions[m]
BY RpcAssumption

(* What the server finds in the bytes of the client.                       *)
LEMMA Received ==
    ASSUME NEW m \in DOMAIN ArgsOf, NEW a \in Questions[m]
    PROVE  FastRead(ArgsOf[m], Sent(m, a)).Req = Request(m, a)
BY RequestComes, AddedIs DEF Comes, Sent

(* What the client finds in the bytes of the server.                       *)
LEMMA Taken ==
    ASSUME NEW m \in DOMAIN ArgsOf, NEW a \in Questions[m], NEW s,
           s = Arguments(m, Request(m, a)), NEW res \in Outcomes(m, s)
    PROVE  Answer(m, FastRead(ResultOf[m], FastWrite(Added("server"), ResultOf[m],
                                                     [Success |-> Response(m, res)])).Success)
             = IF res.ok THEN Ok(SeenValue(m, res.value)) ELSE Failed(SeenError(m, res.err))
<1>1. m \in DOMAIN ResultOf
  BY Methods
<1>2. Served(m, s)
  BY ServedTyped
<1>3. \/ \E v \in Values(m, s) : res = Ok(v)
      \/ \E e \in Errors(m) : res = Failed(e)
  BY DEF Outcomes
<1>4. \/ \E v : res = Ok(v) /\ Returned(m, v)
      \/ \E e \in Errors(m) : res = Failed(e)
  BY <1>1, <1>2, <1>3, ValuesReturned
<1> QED BY <1>1, <1>4, AddedIs, AnswerSeen

LEMMA InitCall == Init => CallInv
BY AskedTyped DEF Init, CallInv, Asking, Serving, Answering, SameAnswer

LEMMA NextQuestion ==
    ASSUME CallInv, NextPage
    PROVE  /\ method = "ListPosts" /\ asked \in Questions["ListPosts"]
           /\ asked.pagination \in Pages /\ asked.pagination # Null
           /\ result \in Outcomes(method, served) /\ result.ok
           /\ result.value = GetAll(served)
           /\ served = [filter |-> asked.filter, pagination |-> Cut(asked.pagination)]
           /\ got.value.meta = CalculatePagination(Len(Listed(asked.filter)), Cut(asked.pagination))
           /\ got.value.meta.HasNext
           /\ Cut(asked.pagination) \in GoodPages
           /\ asked.pagination.Page = Cut(asked.pagination).Page
           /\ Cut(asked.pagination).Page < MaxInt32
           /\ Cut(asked.pagination).Page * Cut(asked.pagination).PageSize
                < Len(Listed(asked.filter))
<1>1. /\ at = "done" /\ method = "ListPosts" /\ got.ok
      /\ asked.pagination # Null /\ got.value.meta.HasNext
      /\ asked \in Questions["ListPosts"]
  BY DEF NextPage, CallInv, Asking
<1>2. result \in Outcomes(method, served) /\ served = Arguments(method, Request(method, asked))
  BY <1>1 DEF CallInv, Answering, Serving
<1>3. got = IF result.ok THEN Ok(SeenValue(method, result.value))
            ELSE Failed(SeenError(method, result.err))
  BY <1>1 DEF CallInv, SameAnswer
<1>4. result.ok
  BY <1>1, <1>3 DEF Failed
<1>5. result.value = GetAll(served)
  BY <1>1, <1>2, <1>4 DEF Outcomes, Values, Ok, Failed
<1>6. served = [filter |-> asked.filter, pagination |-> Cut(asked.pagination)]
  BY <1>1, <1>2, ServedIs DEF ArgsOf
<1>7. asked.pagination \in Pages
  BY <1>1 DEF Questions
<1>8. Cut(asked.pagination) \in GoodPages /\ Cut(asked.pagination) # Null
  <2>1. Cut(asked.pagination) \in GoodPages
    BY <1>7, CutIs
  <2>2. \A p \in GoodPages : p # Null
    BY DEF GoodPages, Null
  <2> QED BY <2>1, <2>2
<1>9. GetAll(served).meta = CalculatePagination(Len(Listed(asked.filter)), Cut(asked.pagination))
      /\ GetAll(served).meta # Null
  BY <1>6, <1>8, GetAllIs
<1>10. got.value.meta = GetAll(served).meta
  BY <1>1, <1>3, <1>4, <1>5, <1>9 DEF Ok, SeenValue
<1>11. Len(Listed(asked.filter)) \in 0..MaxInt32
  BY ListedIs, Bound
<1>12. /\ Cut(asked.pagination).Page < MaxInt32
       /\ Cut(asked.pagination).Page * Cut(asked.pagination).PageSize < Len(Listed(asked.filter))
  BY <1>1, <1>8, <1>9, <1>10, <1>11, PaginationIs
<1>13. asked.pagination.Page = Cut(asked.pagination).Page
  <2>1. asked.pagination.Page \in 1..MaxInt32
    BY DEF NextPage
  <2>2. Int32(asked.pagination.Page) = asked.pagination.Page
    BY <2>1, Bound, Int32Same
  <2>3. Cut(asked.pagination).Page = IF Int32(asked.pagination.Page) < 1 THEN 1
                                     ELSE Int32(asked.pagination.Page)
    BY <1>7, CutIs DEF PageOf
  <2> QED BY <2>1, <2>2, <2>3
<1> QED BY <1>1, <1>2, <1>4, <1>5, <1>6, <1>7, <1>8, <1>9, <1>10, <1>12, <1>13

LEMMA NextCall == CallInv /\ [Next]_vars => CallInv'
<1> SUFFICES ASSUME CallInv, [Next]_vars  PROVE CallInv'
  OBVIOUS
<1>1. CASE Receive
  <2>1. served' = Arguments(method, Request(method, asked))
    <3>1. wire = Sent(method, asked) /\ method \in DOMAIN ArgsOf /\ asked \in Questions[method]
      BY <1>1 DEF Receive, CallInv, Asking
    <3> QED BY <1>1, <3>1, Received DEF Receive
  <2> QED BY <1>1, <2>1 DEF Receive, CallInv, Asking, Serving, Answering, SameAnswer
<1>2. CASE Serve
  <2>1. /\ at' = "response" /\ result' \in Outcomes(method, served)
        /\ wire' = FastWrite(Added("server"), ResultOf[method],
                             [Success |-> Response(method, result')])
        /\ UNCHANGED <<newer, method, asked, served, got, walk>>
        /\ at = "serve"
    BY <1>2 DEF Serve
  <2>2. Added("server")' = Added("server")
    BY <2>1 DEF Added
  <2>3. Asking'
    BY <2>1 DEF CallInv, Asking
  <2>4. Serving'
    BY <2>1 DEF CallInv, Serving
  <2>5. Answering'
    BY <2>1, <2>2 DEF Answering
  <2>6. SameAnswer'
    BY <2>1 DEF SameAnswer
  <2> QED BY <2>3, <2>4, <2>5, <2>6 DEF CallInv
<1>3. CASE Take
  <2>1. /\ at = "response" /\ at' = "done"
        /\ got' = Answer(method, FastRead(ResultOf[method], wire).Success)
        /\ UNCHANGED <<newer, method, asked, served, result>>
    BY <1>3 DEF Take
  <2>2. /\ method \in DOMAIN ArgsOf /\ asked \in Questions[method]
        /\ served = Arguments(method, Request(method, asked))
        /\ result \in Outcomes(method, served)
        /\ wire = FastWrite(Added("server"), ResultOf[method],
                            [Success |-> Response(method, result)])
    BY <2>1 DEF CallInv, Asking, Serving, Answering
  <2>3. got' = IF result.ok THEN Ok(SeenValue(method, result.value))
               ELSE Failed(SeenError(method, result.err))
    BY <2>1, <2>2, Taken
  <2>4. SameAnswer'
    BY <2>1, <2>3 DEF SameAnswer
  <2>5. Asking' /\ Serving' /\ Answering'
    BY <2>1, <2>2 DEF CallInv, Asking, Serving, Answering
  <2> QED BY <2>4, <2>5 DEF CallInv
<1>4. CASE Break
  BY <1>4 DEF Break, CallInv, Asking, Serving, Answering, SameAnswer
<1>5. CASE NextPage
  <2>1. /\ at' = "request" /\ UNCHANGED <<newer, method, walk>>
        /\ asked' = [filter |-> asked.filter,
                     pagination |-> PageOf(asked.pagination.Page + 1, asked.pagination.PageSize)]
        /\ wire' = Sent(method, asked')
    BY <1>5 DEF NextPage
  <2>2. /\ method = "ListPosts" /\ asked \in Questions["ListPosts"]
        /\ asked.pagination \in Pages /\ Cut(asked.pagination) \in GoodPages
        /\ asked.pagination.Page = Cut(asked.pagination).Page
    BY <1>5, NextQuestion
  <2>3. asked.pagination.Page + 1 \in Int /\ asked.pagination.PageSize \in Int
    BY <2>2 DEF Pages, GoodPages
  <2>4. PageOf(asked.pagination.Page + 1, asked.pagination.PageSize) \in Pages
    <3>1. ASSUME NEW n \in Int, NEW s \in Int  PROVE PageOf(n, s) \in Pages
      BY DEF PageOf, Pages
    <3> QED BY <2>3, <3>1
  <2>5. asked' \in Questions[method]
    BY <2>1, <2>2, <2>4 DEF Questions
  <2>6. wire' = Sent(method, asked)'
    BY <2>1 DEF Sent, Added
  <2> QED BY <2>1, <2>5, <2>6 DEF CallInv, Asking, Serving, Answering, SameAnswer
<1>6. CASE UNCHANGED vars
  BY <1>6 DEF vars, CallInv, Asking, Serving, Answering, SameAnswer, Sent, Added
<1> QED BY <1>1, <1>2, <1>3, <1>4, <1>5, <1>6 DEF Next

LEMMA CallInvariant == Spec => []CallInv
BY InitCall, NextCall, PTL DEF Spec

(* The service is asked what the gateway was asked: SameRequest, for every *)
(* request of every method, whichever side has structs with more fields.   *)
THEOREM RequestArrives == Spec => []SameRequest
<1>1. ASSUME CallInv  PROVE SameRequest
  <2>1. SUFFICES ASSUME at \in {"serve", "response"}
                 PROVE  CASE method = "ListPosts" ->
                                LET p == asked.pagination IN
                                /\ served.filter = asked.filter
                                /\ p = Null => served.pagination = Null
                                /\ p # Null =>
                                    (p.Page \in 1..MaxInt32 /\ p.PageSize \in 1..MaxInt32
                                        => served.pagination = PageOf(p.Page, p.PageSize))
                          [] method = "UpdatePost" -> served = [asked EXCEPT !.UserID = 0]
                          [] OTHER -> served = asked
    BY DEF SameRequest
  <2>2. /\ method \in DOMAIN ArgsOf /\ asked \in Questions[method]
        /\ served = Arguments(method, Request(method, asked))
    BY <1>1, <2>1 DEF CallInv, Asking, Serving
  <2>3. CASE method = "ListPosts"
    <3>1. served = [filter |-> asked.filter, pagination |-> Cut(asked.pagination)]
      BY <2>2, <2>3, ServedIs
    <3>2. asked.pagination \in Pages \cup {Null}
      BY <2>2, <2>3 DEF Questions
    <3>3. asked.pagination = Null => Cut(asked.pagination) = Null
      BY DEF Cut
    <3> QED BY <2>3, <3>1, <3>2, <3>3, CutSame
  <2>4. CASE method = "UpdatePost"
    <3>1. served = [id |-> asked.id, UserID |-> 0, Title |-> asked.Title, Body |-> asked.Body]
      BY <2>2, <2>4, ServedIs
    <3>2. asked = [id |-> asked.id, UserID |-> asked.UserID, Title |-> asked.Title,
                   Body |-> asked.Body]
      BY <2>2, <2>4 DEF Questions
    <3>3. served = [asked EXCEPT !.UserID = 0]
      BY <3>1, <3>2
    <3> QED BY <2>4, <3>3
  <2>5. CASE method \notin {"ListPosts", "UpdatePost"}
    BY <2>2, <2>5, ServedIs
  <2> QED BY <2>3, <2>4, <2>5
<1> QED BY <1>1, CallInvariant, PTL

(* The service is never called with a page that begins before the list or  *)
(* has no size, whatever the caller has asked for and however that was cut *)
(* to 32 bits: PageIsSound.                                                *)
THEOREM PagesAreSound == Spec => []PageIsSound
<1>1. ASSUME CallInv  PROVE PageIsSound
  <2>1. SUFFICES ASSUME at = "serve", method = "ListPosts", served.pagination # Null
                 PROVE  LET p == served.pagination IN
                        p.PageSize > 0 /\ p.Offset >= 0 /\ p.Offset = (p.Page - 1) * p.PageSize
    BY DEF PageIsSound
  <2>2. Served(method, served)
    BY <1>1, <2>1, ServedTyped DEF CallInv, Asking, Serving
  <2>3. served.pagination \in GoodPages
    BY <2>1, <2>2 DEF Served
  <2> QED BY <2>3, Bound DEF GoodPages
<1> QED BY <1>1, CallInvariant, PTL

(* The caller gets what the service returned, as SeenValue and SeenError   *)
(* say: SameAnswer, for every store, every question and every outcome.     *)
THEOREM AnswerArrives == Spec => []SameAnswer
<1>1. CallInv => SameAnswer
  BY DEF CallInv
<1> QED BY <1>1, CallInvariant, PTL

-----------------------------------------------------------------------------
(* Turning the pages of a list.                                            *)

(* The posts of a list from one on, up to another, as the caller sees them.*)
Between(all, from, to) == [i \in 1..(to - from + 1) |-> SeenPost(all[from + i - 1])]

LEMMA BetweenIs ==
    ASSUME NEW all \in Seq(Posts), NEW from \in Nat, from >= 1, NEW to \in Nat, to <= Len(all)
    PROVE  LET part == SubSeq(all, from, to) IN
           Between(all, from, to) = [i \in DOMAIN part |-> SeenPost(part[i])]
<1> DEFINE part == SubSeq(all, from, to)
<1>1. Len(all) \in Nat
  OBVIOUS
<1>2. CASE from <= to
  <2>1. /\ DOMAIN part = 1..(to - from + 1)
        /\ \A i \in 1..(to - from + 1) : part[i] = all[from + i - 1]
    BY <1>1, <1>2
  <2> HIDE DEF part
  <2> QED BY <2>1 DEF Between, part
<1>3. CASE to < from
  <2>1. DOMAIN part = {} /\ 1..(to - from + 1) = {}
    BY <1>1, <1>3
  <2> HIDE DEF part
  <2> QED BY <2>1 DEF Between, part
<1> QED BY <1>2, <1>3

LEMMA BetweenSeq ==
    ASSUME NEW all, NEW from \in Int, NEW n \in Nat
    PROVE  LET x == [i \in 1..n |-> SeenPost(all[from + i - 1])] IN
           x \in Seq({ SeenPost(all[i]) : i \in Int }) /\ Len(x) = n
<1> DEFINE P == { SeenPost(all[i]) : i \in Int }
           x == [i \in 1..n |-> SeenPost(all[from + i - 1])]
<1>1. ASSUME NEW i \in 1..n  PROVE x[i] \in P
  <2>1. from + i - 1 \in Int
    OBVIOUS
  <2> QED BY <2>1
<1>2. x = [i \in 1..n |-> x[i]]
  OBVIOUS
<1> HIDE DEF x, P
<1>3. x \in Seq(P) /\ Len(x) = n
  BY <1>1, <1>2
<1> QED BY <1>3 DEF x, P

LEMMA BetweenJoined ==
    ASSUME NEW all, NEW from \in Nat, from >= 1, NEW mid \in Nat, from <= mid + 1,
           NEW to \in Nat, mid <= to
    PROVE  Between(all, from, mid) \o Between(all, mid + 1, to) = Between(all, from, to)
<1> DEFINE x == Between(all, from, mid)
           y == Between(all, mid + 1, to)
           z == Between(all, from, to)
           P == { SeenPost(all[i]) : i \in Int }
           k == mid - from + 1
           l == to - mid
<1>1. k \in Nat /\ l \in Nat /\ k + l = to - from + 1 /\ to - (mid + 1) + 1 = l
  OBVIOUS
<1>2. /\ x = [i \in 1..k |-> SeenPost(all[from + i - 1])]
      /\ y = [i \in 1..l |-> SeenPost(all[mid + 1 + i - 1])]
      /\ z = [i \in 1..(k + l) |-> SeenPost(all[from + i - 1])]
  BY <1>1 DEF Between
<1>3. k = mid - from + 1
  OBVIOUS
<1> HIDE DEF x, y, z, k, l, P
<1>4. k + l \in Nat /\ mid + 1 \in Int /\ from \in Int
  BY <1>1
<1>5. /\ x \in Seq(P) /\ Len(x) = k /\ y \in Seq(P) /\ Len(y) = l
      /\ z \in Seq(P) /\ Len(z) = k + l
  <2>1. x \in Seq(P) /\ Len(x) = k
    <3>1. from \in Int /\ k \in Nat
      BY <1>1
    <3>2. [i \in 1..k |-> SeenPost(all[from + i - 1])] \in Seq({ SeenPost(all[i]) : i \in Int })
          /\ Len([i \in 1..k |-> SeenPost(all[from + i - 1])]) = k
      BY <3>1, BetweenSeq
    <3> QED BY <1>2, <3>2 DEF P
  <2>2. y \in Seq(P) /\ Len(y) = l
    BY <1>1, <1>2, <1>4, BetweenSeq DEF P
  <2>3. z \in Seq(P) /\ Len(z) = k + l
    BY <1>2, <1>4, BetweenSeq DEF P
  <2> QED BY <2>1, <2>2, <2>3
<1>6. /\ x \o y \in Seq(P) /\ Len(x \o y) = k + l
      /\ \A i \in 1..(k + l) : (x \o y)[i] = IF i <= k THEN x[i] ELSE y[i - k]
  BY <1>5, ConcatProperties
<1>7. ASSUME NEW i \in 1..(k + l)  PROVE (x \o y)[i] = z[i]
  <2>1. CASE i <= k
    <3>1. i \in 1..k
      BY <1>1, <2>1
    <3> QED BY <1>2, <1>6, <2>1, <3>1
  <2>2. CASE ~(i <= k)
    <3>1. i - k \in 1..l /\ mid + 1 + (i - k) - 1 = from + i - 1
      BY <1>1, <1>3, <2>2
    <3>2. y[i - k] = SeenPost(all[mid + 1 + (i - k) - 1])
      BY <1>2, <3>1
    <3>3. (x \o y)[i] = y[i - k]
      BY <1>6, <2>2
    <3> QED BY <1>2, <3>1, <3>2, <3>3
  <2> QED BY <2>1, <2>2
<1>8. x \o y = z
  BY <1>5, <1>6, <1>7, SeqEqual
<1> QED BY <1>8 DEF x, y, z

All == Listed(asked.filter)
Page == Cut(asked.pagination)

WalkBegins ==
    /\ walk.from \in Nat
    /\ walk.from = 0 => walk.posts = <<>>
    /\ (method # "ListPosts" \/ asked.pagination = Null) => walk.from = 0

(* Before a further page, the caller has seen all up to its offset, ...    *)
WalkGoesOn ==
    at \in {"request", "serve", "response"} /\ walk.from > 0 =>
        /\ walk.from <= Page.Offset /\ Page.Offset < Len(All)
        /\ walk.posts = Between(All, walk.from, Page.Offset)

(* ... and with it, all up to its end.                                     *)
WalkHasSeen ==
    at = "done" /\ method = "ListPosts" /\ asked.pagination # Null /\ got.ok =>
        /\ walk.from >= 1 /\ walk.from <= Page.Offset + 1
        /\ walk.posts = Between(All, walk.from, PageEnd(Page, Len(All)))

WalkInv == WalkBegins /\ WalkGoesOn /\ WalkHasSeen

LEMMA InitWalk == Init => WalkInv
BY DEF Init, WalkInv, WalkBegins, WalkGoesOn, WalkHasSeen

(* What the caller gets to see of a page, and what it learns of the next.  *)
LEMMA PageSeen ==
    ASSUME CallInv, at \in {"response", "done"}, method = "ListPosts", asked.pagination # Null,
           NEW answer, answer.ok,
           answer = IF result.ok THEN Ok(SeenValue(method, result.value))
                    ELSE Failed(SeenError(method, result.err))
    PROVE  /\ served.pagination = Page /\ Page \in GoodPages
           /\ All \in Seq(Posts) /\ Len(All) \in 0..MaxInt32
           /\ answer.value.posts = Between(All, Page.Offset + 1, PageEnd(Page, Len(All)))
           /\ answer.value.meta = CalculatePagination(Len(All), Page)
<1>1. asked \in Questions["ListPosts"] /\ method \in DOMAIN ArgsOf
  BY DEF CallInv, Asking
<1>2. result \in Outcomes(method, served) /\ served = Arguments(method, Request(method, asked))
  BY DEF CallInv, Answering, Serving
<1>3. result.ok
  BY DEF Failed
<1>4. result.value = GetAll(served)
  BY <1>2, <1>3 DEF Outcomes, Values, Ok, Failed
<1>5. served = [filter |-> asked.filter, pagination |-> Page]
  BY <1>1, <1>2, ServedIs DEF Page
<1>6. asked.pagination \in Pages
  BY <1>1 DEF Questions
<1>7. Page \in GoodPages /\ Page # Null
  <2>1. Page \in GoodPages
    BY <1>6, CutIs DEF Page
  <2>2. \A p \in GoodPages : p # Null
    BY DEF GoodPages, Null
  <2> QED BY <2>1, <2>2
<1>8. All \in Seq(Posts) /\ Len(All) \in 0..MaxInt32
  BY ListedIs, Bound DEF All
<1> DEFINE part == SubSeq(All, Page.Offset + 1, PageEnd(Page, Len(All)))
<1>9. /\ GetAll(served).posts = part
      /\ GetAll(served).meta = CalculatePagination(Len(All), Page)
      /\ GetAll(served).meta # Null
  BY <1>5, <1>7, GetAllIs DEF All
<1> HIDE DEF part
<1>10. SeenValue(method, GetAll(served)) =
          [posts |-> [i \in DOMAIN part |-> SeenPost(part[i])],
           meta |-> CalculatePagination(Len(All), Page)]
  BY <1>9 DEF SeenValue
<1>11. answer.value = SeenValue(method, GetAll(served))
  BY <1>3, <1>4 DEF Ok
<1>12. [i \in DOMAIN part |-> SeenPost(part[i])]
          = Between(All, Page.Offset + 1, PageEnd(Page, Len(All)))
  <2>1. /\ PageEnd(Page, Len(All)) \in Nat /\ PageEnd(Page, Len(All)) <= Len(All)
        /\ Page.Offset \in Nat
    BY <1>7, <1>8, PageIs
  <2>2. Page.Offset + 1 \in Nat /\ Page.Offset + 1 >= 1
    BY <2>1
  <2> QED BY <1>8, <2>1, <2>2, BetweenIs DEF part
<1> QED BY <1>5, <1>7, <1>8, <1>10, <1>11, <1>12

LEMMA TakeWalk == CallInv /\ CallInv' /\ WalkInv /\ Take => WalkInv'
<1> SUFFICES ASSUME CallInv, CallInv', WalkInv, Take  PROVE WalkInv'
  OBVIOUS
<1>1. /\ at = "response" /\ at' = "done"
      /\ UNCHANGED <<method, asked, served, result>>
      /\ walk' = IF method # "ListPosts" \/ ~got'.ok \/ asked.pagination = Null THEN walk
                 ELSE [from |-> IF walk.from = 0 THEN served.pagination.Offset + 1
                                ELSE walk.from,
                       posts |-> walk.posts \o got'.value.posts]
  BY DEF Take
<1>2. WalkGoesOn'
  BY <1>1 DEF WalkGoesOn
<1>3. CASE method # "ListPosts" \/ ~got'.ok \/ asked.pagination = Null
  <2>1. walk' = walk
    BY <1>1, <1>3
  <2>2. WalkBegins'
    BY <1>1, <2>1 DEF WalkInv, WalkBegins
  <2>3. WalkHasSeen'
    BY <1>1, <1>3 DEF WalkHasSeen
  <2> QED BY <1>2, <2>2, <2>3 DEF WalkInv
<1>4. CASE ~(method # "ListPosts" \/ ~got'.ok \/ asked.pagination = Null)
  <2> DEFINE end == PageEnd(Page, Len(All))
  <2>1. got' = IF result.ok THEN Ok(SeenValue(method, result.value))
               ELSE Failed(SeenError(method, result.err))
    BY <1>1 DEF CallInv, SameAnswer
  <2>2. /\ served.pagination = Page /\ Page \in GoodPages
        /\ All \in Seq(Posts) /\ Len(All) \in 0..MaxInt32
        /\ got'.value.posts = Between(All, Page.Offset + 1, end)
    BY <1>1, <1>4, <2>1, PageSeen
  <2>3. end \in Nat /\ end <= Len(All) /\ Page.Offset \in Nat
    BY <2>2, PageIs
  <2>4. walk' = [from |-> IF walk.from = 0 THEN Page.Offset + 1 ELSE walk.from,
                 posts |-> walk.posts \o Between(All, Page.Offset + 1, end)]
    BY <1>1, <1>4, <2>2
  <2>5. /\ walk'.from >= 1 /\ walk'.from \in Nat /\ walk'.from <= Page.Offset + 1
        /\ walk'.posts = Between(All, walk'.from, end)
    <3>1. CASE walk.from = 0
      <4>1. walk.posts = <<>>
        BY <3>1 DEF WalkInv, WalkBegins
      <4>2. <<>> \o Between(All, Page.Offset + 1, end) = Between(All, Page.Offset + 1, end)
        <5> DEFINE b == Between(All, Page.Offset + 1, end)
                   n == IF Page.Offset <= end THEN end - Page.Offset ELSE 0
        <5>1. n \in Nat /\ Page.Offset + 1 \in Int /\ 1..(end - (Page.Offset + 1) + 1) = 1..n
          BY <2>3
        <5>2. b = [i \in 1..n |-> SeenPost(All[Page.Offset + 1 + i - 1])]
          BY <5>1 DEF Between
        <5> HIDE DEF b, n
        <5>3. b \in Seq({ SeenPost(All[i]) : i \in Int })
          BY <5>1, <5>2, BetweenSeq
        <5>4. <<>> \o b = b
          BY <5>3, ConcatEmptySeq
        <5> QED BY <5>4 DEF b
      <4>3. walk'.from = Page.Offset + 1 /\ walk'.posts = Between(All, Page.Offset + 1, end)
        BY <2>4, <3>1, <4>1, <4>2
      <4>4. Page.Offset + 1 >= 1 /\ Page.Offset + 1 \in Nat
        BY <2>3
      <4> HIDE DEF end
      <4> QED BY <4>3, <4>4
    <3>2. CASE walk.from # 0
      <4>1. walk.from \in Nat /\ walk.from >= 1
        BY <3>2 DEF WalkInv, WalkBegins
      <4>2. /\ walk.from <= Page.Offset /\ Page.Offset < Len(All)
            /\ walk.posts = Between(All, walk.from, Page.Offset)
        BY <1>1, <4>1 DEF WalkInv, WalkGoesOn
      <4>3. Page.Offset <= end
        <5>1. Page.Offset < Page.Page * Page.PageSize /\ Page.Page * Page.PageSize \in Nat
              /\ (Page.Page * Page.PageSize < Len(All) => end = Page.Page * Page.PageSize)
              /\ (Len(All) <= Page.Page * Page.PageSize => end = Len(All))
          BY <2>2, PageIs
        <5> QED BY <2>2, <2>3, <4>2, <5>1
      <4>4. walk.posts \o Between(All, Page.Offset + 1, end) = Between(All, walk.from, end)
        <5>1. walk.from <= Page.Offset + 1
          BY <2>3, <4>1, <4>2
        <5> HIDE DEF end
        <5>2. Between(All, walk.from, Page.Offset) \o Between(All, Page.Offset + 1, end)
                = Between(All, walk.from, end)
          BY <2>3, <4>1, <4>3, <5>1, BetweenJoined
        <5> QED BY <4>2, <5>2
      <4>5. walk'.from = walk.from /\ walk'.posts = Between(All, walk.from, end)
        BY <2>4, <3>2, <4>2, <4>4
      <4>6. walk.from <= Page.Offset + 1
        BY <2>3, <4>1, <4>2
      <4> HIDE DEF end
      <4> QED BY <4>1, <4>5, <4>6
    <3> QED BY <3>1, <3>2
  <2>6. All' = All /\ Page' = Page
    BY <1>1 DEF All, Page
  <2>7. WalkHasSeen'
    BY <2>5, <2>6 DEF WalkHasSeen
  <2>8. WalkBegins'
    BY <1>1, <1>4, <2>5 DEF WalkBegins
  <2> QED BY <1>2, <2>7, <2>8 DEF WalkInv
<1> QED BY <1>3, <1>4

LEMMA NextPageWalk == CallInv /\ WalkInv /\ NextPage => WalkInv'
<1> SUFFICES ASSUME CallInv, WalkInv, NextPage  PROVE WalkInv'
  OBVIOUS
<1>1. /\ at = "done" /\ at' = "request" /\ UNCHANGED <<method, walk>> /\ got.ok
      /\ asked' = [filter |-> asked.filter,
                   pagination |-> PageOf(asked.pagination.Page + 1, asked.pagination.PageSize)]
  BY DEF NextPage
<1>2. /\ method = "ListPosts" /\ asked.pagination \in Pages /\ asked.pagination # Null
      /\ Page \in GoodPages /\ asked.pagination.Page = Page.Page
      /\ Page.Page < MaxInt32 /\ Page.Page * Page.PageSize < Len(All)
  BY NextQuestion DEF Page, All
<1>3. Page.Page \in 1..MaxInt32 /\ Page.PageSize \in 1..MaxInt32 /\ MaxInt32 \in Nat
  BY <1>2, Bound DEF GoodPages
<1>4. All' = All
  BY <1>1 DEF All
<1>5. Page' = PageOf(Page.Page + 1, Page.PageSize)
  <2> DEFINE next == PageOf(Page.Page + 1, asked.pagination.PageSize)
  <2>1. asked.pagination.PageSize \in Int /\ Page.Page + 1 \in Int
    BY <1>2, <1>3 DEF Pages
  <2>2. next \in Pages /\ next.Page = Page.Page + 1
        /\ next.PageSize = asked.pagination.PageSize
    <3>1. ASSUME NEW n \in Int, NEW s \in Int
          PROVE  PageOf(n, s) \in Pages /\ PageOf(n, s).Page = n /\ PageOf(n, s).PageSize = s
      BY DEF PageOf, Pages
    <3> QED BY <2>1, <3>1
  <2>3. asked'.pagination = next
    BY <1>1, <1>2
  <2> HIDE DEF next
  <2>4. Page.PageSize = IF Int32(asked.pagination.PageSize) < 1 THEN 20
                        ELSE Int32(asked.pagination.PageSize)
    BY <1>2, CutIs DEF Page, PageOf
  <2>5. Int32(Page.Page + 1) = Page.Page + 1 /\ ~(Page.Page + 1 < 1)
    BY <1>2, <1>3, Int32Same
  <2>6. Cut(next) = PageOf(Page.Page + 1, Page.PageSize)
    BY <2>2, <2>4, <2>5, CutIs
  <2> QED BY <2>3, <2>6 DEF Page
<1>6. Page'.Offset = Page.Page * Page.PageSize
  <2>1. ASSUME NEW n, NEW s  PROVE PageOf(n, s).Offset = (n - 1) * s
    BY DEF PageOf
  <2> DEFINE n == Page.Page + 1
  <2>2. n - 1 = Page.Page
    BY <1>3
  <2>3. Page' = PageOf(n, Page.PageSize)
    BY <1>5
  <2> HIDE DEF n, Page
  <2>4. PageOf(n, Page.PageSize).Offset = (n - 1) * Page.PageSize
    BY <2>1
  <2> QED BY <2>2, <2>3, <2>4
<1>7. /\ walk.from >= 1 /\ walk.from \in Nat /\ walk.from <= Page.Offset + 1
      /\ walk.posts = Between(All, walk.from, PageEnd(Page, Len(All)))
  BY <1>1, <1>2 DEF WalkInv, WalkHasSeen, WalkBegins
<1>8. /\ PageEnd(Page, Len(All)) = Page.Page * Page.PageSize
      /\ Page.Offset < Page.Page * Page.PageSize /\ Page.Offset \in Nat
      /\ Page.Page * Page.PageSize \in Nat
  <2>1. All \in Seq(Posts)
    BY ListedIs DEF All
  <2> QED BY <1>2, <2>1, PageIs
<1>9. WalkGoesOn'
  <2>1. walk.from <= Page.Page * Page.PageSize
    BY <1>7, <1>8
  <2>2. walk' = walk
    BY <1>1
  <2> QED BY <1>2, <1>4, <1>6, <1>7, <1>8, <2>1, <2>2 DEF WalkGoesOn
<1>10. WalkBegins'
  <2>1. asked'.pagination # Null
    BY <1>1 DEF PageOf, Null
  <2> QED BY <1>1, <1>2, <1>7, <2>1 DEF WalkBegins
<1>11. WalkHasSeen'
  BY <1>1 DEF WalkHasSeen
<1> QED BY <1>9, <1>10, <1>11 DEF WalkInv

LEMMA NextWalk == CallInv /\ CallInv' /\ WalkInv /\ [Next]_vars => WalkInv'
<1> SUFFICES ASSUME CallInv, CallInv', WalkInv, [Next]_vars  PROVE WalkInv'
  OBVIOUS
<1> USE DEF WalkInv, WalkBegins, WalkGoesOn, WalkHasSeen, All, Page
<1>1. CASE Receive
  BY <1>1 DEF Receive
<1>2. CASE Serve
  BY <1>2 DEF Serve
<1>3. CASE Take
  BY <1>3, TakeWalk
<1>4. CASE Break
  BY <1>4 DEF Break
<1>5. CASE NextPage
  BY <1>5, NextPageWalk
<1>6. CASE UNCHANGED vars
  BY <1>6 DEF vars
<1> QED BY <1>1, <1>2, <1>3, <1>4, <1>5, <1>6 DEF Next

LEMMA WalkInvariant == Spec => [](CallInv /\ WalkInv)
<1>1. Init => CallInv /\ WalkInv
  BY InitCall, InitWalk
<1>2. CallInv /\ WalkInv /\ [Next]_vars => (CallInv /\ WalkInv)'
  BY NextCall, NextWalk
<1> QED BY <1>1, <1>2, PTL DEF Spec

(* Who turns the pages of a list until there is no next one has seen every *)
(* post from the first of them on, once and in order: WalkIsComplete, for  *)
(* every list, every filter and every size of the pages.                   *)
THEOREM WalkSeesAll == Spec => []WalkIsComplete
<1>1. ASSUME CallInv, WalkInv  PROVE WalkIsComplete
  <2>1. SUFFICES ASSUME at = "done", walk.from > 0, got.ok, ~got.value.meta.HasNext
                 PROVE  LET passed == SubSeq(All, walk.from, Len(All)) IN
                        walk.posts = [i \in DOMAIN passed |-> SeenPost(passed[i])]
    BY DEF WalkIsComplete, All
  <2>2. method = "ListPosts" /\ asked.pagination # Null
    BY <1>1, <2>1 DEF WalkInv, WalkBegins
  <2>3. got = IF result.ok THEN Ok(SeenValue(method, result.value))
              ELSE Failed(SeenError(method, result.err))
    BY <1>1, <2>1 DEF CallInv, SameAnswer
  <2>4. /\ Page \in GoodPages /\ All \in Seq(Posts) /\ Len(All) \in 0..MaxInt32
        /\ got.value.meta = CalculatePagination(Len(All), Page)
    BY <1>1, <2>1, <2>2, <2>3, PageSeen
  <2>5. Len(All) <= Page.Page * Page.PageSize
    BY <2>1, <2>4, PaginationIs
  <2>6. PageEnd(Page, Len(All)) = Len(All)
    BY <2>4, <2>5, PageIs
  <2>7. walk.from \in Nat /\ walk.from >= 1 /\ walk.posts = Between(All, walk.from, Len(All))
    BY <1>1, <2>1, <2>2, <2>6 DEF WalkInv, WalkBegins, WalkHasSeen
  <2>8. Len(All) \in Nat
    BY <2>4
  <2> DEFINE passed == SubSeq(All, walk.from, Len(All))
  <2>9. Between(All, walk.from, Len(All)) = [i \in DOMAIN passed |-> SeenPost(passed[i])]
    <3>1. \A all \in Seq(Posts), from \in Nat, to \in Nat : from >= 1 /\ to <= Len(all) =>
            Between(all, from, to)
              = [i \in DOMAIN SubSeq(all, from, to) |-> SeenPost(SubSeq(all, from, to)[i])]
      BY BetweenIs
    <3>2. Len(All) <= Len(All)
      BY <2>8
    <3> HIDE DEF All
    <3> QED BY <2>4, <2>7, <2>8, <3>1, <3>2
  <2> QED BY <2>7, <2>9
<1> QED BY <1>1, WalkInvariant, PTL

=============================================================================
