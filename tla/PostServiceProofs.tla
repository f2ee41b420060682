------------------------- MODULE PostServiceProofs -------------------------
(***************************************************************************)
(* Type correctness of PostService, and the attribution of every stale     *)
(* cache entry (StaleHasCause), for every number of workers, replicas,     *)
(* caches, posts and contents, and for every choice of faults.             *)
(***************************************************************************)
EXTENDS PostService, SequenceTheorems, WellFoundedInduction, TLAPS

(* A bounded, inhabited set of naturals has a maximum: the largest id of a *)
(* list exists.                                                            *)
LEMMA MaxOfBounded ==
    ASSUME NEW S \in SUBSET Nat, S # {}, NEW b \in Nat, \A x \in S : x <= b
    PROVE  Max(S) \in S /\ \A x \in S : x <= Max(S)
<1> DEFINE U == {n \in Nat : \A x \in S : x <= n}
<1>1. PICK m \in U : \A n \in U : ~(<<n, m>> \in OpToRel(<, Nat))
  <2>1. b \in U
    OBVIOUS
  <2> QED
    BY <2>1, NatLessThanWellFounded, WFMin
<1>2. \A n \in U : m <= n
  <2> SUFFICES ASSUME NEW n \in U, n < m PROVE FALSE
    OBVIOUS
  <2>1. <<n, m>> \in {p \in Nat \X Nat : p[1] < p[2]}
    OBVIOUS
  <2> QED
    BY <1>1, <2>1 DEF OpToRel
<1>3. m \in S
  <2> SUFFICES ASSUME m \notin S PROVE FALSE
    OBVIOUS
  <2>1. \A x \in S : x < m
    OBVIOUS
  <2>2. m - 1 \in Nat
    <3>1. PICK x \in S : x < m
      BY <2>1
    <3> QED
      BY <3>1
  <2>3. \A x \in S : x <= m - 1
    BY <2>1
  <2> QED
    BY <2>2, <2>3, <1>2
<1>4. \A x \in S : m >= x
  OBVIOUS
<1> QED
  BY <1>3, <1>4 DEF Max

(* What the local variables of a worker hold at each step of its request.  *)
LocalOK(w) ==
    /\ pc[w] \in {"get", "load", "fill"} => Reads(req[w])
    /\ pc[w] = "fill" => held[w] \in EntryType(KeyOf(req[w])) \ {NoEntry}
    /\ pc[w] = "create" => Creates(req[w]) /\ todo[w] # <<>>
    /\ pc[w] \in {"fetch", "write"} => req[w].op = "Update"
    /\ pc[w] = "write" => held[w] \in Posts
    /\ pc[w] = "delete" => req[w].op = "Delete"
    /\ pc[w] = "drop_all" =>
          \/ Creates(req[w]) /\ todo[w] # <<>>
          \/ req[w].op \in {"Update", "Delete"}
    /\ pc[w] = "drop_post" => req[w].op \in {"Update", "Delete"}

LocalsOK == \A w \in Workers : LocalOK(w)

(* With ids from a sequence, nothing is known of an id not yet handed out. *)
NothingAhead ==
    Serial =>
        \A i \in Ids : i > lastId =>
            /\ store[i] = Absent
            /\ \A c \in Caches : cache[c][i] = NoEntry
            /\ \A w \in Workers : pc[w] = "fill" => KeyOf(req[w]) # i

IInv == TypeOK /\ LocalsOK /\ NothingAhead /\ StaleHasCause

-----------------------------------------------------------------------------
(* What a request is made of, by operation.                                *)
LEMMA RequestFields ==
    ASSUME NEW r \in Requests
    PROVE  /\ r.op \in {"GetAll", "GetByID", "Delete", "Create", "BulkCreate", "Update"}
           /\ r.op \in {"GetByID", "Delete", "Update"} => r.id \in Ids
           /\ r.op = "Update" => r.draft \in Drafts
           /\ Creates(r) => r.items \in Seq(Drafts) /\ r.items # <<>>
           /\ KeyOf(r) \in Keys
           /\ r # NoRequest
<1>1. CASE r \in [op : {"GetAll"}]
  BY <1>1 DEF Creates, KeyOf, Keys, NoRequest
<1>2. CASE r \in [op : {"GetByID", "Delete"}, id : Ids]
  BY <1>2 DEF Creates, KeyOf, Keys, NoRequest
<1>3. CASE r \in [op : {"Create"}, items : [1 .. 1 -> Drafts]]
  <2>1. r.op = "Create" /\ r.items \in [1 .. 1 -> Drafts]
    BY <1>3
  <2>2. PICK n \in Nat \ {0} : r.items \in [1 .. n -> Drafts]
    <3>1. 1 \in Nat \ {0} /\ r.items \in [1 .. 1 -> Drafts]
      BY <2>1
    <3> QED
      BY <3>1
  <2>3. r.items \in Seq(Drafts) /\ r.items # <<>>
    BY <2>2, SeqDef
  <2> QED
    BY <2>1, <2>3 DEF Creates, KeyOf, Keys, NoRequest
<1>4. CASE r \in [op : {"BulkCreate"}, items : BulkItems]
  <2>1. r.op = "BulkCreate" /\ r.items \in BulkItems
    BY <1>4
  <2>2. PICK n \in 1 .. MaxBulk : r.items \in [1 .. n -> Drafts]
    BY <2>1 DEF BulkItems
  <2>3. n \in Nat /\ n # 0
    BY PostServiceAssumption
  <2>4. r.items \in Seq(Drafts) /\ r.items # <<>>
    BY <2>2, <2>3, SeqDef
  <2> QED
    BY <2>1, <2>4 DEF Creates, KeyOf, Keys, NoRequest
<1>5. CASE r \in [op : {"Update"}, id : Ids, draft : Drafts]
  BY <1>5 DEF Creates, KeyOf, Keys, NoRequest
<1> QED
  BY <1>1, <1>2, <1>3, <1>4, <1>5 DEF Requests

(* The largest of the live ids and 0 exists, so that NewId is an id when   *)
(* it is within the bound.                                                 *)
LEMMA NewIdType ==
    ASSUME TypeOK
    PROVE  NewId \in Nat /\ NewId > 0
<1> DEFINE S == LiveIds \cup {0}
<1>1. S \in SUBSET Nat /\ S # {} /\ \A x \in S : x <= MaxId
  BY PostServiceAssumption DEF LiveIds, Ids
<1>2. Max(S) \in Nat
  <2> HIDE DEF S
  <2> QED
    BY <1>1, PostServiceAssumption, MaxOfBounded
<1> QED
  BY <1>2, PostServiceAssumption DEF NewId, TypeOK

-----------------------------------------------------------------------------
(* Types.  Each lemma takes one group of actions.                          *)

TypeInv == TypeOK /\ LocalsOK

LEMMA TypeInit == Init => TypeInv
  BY PostServiceAssumption
  DEF Init, TypeInv, TypeOK, LocalsOK, LocalOK, EntryType, PCs, Results, NoRequest

(* A worker whose variables do not change keeps its part of LocalsOK, and  *)
(* one that has finished has no part in it.                                *)
LEMMA OtherLocals ==
    ASSUME LocalsOK, NEW v \in Workers,
           pc'[v] = pc[v], req'[v] = req[v], held'[v] = held[v], todo'[v] = todo[v]
    PROVE  LocalOK(v)'
  BY DEF LocalsOK, LocalOK, EntryType

LEMMA FinishedLocals ==
    ASSUME TypeInv, NEW w \in Workers, NEW status, Finish(w, status),
           status \in Results,
           \A v \in Workers \ {w} : /\ req'[v] = req[v] /\ held'[v] = held[v]
                                    /\ todo'[v] = todo[v]
    PROVE  /\ LocalsOK'
           /\ pc' \in [Workers -> PCs]
           /\ result' \in [Workers -> Results]
<1>1. pc' \in [Workers -> PCs] /\ result' \in [Workers -> Results]
  BY DEF TypeInv, TypeOK, Finish, GoTo, PCs
<1>2. \A v \in Workers \ {w} : LocalOK(v)'
  BY OtherLocals DEF TypeInv, TypeOK, Finish, GoTo
<1>3. LocalOK(w)'
  BY DEF TypeInv, TypeOK, Finish, GoTo, LocalOK
<1> QED
  BY <1>1, <1>2, <1>3 DEF LocalsOK

LEMMA GoOnLocals ==
    ASSUME TypeInv, NEW w \in Workers, NEW label \in PCs, GoTo(w, label),
           \A v \in Workers \ {w} : /\ req'[v] = req[v] /\ held'[v] = held[v]
                                    /\ todo'[v] = todo[v],
           LocalOK(w)'
    PROVE  LocalsOK' /\ pc' \in [Workers -> PCs]
<1>1. \A v \in Workers \ {w} : LocalOK(v)'
  BY OtherLocals DEF TypeInv, TypeOK, GoTo
<1> QED
  BY <1>1 DEF TypeInv, TypeOK, LocalsOK, GoTo

LEMMA TypeStart ==
    ASSUME TypeInv, NEW w \in Workers, Start(w)
    PROVE  TypeInv'
<1>1. PICK r \in Requests :
          /\ req' = [req EXCEPT ![w] = r]
          /\ todo' = [todo EXCEPT ![w] = IF Creates(r) THEN r.items ELSE <<>>]
          /\ GoTo(w, FirstStep(r))
  BY DEF Start
<1>2. UNCHANGED <<store, lastId, cache, held, made, failed, result, excused>>
  BY DEF Start, db
<1>3. FirstStep(r) \in PCs
  BY RequestFields DEF FirstStep, PCs, Reads, Creates
<1>4. LocalOK(w)'
  BY <1>1, <1>2, RequestFields
  DEF TypeInv, LocalOK, TypeOK, GoTo, FirstStep, Reads, Creates
<1>5. LocalsOK' /\ pc' \in [Workers -> PCs]
  BY <1>1, <1>2, <1>3, <1>4, GoOnLocals DEF TypeInv, TypeOK
<1>6. todo' \in [Workers -> Seq(Drafts)]
  BY <1>1, RequestFields DEF TypeInv, TypeOK
<1> QED
  BY <1>1, <1>2, <1>5, <1>6 DEF TypeInv, TypeOK

LEMMA CacheOfType ==
    ASSUME NEW w \in Workers
    PROVE  CacheOf(w) \in Caches
  BY PostServiceAssumption DEF CacheOf, Caches

LEMMA TypeRead ==
    ASSUME TypeInv, NEW w \in Workers, Read(w)
    PROVE  TypeInv'
<1> DEFINE k == KeyOf(req[w])
           found == View(store, k)
<1>1. req[w] \in Requests /\ k \in Keys
  <2>1. Reads(req[w])
    BY DEF Read, CacheHit, CacheMiss, Load, Fill, FillFails, TypeInv, LocalsOK, LocalOK
  <2>2. req[w] \in Requests
    BY <2>1 DEF TypeInv, TypeOK, Reads, NoRequest
  <2> QED
    BY <2>2, RequestFields
<1>2. CASE CacheHit(w) \/ FillFails(w)
  <2>1. Finish(w, "ok") /\ UNCHANGED <<db, cache, local, excused>>
    BY <1>2 DEF CacheHit, FillFails
  <2>2. LocalsOK' /\ pc' \in [Workers -> PCs] /\ result' \in [Workers -> Results]
    BY <2>1, FinishedLocals DEF local, Results
  <2> QED
    BY <2>1, <2>2 DEF TypeInv, TypeOK, local, db
<1>3. CASE CacheMiss(w)
  <2>1. GoTo(w, "load") /\ UNCHANGED <<db, cache, local, result, excused>> /\ pc[w] = "get"
    BY <1>3 DEF CacheMiss
  <2>2. LocalOK(w)'
    BY <2>1 DEF LocalOK, LocalsOK, TypeInv, TypeOK, GoTo, local
  <2>3. LocalsOK' /\ pc' \in [Workers -> PCs]
    BY <2>1, <2>2, GoOnLocals DEF local, PCs
  <2> QED
    BY <2>1, <2>3 DEF TypeInv, TypeOK, local, db
<1>4. CASE Load(w) /\ found = Absent
  <2>1. Finish(w, "notfound") /\ UNCHANGED <<db, cache, local, excused>>
    BY <1>4 DEF Load, local
  <2>2. LocalsOK' /\ pc' \in [Workers -> PCs] /\ result' \in [Workers -> Results]
    BY <2>1, FinishedLocals DEF local, Results
  <2> QED
    BY <2>1, <2>2 DEF TypeInv, TypeOK, local, db
<1>5. CASE Load(w) /\ found # Absent
  <2>1. /\ GoTo(w, "fill") /\ held' = [held EXCEPT ![w] = found] /\ pc[w] = "load"
        /\ UNCHANGED <<db, cache, req, todo, made, failed, result, excused>>
    BY <1>5 DEF Load
  <2>2. found \in EntryType(k) \ {NoEntry}
    BY <1>1, <1>5, PostServiceAssumption
    DEF View, EntryType, TypeInv, TypeOK, Stores, Keys, Values
  <2>3. LocalOK(w)'
    BY <2>1, <2>2 DEF LocalOK, LocalsOK, TypeInv, TypeOK, GoTo, EntryType
  <2>4. LocalsOK' /\ pc' \in [Workers -> PCs]
    BY <2>1, <2>3, GoOnLocals DEF PCs, TypeInv, TypeOK
  <2> QED
    BY <2>1, <2>4 DEF TypeInv, TypeOK, db
<1>6. CASE Fill(w)
  <2>1. /\ Finish(w, "ok") /\ pc[w] = "fill" /\ UNCHANGED <<db, local>>
        /\ cache' = [cache EXCEPT ![CacheOf(w)][k] = held[w]]
        /\ excused' \in {excused \ {<<CacheOf(w), k>>}, excused \cup {<<CacheOf(w), k>>}}
    BY <1>6 DEF Fill
  <2>2. LocalsOK' /\ pc' \in [Workers -> PCs] /\ result' \in [Workers -> Results]
    BY <2>1, FinishedLocals DEF local, Results
  <2>3. held[w] \in EntryType(k)
    BY <2>1 DEF LocalOK, LocalsOK, TypeInv
  <2>4. \A c \in Caches, j \in Keys :
           cache'[c][j] = IF c = CacheOf(w) /\ j = k THEN held[w] ELSE cache[c][j]
    BY <2>1 DEF TypeInv, TypeOK
  <2>5. cache' = [c \in Caches |-> [j \in Keys |-> cache'[c][j]]]
    BY <2>1 DEF TypeInv, TypeOK
  <2>6. \A c \in Caches, j \in Keys : cache'[c][j] \in EntryType(j)
    BY <2>3, <2>4 DEF TypeInv, TypeOK
  <2>7. excused' \subseteq Caches \X Keys
    BY <1>1, <2>1, CacheOfType DEF TypeInv, TypeOK
  <2> QED
    BY <2>1, <2>2, <2>5, <2>6, <2>7 DEF TypeInv, TypeOK, EntryType, local, db
<1> QED
  BY <1>2, <1>3, <1>4, <1>5, <1>6 DEF Read, Load

LEMMA TypeReturn ==
    ASSUME TypeInv, NEW w \in Workers, Return(w) \/ StorageFails(w)
    PROVE  TypeInv'
<1>1. CASE Return(w)
  BY <1>1 DEF Return, Forget, TypeInv, TypeOK, LocalsOK, LocalOK, EntryType, PCs, Results, db
<1>2. CASE StorageFails(w)
  <2>1. Finish(w, "internal") /\ UNCHANGED <<db, cache, local, excused>>
    BY <1>2 DEF StorageFails
  <2>2. LocalsOK' /\ pc' \in [Workers -> PCs] /\ result' \in [Workers -> Results]
    BY <2>1, FinishedLocals DEF local, Results
  <2> QED
    BY <2>1, <2>2 DEF TypeInv, TypeOK, local, db
<1> QED
  BY <1>1, <1>2

LEMMA TailInhabited ==
    ASSUME NEW S, NEW s \in Seq(S), Len(s) > 1
    PROVE  Tail(s) # <<>>
<1>1. s # <<>>
  BY EmptySeq
<1>2. PICK n \in Nat : n = Len(Tail(s)) /\ n # 0
  BY <1>1, HeadTailProperties, LenProperties
<1>3. Len(<<>>) = 0
  BY EmptySeq
<1> QED
  BY <1>2, <1>3, Zenon

LEMMA TypeNextDraft ==
    ASSUME TypeInv, NEW w \in Workers, NEW status \in Results, NextDraft(w, status),
           Creates(req[w]), todo[w] # <<>>
    PROVE  /\ LocalsOK'
           /\ pc' \in [Workers -> PCs]
           /\ result' \in [Workers -> Results]
           /\ todo' \in [Workers -> Seq(Drafts)]
           /\ UNCHANGED <<req, held>>
<1>1. /\ todo' = [todo EXCEPT ![w] = Tail(todo[w])]
      /\ UNCHANGED <<req, held>>
      /\ todo[w] \in Seq(Drafts)
  BY DEF NextDraft, TypeInv, TypeOK
<1>2. todo' \in [Workers -> Seq(Drafts)]
  BY <1>1 DEF TypeInv, TypeOK
<1>3. \A v \in Workers \ {w} : req'[v] = req[v] /\ held'[v] = held[v] /\ todo'[v] = todo[v]
  BY <1>1 DEF TypeInv, TypeOK
<1>4. CASE Len(todo[w]) > 1
  <2>1. GoTo(w, "create") /\ UNCHANGED result
    BY <1>4 DEF NextDraft
  <2>2. Tail(todo[w]) # <<>>
    BY <1>1, <1>4, TailInhabited
  <2>3. LocalOK(w)'
    BY <1>1, <2>1, <2>2 DEF LocalOK, GoTo, TypeInv, TypeOK
  <2>4. LocalsOK' /\ pc' \in [Workers -> PCs]
    BY <1>3, <2>1, <2>3, GoOnLocals DEF PCs
  <2> QED
    BY <1>1, <1>2, <2>1, <2>4 DEF TypeInv, TypeOK
<1>5. CASE ~(Len(todo[w]) > 1)
  <2>1. PICK end \in {"ok", status} : Finish(w, end)
    BY <1>5 DEF NextDraft
  <2>2. LocalsOK' /\ pc' \in [Workers -> PCs] /\ result' \in [Workers -> Results]
    BY <1>3, <2>1, FinishedLocals DEF Results
  <2> QED
    BY <1>1, <1>2, <2>2
<1> QED
  BY <1>4, <1>5

LEMMA TypeStoreInsert ==
    ASSUME TypeInv, NEW d \in Posts, StoreInsert(d)
    PROVE  store' \in Stores /\ lastId' \in 0 .. MaxId /\ NewId \in Ids
  BY NewIdType, PostServiceAssumption DEF StoreInsert, TypeInv, TypeOK, Stores, Ids

LEMMA TypeExcused ==
    ASSUME TypeInv, NEW w \in Workers, NEW S, excused' \subseteq excused \cup Stored(S),
           S \subseteq Caches \X Keys
    PROVE  excused' \subseteq Caches \X Keys
  BY DEF Stored, TypeInv, TypeOK

LEMMA TypeCreate ==
    ASSUME TypeInv, NEW w \in Workers, Create(w)
    PROVE  TypeInv'
<1> DEFINE d == Head(todo[w])
<1>1. pc[w] = "create" /\ Creates(req[w]) /\ todo[w] # <<>> /\ req[w] \in Requests
  <2>1. pc[w] = "create"
    BY DEF Create, RefuseDraft, InsertFails, Insert, InsertAnswerLost
  <2> QED
    BY <2>1 DEF TypeInv, TypeOK, LocalsOK, LocalOK, Creates, NoRequest
<1>2. \A status \in Results :
         DraftFails(w, status) =>
            /\ LocalsOK' /\ pc' \in [Workers -> PCs] /\ result' \in [Workers -> Results]
            /\ todo' \in [Workers -> Seq(Drafts)]
            /\ failed' \in [Workers -> Nat]
            /\ UNCHANGED <<req, held, cache, made>>
  BY <1>1, TypeNextDraft DEF DraftFails, TypeInv, TypeOK
<1>3. CASE RefuseDraft(w) \/ InsertFails(w)
  <2>1. PICK status \in {"invalid", "internal"} : DraftFails(w, status)
    BY <1>3 DEF RefuseDraft, InsertFails
  <2>2. UNCHANGED <<db, excused>>
    BY <1>3 DEF RefuseDraft, InsertFails
  <2> QED
    BY <1>2, <2>1, <2>2 DEF TypeInv, TypeOK, EntryType, Results, db
<1>4. CASE Insert(w)
  <2>1. /\ d \in Posts /\ StoreInsert(d) /\ GoTo(w, "drop_all")
        /\ made' = [made EXCEPT ![w] = Append(made[w], NewId)]
        /\ UNCHANGED <<cache, req, held, todo, failed, result>>
    BY <1>4 DEF Insert
  <2>2. store' \in Stores /\ lastId' \in 0 .. MaxId /\ NewId \in Ids
    BY <2>1, TypeStoreInsert
  <2>3. made' \in [Workers -> Seq(Ids)]
    BY <2>1, <2>2 DEF TypeInv, TypeOK
  <2>4. excused' \subseteq excused \cup Stored(Caches \X Keys)
    BY <1>4, <2>2 DEF Insert, OutOfReach, LeftOver, Stored, Keys
  <2>5. excused' \subseteq Caches \X Keys
    BY <2>4, TypeExcused
  <2>6. LocalOK(w)'
    BY <1>1, <2>1 DEF LocalOK, GoTo, TypeInv, TypeOK
  <2>7. LocalsOK' /\ pc' \in [Workers -> PCs]
    BY <2>1, <2>6, GoOnLocals DEF PCs
  <2> QED
    BY <2>1, <2>2, <2>3, <2>5, <2>7 DEF TypeInv, TypeOK, EntryType
<1>5. CASE InsertAnswerLost(w)
  <2>1. d \in Posts /\ StoreInsert(d) /\ DraftFails(w, "internal")
    BY <1>5 DEF InsertAnswerLost
  <2>2. store' \in Stores /\ lastId' \in 0 .. MaxId /\ NewId \in Ids
    BY <2>1, TypeStoreInsert
  <2>3. excused' \subseteq excused \cup Stored(Caches \X Keys)
    BY <1>5, <2>2 DEF InsertAnswerLost, LeftOver, Stored, Keys
  <2>4. excused' \subseteq Caches \X Keys
    BY <2>3, TypeExcused
  <2> QED
    BY <1>2, <2>1, <2>2, <2>4 DEF TypeInv, TypeOK, EntryType, Results
<1> QED
  BY <1>3, <1>4, <1>5 DEF Create

LEMMA TypeStorePut ==
    ASSUME TypeInv, NEW i \in Ids, NEW p \in Posts \cup {Absent}, StorePut(i, p)
    PROVE  store' \in Stores /\ lastId' \in 0 .. MaxId
  BY DEF StorePut, TypeInv, TypeOK, Stores

LEMMA TypeUpdate ==
    ASSUME TypeInv, NEW w \in Workers, Update(w)
    PROVE  TypeInv'
<1> DEFINE i == req[w].id
<1>1. req[w].op = "Update" /\ req[w] \in Requests /\ i \in Ids
  <2>1. req[w].op = "Update"
    BY DEF Update, Fetch, OverwriteFails, Overwrite, TypeInv, LocalsOK, LocalOK
  <2> QED
    BY <2>1, RequestFields DEF TypeInv, TypeOK, NoRequest
<1>2. CASE Fetch(w) /\ store[i] = Absent
  <2>1. Finish(w, "notfound") /\ UNCHANGED <<db, cache, local, excused>>
    BY <1>2 DEF Fetch, local
  <2>2. LocalsOK' /\ pc' \in [Workers -> PCs] /\ result' \in [Workers -> Results]
    BY <2>1, FinishedLocals DEF local, Results
  <2> QED
    BY <2>1, <2>2 DEF TypeInv, TypeOK, EntryType, local, db
<1>3. CASE Fetch(w) /\ store[i] # Absent
  <2>1. /\ GoTo(w, "write") /\ held' = [held EXCEPT ![w] = store[i]]
        /\ UNCHANGED <<db, cache, req, todo, made, failed, result, excused>>
    BY <1>3 DEF Fetch
  <2>2. store[i] \in Posts
    BY <1>1, <1>3 DEF TypeInv, TypeOK, Stores
  <2>3. LocalOK(w)'
    BY <1>1, <2>1, <2>2 DEF LocalOK, TypeInv, TypeOK, GoTo
  <2>4. LocalsOK' /\ pc' \in [Workers -> PCs]
    BY <2>1, <2>3, GoOnLocals DEF PCs, TypeInv, TypeOK
  <2> QED
    BY <2>1, <2>4 DEF TypeInv, TypeOK, EntryType, db
<1>4. CASE OverwriteFails(w)
  <2>1. PICK status \in {"invalid", "internal"} :
           Finish(w, status) /\ UNCHANGED <<db, cache, local, excused>>
    BY <1>4 DEF OverwriteFails
  <2>2. LocalsOK' /\ pc' \in [Workers -> PCs] /\ result' \in [Workers -> Results]
    BY <2>1, FinishedLocals DEF local, Results
  <2> QED
    BY <2>1, <2>2 DEF TypeInv, TypeOK, EntryType, local, db
<1>5. CASE Overwrite(w)
  <2>1. /\ Merged(w) \in Posts /\ StorePut(i, Merged(w)) /\ GoTo(w, "drop_all")
        /\ excused' = excused \cup OutOfReach(w, {All, i})
        /\ UNCHANGED <<cache, local, result>>
    BY <1>5 DEF Overwrite
  <2>2. store' \in Stores /\ lastId' \in 0 .. MaxId
    BY <1>1, <2>1, TypeStorePut
  <2>3. excused' \subseteq Caches \X Keys
    BY <1>1, <2>1, TypeExcused DEF OutOfReach, Stored, Keys
  <2>4. LocalOK(w)'
    BY <1>1, <2>1 DEF LocalOK, TypeInv, TypeOK, GoTo, local
  <2>5. LocalsOK' /\ pc' \in [Workers -> PCs]
    BY <2>1, <2>4, GoOnLocals DEF PCs, local
  <2> QED
    BY <2>1, <2>2, <2>3, <2>5 DEF TypeInv, TypeOK, EntryType, local
<1> QED
  BY <1>2, <1>3, <1>4, <1>5 DEF Update

LEMMA TypeDelete ==
    ASSUME TypeInv, NEW w \in Workers, Delete(w)
    PROVE  TypeInv'
<1> DEFINE i == req[w].id
<1>1. req[w].op = "Delete" /\ i \in Ids
  <2>1. req[w].op = "Delete"
    BY DEF Delete, Remove, RemoveFails, TypeInv, LocalsOK, LocalOK
  <2> QED
    BY <2>1, RequestFields DEF TypeInv, TypeOK, NoRequest
<1>2. CASE RemoveFails(w)
  <2>1. Finish(w, "notfound") /\ UNCHANGED <<db, cache, local, excused>>
    BY <1>2 DEF RemoveFails
  <2>2. LocalsOK' /\ pc' \in [Workers -> PCs] /\ result' \in [Workers -> Results]
    BY <2>1, FinishedLocals DEF local, Results
  <2> QED
    BY <2>1, <2>2 DEF TypeInv, TypeOK, EntryType, local, db
<1>3. CASE Remove(w)
  <2>1. /\ StorePut(i, Absent) /\ GoTo(w, "drop_all")
        /\ excused' = excused \cup OutOfReach(w, {All, i})
        /\ UNCHANGED <<cache, local, result>>
    BY <1>3 DEF Remove
  <2>2. store' \in Stores /\ lastId' \in 0 .. MaxId
    BY <1>1, <2>1, TypeStorePut
  <2>3. excused' \subseteq Caches \X Keys
    BY <1>1, <2>1, TypeExcused DEF OutOfReach, Stored, Keys
  <2>4. LocalOK(w)'
    BY <1>1, <2>1 DEF LocalOK, TypeInv, TypeOK, GoTo, local
  <2>5. LocalsOK' /\ pc' \in [Workers -> PCs]
    BY <2>1, <2>4, GoOnLocals DEF PCs, local
  <2> QED
    BY <2>1, <2>2, <2>3, <2>5 DEF TypeInv, TypeOK, EntryType, local
<1> QED
  BY <1>2, <1>3 DEF Delete

LEMMA TypeChangeAnswerLost ==
    ASSUME TypeInv, NEW w \in Workers, ChangeAnswerLost(w)
    PROVE  TypeInv'
<1> DEFINE i == req[w].id
<1>1. i \in Ids
  <2>1. req[w].op \in {"Update", "Delete"}
    BY DEF ChangeAnswerLost, TypeInv, LocalsOK, LocalOK
  <2> QED
    BY <2>1, RequestFields DEF TypeInv, TypeOK, NoRequest
<1>2. PICK p \in Posts \cup {Absent} : StorePut(i, p)
  BY DEF ChangeAnswerLost
<1>3. store' \in Stores /\ lastId' \in 0 .. MaxId
  BY <1>1, <1>2, TypeStorePut
<1>4. /\ Finish(w, "internal") /\ UNCHANGED <<cache, local>>
      /\ excused' = excused \cup Stored(Caches \X {All, i})
  BY DEF ChangeAnswerLost
<1>5. excused' \subseteq Caches \X Keys
  BY <1>1, <1>4, TypeExcused DEF Keys, Stored
<1>6. LocalsOK' /\ pc' \in [Workers -> PCs] /\ result' \in [Workers -> Results]
  BY <1>4, FinishedLocals DEF local, Results
<1> QED
  BY <1>3, <1>4, <1>5, <1>6 DEF TypeInv, TypeOK, EntryType, local

(* Dropping entries of one cache.                                          *)
LEMMA DroppedType ==
    ASSUME TypeInv, NEW c \in Caches, NEW ks, cache' = Dropped(c, ks)
    PROVE  /\ cache' = [d \in Caches |-> [k \in Keys |-> cache'[d][k]]]
           /\ \A d \in Caches, k \in Keys :
                 cache'[d][k] = IF d = c /\ k \in ks THEN NoEntry ELSE cache[d][k]
           /\ \A d \in Caches, k \in Keys : cache'[d][k] \in EntryType(k)
<1>1. /\ cache' = [d \in Caches |-> [k \in Keys |-> cache'[d][k]]]
      /\ \A d \in Caches, k \in Keys :
            cache'[d][k] = IF d = c /\ k \in ks THEN NoEntry ELSE cache[d][k]
  BY DEF Dropped, TypeInv, TypeOK
<1>2. \A k \in Keys : NoEntry \in EntryType(k)
  BY DEF EntryType
<1> QED
  BY <1>1, <1>2 DEF TypeInv, TypeOK

LEMMA DropType ==
    ASSUME TypeInv, NEW w \in Workers, NEW k \in Keys, Drop(w, k)
    PROVE  /\ cache' = [d \in Caches |-> [j \in Keys |-> cache'[d][j]]]
           /\ \A d \in Caches, j \in Keys : cache'[d][j] \in EntryType(j)
           /\ excused' \subseteq Caches \X Keys
<1> DEFINE c == CacheOf(w)
<1>0. c \in Caches
  BY CacheOfType
<1>1. CASE cache' = Dropped(c, {k}) /\ excused' = excused \ {<<c, k>>}
  BY <1>0, <1>1, DroppedType DEF TypeInv, TypeOK
<1>2. CASE UNCHANGED cache /\ excused' = excused \cup Stored({<<c, k>>})
  <2>1. excused' \subseteq Caches \X Keys
    BY <1>0, <1>2, TypeExcused
  <2> QED
    BY <1>2, <2>1 DEF TypeInv, TypeOK
<1> QED
  BY <1>1, <1>2 DEF Drop

LEMMA TypeInvalidate ==
    ASSUME TypeInv, NEW w \in Workers, Invalidate(w)
    PROVE  TypeInv'
<1>1. CASE DropList(w) /\ Creates(req[w])
  <2>1. Drop(w, All) /\ NextDraft(w, "ok") /\ UNCHANGED <<db, made, failed>>
    BY <1>1 DEF DropList
  <2>2. todo[w] # <<>>
    BY <1>1 DEF DropList, TypeInv, LocalsOK, LocalOK, Creates
  <2>3. /\ LocalsOK' /\ pc' \in [Workers -> PCs] /\ result' \in [Workers -> Results]
        /\ todo' \in [Workers -> Seq(Drafts)] /\ UNCHANGED <<req, held>>
    BY <1>1, <2>1, <2>2, TypeNextDraft DEF Results
  <2>4. All \in Keys
    BY DEF Keys
  <2> QED
    BY <2>1, <2>3, <2>4, DropType DEF TypeInv, TypeOK, db
<1>2. CASE DropList(w) /\ ~Creates(req[w])
  <2>1. Drop(w, All) /\ GoTo(w, "drop_post") /\ UNCHANGED <<db, local, result>>
    BY <1>2 DEF DropList
  <2>2. LocalOK(w)'
    BY <1>2, <2>1 DEF DropList, TypeInv, TypeOK, LocalsOK, LocalOK, GoTo, local
  <2>3. LocalsOK' /\ pc' \in [Workers -> PCs]
    BY <2>1, <2>2, GoOnLocals DEF PCs, local
  <2>4. All \in Keys
    BY DEF Keys
  <2> QED
    BY <2>1, <2>3, <2>4, DropType DEF TypeInv, TypeOK, db, local
<1>3. CASE DropPost(w)
  <2>1. Drop(w, req[w].id) /\ Finish(w, "ok") /\ UNCHANGED <<db, local>>
    BY <1>3 DEF DropPost
  <2>2. req[w].id \in Keys
    <3>1. req[w].op \in {"Update", "Delete"}
      BY <1>3 DEF DropPost, TypeInv, LocalsOK, LocalOK
    <3> QED
      BY <3>1, RequestFields DEF Keys, TypeInv, TypeOK, NoRequest
  <2>3. LocalsOK' /\ pc' \in [Workers -> PCs] /\ result' \in [Workers -> Results]
    BY <2>1, FinishedLocals DEF local, Results
  <2> QED
    BY <2>1, <2>2, <2>3, DropType DEF TypeInv, TypeOK, db, local
<1> QED
  BY <1>1, <1>2, <1>3 DEF Invalidate

LEMMA TypeExpire ==
    ASSUME TypeInv, NEW c \in Caches, NEW k \in Keys, Expire(c, k)
    PROVE  TypeInv'
<1>1. cache' = Dropped(c, {k}) /\ excused' = excused \ {<<c, k>>}
  BY DEF Expire
<1>2. UNCHANGED <<db, pc, local, result>>
  BY DEF Expire
<1>3. LocalsOK'
  BY <1>2, OtherLocals DEF TypeInv, LocalsOK, local
<1> QED
  BY <1>1, <1>2, <1>3, DroppedType DEF TypeInv, TypeOK, db, local

LEMMA ToDropType ==
    ASSUME TypeInv, NEW w \in Workers
    PROVE  ToDrop(w) \subseteq Keys
<1>1. req[w].op \in {"Update", "Delete"} => req[w].id \in Ids
  BY RequestFields DEF TypeInv, TypeOK, NoRequest
<1>2. CASE pc[w] = "drop_all" /\ Creates(req[w])
  BY <1>2 DEF ToDrop, Keys
<1>3. CASE pc[w] = "drop_post" \/ (pc[w] = "drop_all" /\ ~Creates(req[w]))
  <2>1. req[w].op \in {"Update", "Delete"}
    BY <1>3 DEF TypeInv, LocalsOK, LocalOK
  <2> QED
    BY <1>1, <1>3, <2>1 DEF ToDrop, Keys
<1>4. CASE pc[w] \notin {"drop_all", "drop_post"}
  BY <1>4 DEF ToDrop
<1> QED
  BY <1>2, <1>3, <1>4

LEMMA TypeCrash ==
    ASSUME TypeInv, NEW r \in Replicas, Crash(r)
    PROVE  TypeInv'
<1> DEFINE its == {w \in Workers : ReplicaOf[w] = r}
           left == UNION {ToDrop(w) : w \in its}
<1>1. Forget(its) /\ UNCHANGED db
  BY DEF Crash
<1>2. /\ LocalsOK' /\ pc' \in [Workers -> PCs] /\ req' \in [Workers -> Requests \cup {NoRequest}]
      /\ held' = [w \in Workers |-> held'[w]] /\ todo' \in [Workers -> Seq(Drafts)]
      /\ made' \in [Workers -> Seq(Ids)] /\ failed' \in [Workers -> Nat]
      /\ result' \in [Workers -> Results]
  BY <1>1 DEF Forget, TypeInv, TypeOK, LocalsOK, LocalOK, EntryType, PCs, Results
<1>3. CASE r \in Fallback
  <2>1. cache' = Dropped(r, Keys) /\ excused' \subseteq excused /\ r \in Caches
    BY <1>3 DEF Crash, Caches
  <2> QED
    BY <1>1, <1>2, <2>1, DroppedType DEF TypeInv, TypeOK, db
<1>4. CASE r \notin Fallback
  <2>1. UNCHANGED cache /\ excused' = excused \cup Stored({Redis} \X left)
    BY <1>4 DEF Crash
  <2>2. Redis \in Caches
    BY <1>4, PostServiceAssumption DEF Caches
  <2>3. left \subseteq Keys
    <3>1. \A w \in Workers : ToDrop(w) \subseteq Keys
      BY ToDropType
    <3> QED
      BY <3>1
  <2>4. excused' \subseteq Caches \X Keys
    BY <2>1, <2>2, <2>3 DEF Stored, TypeInv, TypeOK
  <2> QED
    BY <1>1, <1>2, <2>1, <2>4 DEF TypeInv, TypeOK, EntryType, db
<1> QED
  BY <1>3, <1>4

LEMMA TypeNext == TypeInv /\ [Next]_vars => TypeInv'
<1> SUFFICES ASSUME TypeInv, [Next]_vars PROVE TypeInv'
  OBVIOUS
<1>1. ASSUME NEW w \in Workers, Start(w) \/ Step(w) PROVE TypeInv'
  BY <1>1, TypeStart, TypeRead, TypeCreate, TypeUpdate, TypeDelete, TypeChangeAnswerLost,
     TypeReturn, TypeInvalidate
  DEF Step
<1>2. ASSUME NEW c \in Caches, NEW k \in Keys, Expire(c, k) PROVE TypeInv'
  BY <1>2, TypeExpire
<1>3. ASSUME NEW r \in Replicas, Crash(r) PROVE TypeInv'
  BY <1>3, TypeCrash
<1>4. CASE UNCHANGED vars
  BY <1>4, OtherLocals DEF vars, local, TypeInv, TypeOK, LocalsOK, EntryType
<1> QED
  BY <1>1, <1>2, <1>3, <1>4 DEF Next

(* The service never leaves its types, whatever fails.                     *)
THEOREM TypeCorrect == Spec => []TypeOK
<1>1. Init => TypeInv
  BY TypeInit
<1>2. TypeInv /\ [Next]_vars => TypeInv'
  BY TypeNext
<1>3. TypeInv => TypeOK
  BY DEF TypeInv
<1> QED
  BY <1>1, <1>2, <1>3, PTL DEF Spec

-----------------------------------------------------------------------------
(* The steps of a worker, sorted by what they do to the store and caches.  *)

OthersKeep(w) == \A v \in Workers \ {w} : pc'[v] = pc[v] /\ req'[v] = req[v]

(* A step between two waits: only the worker itself moves on.              *)
Quiet(w) ==
    /\ UNCHANGED <<store, lastId, cache, excused>>
    /\ pc[w] \notin {"drop_all", "drop_post"}
    /\ OthersKeep(w)
    /\ pc'[w] = "fill" => store[KeyOf(req'[w])] # Absent \/ KeyOf(req'[w]) = All

(* The store changes at id i.                                              *)
Changes(w, i) ==
    /\ i \in Ids
    /\ \A j \in Ids \ {i} : store'[j] = store[j]
    /\ UNCHANGED cache
    /\ excused \subseteq excused'
    /\ OthersKeep(w)
    /\ pc[w] \notin {"drop_all", "drop_post"}
    /\ pc'[w] # "fill"
    /\ \/ store[i] # Absent /\ UNCHANGED lastId
       \/ Serial => i = lastId + 1 /\ lastId' = i
    /\ \A c \in Caches, k \in {All, i} :
          \/ cache[c][k] = NoEntry
          \/ <<c, k>> \in excused'
          \/ c = CacheOf(w) /\ k \in ToDrop(w)'

LEMMA QuietSteps ==
    ASSUME TypeInv, NEW w \in Workers,
           \/ Start(w) \/ CacheHit(w) \/ CacheMiss(w) \/ Load(w) \/ FillFails(w)
           \/ StorageFails(w) \/ RefuseDraft(w) \/ InsertFails(w) \/ Fetch(w)
           \/ OverwriteFails(w) \/ RemoveFails(w) \/ Return(w)
    PROVE  Quiet(w)
<1> USE DEF Quiet, OthersKeep, TypeInv, TypeOK, db, local
<1>1. CASE Start(w)
  <2>1. PICK r \in Requests : req' = [req EXCEPT ![w] = r] /\ GoTo(w, FirstStep(r))
    BY <1>1 DEF Start
  <2>2. FirstStep(r) # "fill"
    BY RequestFields DEF FirstStep, Reads, Creates
  <2> QED
    BY <1>1, <2>1, <2>2 DEF Start, GoTo
<1>2. CASE \/ CacheHit(w) \/ CacheMiss(w) \/ FillFails(w) \/ StorageFails(w)
           \/ OverwriteFails(w) \/ RemoveFails(w)
  BY <1>2 DEF CacheHit, CacheMiss, FillFails, StorageFails, OverwriteFails, RemoveFails,
              Finish, GoTo
<1>3. CASE Load(w)
  BY <1>3 DEF Load, View, Finish, GoTo
<1>4. CASE Fetch(w)
  BY <1>4 DEF Fetch, Finish, GoTo
<1>5. CASE Return(w)
  BY <1>5 DEF Return, Forget
<1>6. CASE RefuseDraft(w) \/ InsertFails(w)
  BY <1>6 DEF RefuseDraft, InsertFails, DraftFails, NextDraft, Finish, GoTo
<1> QED
  BY <1>1, <1>2, <1>3, <1>4, <1>5, <1>6

LEMMA ChangingSteps ==
    ASSUME TypeInv, NothingAhead, NEW w \in Workers,
           Insert(w) \/ InsertAnswerLost(w) \/ Overwrite(w) \/ Remove(w) \/ ChangeAnswerLost(w)
    PROVE  \E i \in Ids : Changes(w, i)
<1> USE DEF Changes, OthersKeep
<1>1. CASE Insert(w) \/ InsertAnswerLost(w)
  <2> DEFINE i == NewId
  <2>1. i \in Ids /\ store' = [store EXCEPT ![i] = Head(todo[w])] /\ UNCHANGED cache
    BY <1>1, TypeStoreInsert DEF Insert, InsertAnswerLost, StoreInsert, DraftFails
  <2>2. \/ store[i] # Absent /\ UNCHANGED lastId
        \/ Serial => i = lastId + 1 /\ lastId' = i
    BY <1>1 DEF Insert, InsertAnswerLost, StoreInsert, NewId, TypeInv, TypeOK
  <2>3. /\ OthersKeep(w) /\ pc[w] = "create" /\ pc'[w] # "fill"
        /\ Insert(w) => pc'[w] = "drop_all" /\ UNCHANGED req
    BY <1>1 DEF Insert, InsertAnswerLost, DraftFails, NextDraft, Finish, GoTo, TypeInv, TypeOK
  <2>4. \A c \in Caches : cache[c][i] = NoEntry \/ <<c, i>> \in excused'
    <3>1. CASE Serial
      <4>1. i > lastId
        BY <3>1, PostServiceAssumption DEF NewId, TypeInv, TypeOK
      <4> HIDE DEF i
      <4> QED
        BY <2>1, <3>1, <4>1 DEF NothingAhead
    <3>2. CASE ~Serial
      BY <1>1, <3>2 DEF Insert, InsertAnswerLost, LeftOver, Stored
    <3> QED
      BY <3>1, <3>2
  <2>5. \A c \in Caches :
           \/ cache[c][All] = NoEntry \/ <<c, All>> \in excused'
           \/ c = CacheOf(w) /\ All \in ToDrop(w)'
    <3>1. CASE Insert(w)
      <4>1. ToDrop(w)' = {All}
        BY <2>3, <3>1 DEF ToDrop, TypeInv, LocalsOK, LocalOK, Creates
      <4>2. excused' = excused \cup OutOfReach(w, {All}) \cup LeftOver(i)
        BY <3>1 DEF Insert
      <4> QED
        BY <4>1, <4>2 DEF OutOfReach, Stored
    <3>2. CASE InsertAnswerLost(w)
      BY <3>2 DEF InsertAnswerLost, Stored
    <3> QED
      BY <1>1, <3>1, <3>2
  <2>6. excused \subseteq excused'
    BY <1>1 DEF Insert, InsertAnswerLost
  <2>7. \A j \in Ids \ {i} : store'[j] = store[j]
    BY <2>1 DEF TypeInv, TypeOK, Stores
  <2> QED
    BY <2>1, <2>2, <2>3, <2>4, <2>5, <2>6, <2>7
<1>2. CASE Overwrite(w) \/ Remove(w) \/ ChangeAnswerLost(w)
  <2> DEFINE i == req[w].id
  <2>1. req[w].op \in {"Update", "Delete"}
    BY <1>2 DEF Overwrite, Remove, ChangeAnswerLost, TypeInv, LocalsOK, LocalOK
  <2>2. i \in Ids /\ ~Creates(req[w])
    BY <2>1, RequestFields DEF TypeInv, TypeOK, NoRequest, Creates
  <2>3. /\ store[i] # Absent /\ UNCHANGED lastId /\ UNCHANGED cache
        /\ \A j \in Ids \ {i} : store'[j] = store[j]
    BY <1>2 DEF Overwrite, Remove, ChangeAnswerLost, StorePut, TypeInv, TypeOK, Stores
  <2>4. /\ OthersKeep(w) /\ pc[w] \in {"write", "delete"} /\ UNCHANGED req
        /\ pc'[w] = IF ChangeAnswerLost(w) THEN "done" ELSE "drop_all"
    BY <1>2 DEF Overwrite, Remove, ChangeAnswerLost, Finish, GoTo, TypeInv, TypeOK, local
  <2>5. \A c \in Caches, k \in {All, i} :
           \/ cache[c][k] = NoEntry \/ <<c, k>> \in excused'
           \/ c = CacheOf(w) /\ k \in ToDrop(w)'
    <3>1. CASE ChangeAnswerLost(w)
      BY <3>1 DEF ChangeAnswerLost, Stored
    <3>2. CASE ~ChangeAnswerLost(w)
      <4>1. ToDrop(w)' = {All, i}
        BY <2>2, <2>4, <3>2 DEF ToDrop
      <4> QED
        BY <1>2, <3>2, <4>1 DEF Overwrite, Remove, OutOfReach, Stored
    <3> QED
      BY <3>1, <3>2
  <2>6. excused \subseteq excused'
    BY <1>2 DEF Overwrite, Remove, ChangeAnswerLost
  <2> QED
    BY <2>2, <2>3, <2>4, <2>5, <2>6
<1> QED
  BY <1>1, <1>2

(* A step that empties entries, or leaves them with their cause.           *)
Keeps(c, k) ==
    /\ cache'[c][k] = cache[c][k]
    /\ \/ <<c, k>> \in excused'
       \/ /\ <<c, k>> \notin excused
          /\ \A v \in Workers : CacheOf(v) = c /\ k \in ToDrop(v) => k \in ToDrop(v)'

Forgets ==
    /\ UNCHANGED db
    /\ \A v \in Workers : pc'[v] = "fill" => pc[v] = "fill" /\ req'[v] = req[v]
    /\ \A c \in Caches, k \in Keys : cache'[c][k] = NoEntry \/ Keeps(c, k)

(* What Dropped leaves of an entry.                                        *)
LEMMA DroppedEntries ==
    ASSUME TypeInv, NEW d \in Caches, NEW ks \in SUBSET Keys, cache' = Dropped(d, ks),
           NEW c \in Caches, NEW k \in Keys
    PROVE  cache'[c][k] = IF c = d /\ k \in ks THEN NoEntry ELSE cache[c][k]
  BY DEF TypeInv, TypeOK, Dropped

LEMMA DropForgets ==
    ASSUME TypeInv, NEW w \in Workers, NEW x \in Keys, Drop(w, x), OthersKeep(w),
           ToDrop(w) \ {x} \subseteq ToDrop(w)',
           NEW c \in Caches, NEW k \in Keys
    PROVE  cache'[c][k] = NoEntry \/ Keeps(c, k)
<1> DEFINE d == CacheOf(w)
<1>1. d \in Caches
  BY CacheOfType
<1>2. \/ cache' = Dropped(d, {x}) /\ excused' = excused \ {<<d, x>>}
      \/ cache' = cache /\ excused' = excused \cup Stored({<<d, x>>})
  BY DEF Drop
<1>3. CASE c = d /\ k = x
  BY <1>1, <1>2, <1>3, DroppedEntries DEF Stored, Keeps
<1>4. CASE <<c, k>> # <<d, x>>
  <2>1. cache'[c][k] = cache[c][k]
    BY <1>1, <1>2, <1>4, DroppedEntries
  <2>2. <<c, k>> \in excused => <<c, k>> \in excused'
    BY <1>2, <1>4
  <2>3. \A v \in Workers : CacheOf(v) = c /\ k \in ToDrop(v) => k \in ToDrop(v)'
    <3>1. \A v \in Workers \ {w} : ToDrop(v)' = ToDrop(v)
      BY DEF OthersKeep, ToDrop, Creates
    <3> QED
      BY <1>4, <3>1
  <2> QED
    BY <2>1, <2>2, <2>3 DEF Keeps
<1> QED
  BY <1>3, <1>4

LEMMA InvalidateForgets ==
    ASSUME TypeInv, NEW w \in Workers, Invalidate(w)
    PROVE  Forgets
<1> USE DEF OthersKeep, TypeInv, TypeOK, local
<1>1. CASE DropList(w)
  <2>1. OthersKeep(w) /\ pc'[w] # "fill" /\ UNCHANGED db /\ UNCHANGED req
    BY <1>1 DEF DropList, NextDraft, Finish, GoTo
  <2>2. ToDrop(w) \ {All} \subseteq ToDrop(w)'
    BY <1>1 DEF DropList, ToDrop, GoTo
  <2>3. Drop(w, All) /\ All \in Keys
    BY <1>1 DEF DropList, Keys
  <2> QED
    BY <2>1, <2>2, <2>3, DropForgets DEF Forgets
<1>2. CASE DropPost(w)
  <2>1. OthersKeep(w) /\ pc'[w] # "fill" /\ UNCHANGED db /\ UNCHANGED req
    BY <1>2 DEF DropPost, Finish, GoTo
  <2>2. ToDrop(w) \ {req[w].id} = {}
    BY <1>2 DEF DropPost, ToDrop
  <2>3. Drop(w, req[w].id) /\ req[w].id \in Keys
    <3>1. Drop(w, req[w].id) /\ req[w].id \in ToDrop(w)
      BY <1>2 DEF DropPost, ToDrop
    <3> QED
      BY <3>1, ToDropType
  <2> QED
    BY <2>1, <2>2, <2>3, DropForgets DEF Forgets
<1> QED
  BY <1>1, <1>2 DEF Invalidate

LEMMA ExpireForgets ==
    ASSUME TypeInv, NEW d \in Caches, NEW x \in Keys, Expire(d, x)
    PROVE  Forgets
<1>1. cache' = Dropped(d, {x}) /\ excused' = excused \ {<<d, x>>}
  BY DEF Expire
<1>2. UNCHANGED <<db, pc, req>>
  BY DEF Expire, local
<1>3. \A v \in Workers : ToDrop(v)' = ToDrop(v)
  BY <1>2 DEF ToDrop
<1>4. ASSUME NEW c \in Caches, NEW k \in Keys
      PROVE  cache'[c][k] = NoEntry \/ Keeps(c, k)
  BY <1>1, <1>3, DroppedEntries DEF Keeps
<1> QED
  BY <1>2, <1>4 DEF Forgets

LEMMA CrashForgets ==
    ASSUME TypeInv, NEW r \in Replicas, Crash(r)
    PROVE  Forgets
<1> DEFINE its == {w \in Workers : ReplicaOf[w] = r}
           left == UNION {ToDrop(w) : w \in its}
<1>1. Forget(its) /\ UNCHANGED db
  BY DEF Crash
<1>2. \A v \in Workers : pc'[v] = "fill" => pc[v] = "fill" /\ req'[v] = req[v]
  BY <1>1 DEF Forget
<1>3. \A v \in Workers \ its : ToDrop(v)' = ToDrop(v)
  BY <1>1 DEF Forget, ToDrop
<1>4. ASSUME r \in Fallback, NEW c \in Caches, NEW k \in Keys
      PROVE  cache'[c][k] = NoEntry \/ Keeps(c, k)
  <2>1. cache' = Dropped(r, Keys) /\ excused' = excused \ ({r} \X Keys) /\ r \in Caches
    BY <1>4 DEF Crash, Caches
  <2>2. CASE c = r
    BY <2>1, <2>2, DroppedEntries
  <2>3. CASE c # r
    <3>1. cache'[c][k] = cache[c][k]
      BY <2>1, <2>3, DroppedEntries
    <3>2. \A v \in Workers : CacheOf(v) = c => v \notin its
      BY <1>4, <2>3 DEF CacheOf
    <3>3. <<c, k>> \in excused => <<c, k>> \in excused'
      BY <2>1, <2>3
    <3> QED
      BY <1>3, <3>1, <3>2, <3>3 DEF Keeps
  <2> QED
    BY <2>2, <2>3
<1>5. ASSUME r \notin Fallback, NEW c \in Caches, NEW k \in Keys
      PROVE  cache'[c][k] = NoEntry \/ Keeps(c, k)
  <2>1. UNCHANGED cache /\ excused' = excused \cup Stored({Redis} \X left)
    BY <1>5 DEF Crash
  <2>2. CASE c = Redis /\ k \in left
    BY <2>1, <2>2 DEF Stored, Keeps
  <2>3. CASE ~(c = Redis /\ k \in left)
    <3>1. \A v \in its : CacheOf(v) = Redis
      BY <1>5 DEF CacheOf
    <3>2. \A v \in Workers : CacheOf(v) = c /\ k \in ToDrop(v) => v \notin its
      BY <2>3, <3>1
    <3> QED
      BY <1>3, <2>1, <3>2 DEF Keeps
  <2> QED
    BY <2>2, <2>3
<1> QED
  BY <1>1, <1>2, <1>4, <1>5 DEF Forgets

-----------------------------------------------------------------------------
(* NothingAhead, by the kind of step.                                      *)

LEMMA AheadNext ==
    ASSUME TypeInv, NothingAhead, TypeInv',
           \/ \E w \in Workers : Quiet(w) \/ Fill(w) \/ \E i \in Ids : Changes(w, i)
           \/ Forgets
    PROVE  NothingAhead'
<1> SUFFICES ASSUME Serial, NEW j \in Ids, j > lastId'
             PROVE  /\ store'[j] = Absent
                    /\ \A c \in Caches : cache'[c][j] = NoEntry
                    /\ \A v \in Workers : pc'[v] = "fill" => KeyOf(req'[v]) # j
  BY DEF NothingAhead, KeyOf
<1>1. ASSUME j > lastId
      PROVE  /\ store[j] = Absent
             /\ \A c \in Caches : cache[c][j] = NoEntry
             /\ \A v \in Workers : pc[v] = "fill" => KeyOf(req[v]) # j
  BY <1>1 DEF NothingAhead
<1>2. j # All /\ j \in Keys
  BY PostServiceAssumption DEF All, Ids, Keys
<1>3. CASE \E w \in Workers : Quiet(w)
  BY <1>1, <1>2, <1>3 DEF Quiet, OthersKeep
<1>4. CASE \E w \in Workers : Fill(w)
  <2>1. PICK w \in Workers : Fill(w)
    BY <1>4
  <2>2. UNCHANGED <<db, req>> /\ pc[w] = "fill"
    BY <2>1 DEF Fill, local
  <2>3. \A v \in Workers : pc'[v] = "fill" => pc[v] = "fill"
    BY <2>1 DEF Fill, Finish, GoTo, TypeInv, TypeOK
  <2>4. j > lastId /\ KeyOf(req[w]) # j
    BY <1>1, <2>2 DEF db
  <2>5. \A c \in Caches : cache'[c][j] = cache[c][j]
    BY <1>2, <2>1, <2>4, CacheOfType DEF Fill, TypeInv, TypeOK
  <2> QED
    BY <1>1, <2>2, <2>3, <2>4, <2>5 DEF db
<1>5. CASE \E w \in Workers, i \in Ids : Changes(w, i)
  <2>1. PICK w \in Workers, i \in Ids : Changes(w, i)
    BY <1>5
  <2>2. j > lastId /\ j # i
    <3>1. lastId \in Int /\ i \in Int /\ j \in Int
      BY PostServiceAssumption DEF TypeInv, TypeOK, Ids
    <3>2. CASE store[i] # Absent /\ UNCHANGED lastId
      BY <1>1, <3>2
    <3>3. CASE i = lastId + 1 /\ lastId' = i
      BY <3>1, <3>3
    <3> QED
      BY <2>1, <3>2, <3>3 DEF Changes
  <2> QED
    BY <1>1, <2>1, <2>2 DEF Changes, OthersKeep
<1>6. CASE Forgets
  BY <1>1, <1>2, <1>6 DEF Forgets, Keeps, db
<1> QED
  BY <1>3, <1>4, <1>5, <1>6

-----------------------------------------------------------------------------
(* StaleHasCause, by the kind of step.                                     *)

Caused(c, k) ==
    \/ <<c, k>> \in excused
    \/ \E v \in Workers : CacheOf(v) = c /\ k \in ToDrop(v)

LEMMA OthersToDrop ==
    ASSUME NEW w \in Workers, OthersKeep(w)
    PROVE  \A v \in Workers \ {w} : ToDrop(v)' = ToDrop(v)
  BY DEF OthersKeep, ToDrop, Creates

LEMMA QuietStale ==
    ASSUME StaleHasCause, NEW w \in Workers, Quiet(w)
    PROVE  StaleHasCause'
<1>1. ToDrop(w) = {} /\ \A v \in Workers \ {w} : ToDrop(v)' = ToDrop(v)
  BY OthersToDrop DEF Quiet, ToDrop
<1>2. ASSUME NEW c \in Caches, NEW k \in Keys, Stale(c, k)' PROVE Caused(c, k)'
  <2>1. Stale(c, k)
    BY <1>2 DEF Quiet, Stale, View
  <2>2. Caused(c, k)
    BY <2>1 DEF StaleHasCause, Caused
  <2> QED
    BY <1>1, <2>2 DEF Quiet, Caused, CacheOf
<1> QED
  BY <1>2 DEF StaleHasCause, Caused

(* The writer drops, or has recorded, the entries of i and of the list;    *)
(* what the other entries show has not changed.                            *)
LEMMA ChangesStale ==
    ASSUME StaleHasCause, NEW w \in Workers, NEW i \in Ids, Changes(w, i)
    PROVE  StaleHasCause'
<1>1. ToDrop(w) = {} /\ \A v \in Workers \ {w} : ToDrop(v)' = ToDrop(v)
  BY OthersToDrop DEF Changes, ToDrop
<1>2. ASSUME NEW c \in Caches, NEW k \in Keys, Stale(c, k)' PROVE Caused(c, k)'
  <2>1. CASE k \in {All, i}
    <3>1. cache[c][k] # NoEntry
      BY <1>2 DEF Stale, Changes
    <3>2. <<c, k>> \in excused' \/ (c = CacheOf(w) /\ k \in ToDrop(w)')
      BY <2>1, <3>1 DEF Changes
    <3> QED
      BY <3>2 DEF Caused
  <2>2. CASE k \notin {All, i}
    <3>1. Stale(c, k)
      BY <1>2, <2>2 DEF Stale, Changes, View, Keys
    <3>2. Caused(c, k)
      BY <3>1 DEF StaleHasCause, Caused
    <3>3. excused \subseteq excused'
      BY DEF Changes
    <3> QED
      BY <1>1, <3>2, <3>3 DEF Caused
  <2> QED
    BY <2>1, <2>2
<1> QED
  BY <1>2 DEF StaleHasCause, Caused

(* A fill compares what it stores with what is there now.                  *)
LEMMA FillStale ==
    ASSUME TypeInv, StaleHasCause, NEW w \in Workers, Fill(w)
    PROVE  StaleHasCause'
<1> DEFINE d == CacheOf(w)
           x == KeyOf(req[w])
<1>1. /\ cache' = [cache EXCEPT ![d][x] = held[w]]
      /\ excused' = IF held[w] = View(store, x) THEN excused \ {<<d, x>>}
                    ELSE excused \cup {<<d, x>>}
      /\ UNCHANGED store
  BY DEF Fill, db
<1>2. OthersKeep(w) /\ ToDrop(w) = {}
  BY DEF Fill, OthersKeep, ToDrop, Finish, GoTo, local, TypeInv, TypeOK
<1>3. \A v \in Workers : ToDrop(v) \subseteq ToDrop(v)'
  BY <1>2, OthersToDrop
<1>4. d \in Caches /\ x \in Keys
  <2>1. req[w] \in Requests
    <3>1. Reads(req[w])
      BY DEF Fill, TypeInv, LocalsOK, LocalOK
    <3>2. req[w] # NoRequest
      BY <3>1 DEF Reads, NoRequest
    <3> QED
      BY <3>2 DEF TypeInv, TypeOK
  <2> QED
    BY <2>1, CacheOfType, RequestFields
<1>5. ASSUME NEW c \in Caches, NEW k \in Keys, Stale(c, k)' PROVE Caused(c, k)'
  <2>1. CASE c = d /\ k = x
    <3>1. cache'[c][k] = held[w]
      BY <1>1, <1>4, <2>1 DEF TypeInv, TypeOK
    <3>2. held[w] # View(store, x)
      BY <1>1, <1>5, <2>1, <3>1 DEF Stale, View
    <3> QED
      BY <1>1, <2>1, <3>2 DEF Caused
  <2>2. CASE ~(c = d /\ k = x)
    <3>1. cache'[c][k] = cache[c][k]
      BY <1>1, <1>4, <2>2 DEF TypeInv, TypeOK
    <3>2. Caused(c, k)
      BY <1>1, <1>5, <3>1 DEF Stale, View, StaleHasCause, Caused
    <3>3. <<c, k>> \in excused => <<c, k>> \in excused'
      BY <1>1, <2>2
    <3> QED
      BY <1>3, <3>2, <3>3 DEF Caused
  <2> QED
    BY <2>1, <2>2
<1> QED
  BY <1>5 DEF StaleHasCause, Caused

LEMMA ForgetsStale ==
    ASSUME StaleHasCause, Forgets
    PROVE  StaleHasCause'
<1>1. ASSUME NEW c \in Caches, NEW k \in Keys, Stale(c, k)' PROVE Caused(c, k)'
  <2>1. Keeps(c, k)
    BY <1>1 DEF Stale, Forgets
  <2>2. Stale(c, k)
    BY <1>1, <2>1 DEF Stale, Keeps, Forgets, View, db
  <2>3. Caused(c, k)
    BY <2>2 DEF StaleHasCause, Caused
  <2> QED
    BY <2>1, <2>3 DEF Keeps, Caused
<1> QED
  BY <1>1 DEF StaleHasCause, Caused

-----------------------------------------------------------------------------
(* Every step is of one of the kinds above.                                *)
LEMMA StepKinds ==
    ASSUME TypeInv, NothingAhead, Next
    PROVE  \/ \E w \in Workers : Quiet(w) \/ Fill(w) \/ \E i \in Ids : Changes(w, i)
           \/ Forgets
<1>1. ASSUME NEW w \in Workers, Start(w) \/ Step(w)
      PROVE  Quiet(w) \/ Fill(w) \/ (\E i \in Ids : Changes(w, i)) \/ Forgets
  BY <1>1, QuietSteps, ChangingSteps, InvalidateForgets
  DEF Step, Read, Create, Update, Delete
<1>2. ASSUME NEW c \in Caches, NEW k \in Keys, Expire(c, k) PROVE Forgets
  BY <1>2, ExpireForgets
<1>3. ASSUME NEW r \in Replicas, Crash(r) PROVE Forgets
  BY <1>3, CrashForgets
<1> QED
  BY <1>1, <1>2, <1>3 DEF Next

LEMMA InitIInv == Init => IInv
  BY TypeInit, PostServiceAssumption
  DEF IInv, Init, TypeInv, NothingAhead, StaleHasCause, Stale, Keys, Ids, All

LEMMA NextIInv == IInv /\ [Next]_vars => IInv'
<1> SUFFICES ASSUME IInv, [Next]_vars PROVE IInv'
  OBVIOUS
<1>1. TypeInv /\ TypeInv'
  BY TypeNext DEF IInv, TypeInv
<1>2. CASE Next
  BY <1>1, <1>2, StepKinds, AheadNext, QuietStale, ChangesStale, FillStale, ForgetsStale
  DEF IInv, TypeInv
<1>3. CASE UNCHANGED vars
  <2>1. NothingAhead'
    BY <1>3 DEF vars, local, IInv, NothingAhead, KeyOf
  <2>2. StaleHasCause'
    BY <1>3 DEF vars, local, IInv, StaleHasCause, Stale, View, ToDrop, Creates
  <2> QED
    BY <1>1, <2>1, <2>2 DEF IInv, TypeInv
<1> QED
  BY <1>2, <1>3

(* Every stale entry has its cause recorded or its writer about to drop    *)
(* it: post_service.go:46-54 drops all that a write makes stale.           *)
THEOREM Attribution == Spec => []StaleHasCause
<1>1. Init => IInv
  BY InitIInv
<1>2. IInv /\ [Next]_vars => IInv'
  BY NextIInv
<1>3. IInv => StaleHasCause
  BY DEF IInv
<1> QED
  BY <1>1, <1>2, <1>3, PTL DEF Spec

(* No step gives a deleted post of a sequence a value again: an update     *)
(* writes only where a post is, and a create only above lastId.            *)
THEOREM NoResurrection == Spec => DeletedStaysDeleted
<1>1. ASSUME IInv, [Next]_vars, Serial, NEW i \in Ids, i <= lastId, store[i] = Absent
      PROVE  store'[i] = Absent
  <2>1. TypeInv /\ NothingAhead
    BY <1>1 DEF IInv, TypeInv
  <2>2. CASE \E w \in Workers, j \in Ids : Changes(w, j)
    <3>1. PICK w \in Workers, j \in Ids : Changes(w, j)
      BY <2>2
    <3>2. i # j
      BY <1>1, <2>1, <3>1, PostServiceAssumption DEF Changes, TypeInv, TypeOK, Ids
    <3> QED
      BY <1>1, <3>1, <3>2 DEF Changes
  <2>3. CASE \/ \E w \in Workers : Quiet(w) \/ Fill(w)
             \/ Forgets \/ UNCHANGED vars
    BY <1>1, <2>3 DEF Quiet, Fill, Forgets, vars, db
  <2> QED
    BY <1>1, <2>1, <2>2, <2>3, StepKinds
<1>2. IInv /\ [Next]_vars =>
        [Serial => \A i \in Ids : i <= lastId /\ store[i] = Absent => store'[i] = Absent]_vars
  BY <1>1
<1> QED
  BY <1>2, InitIInv, NextIInv, PTL DEF Spec, DeletedStaysDeleted

-----------------------------------------------------------------------------
(* Bulk requests add up: every draft is still to do, among the ids, or     *)
(* failed, and during the drop after an insert both to do and made.        *)
CountOK(w) ==
    /\ pc[w] = "idle" => made[w] = <<>> /\ failed[w] = 0
    /\ Creates(req[w]) /\ pc[w] # "idle" =>
          Len(made[w]) + failed[w] + Len(todo[w])
              = Len(req[w].items) + (IF pc[w] = "drop_all" THEN 1 ELSE 0)
    /\ Creates(req[w]) /\ pc[w] = "done" => todo[w] = <<>>

(* With ids from a sequence, those handed out differ.                      *)
MadeOK ==
    Serial =>
        /\ \A w \in Workers : \A i \in DOMAIN made[w] : made[w][i] <= lastId
        /\ \A v, w \in Workers : \A i \in DOMAIN made[v], j \in DOMAIN made[w] :
              made[v][i] = made[w][j] => <<v, i>> = <<w, j>>

BulkInv == (\A w \in Workers : CountOK(w)) /\ MadeOK

LEMMA TailLength ==
    ASSUME NEW S, NEW s \in Seq(S), s # <<>>
    PROVE  /\ Len(s) \in Nat /\ Len(s) >= 1 /\ Len(Tail(s)) = Len(s) - 1
           /\ ~(Len(s) > 1) => Tail(s) = <<>>
<1>1. Len(s) \in Nat /\ Len(s) # 0
  BY EmptySeq, LenProperties
<1>2. Tail(s) \in Seq(S) /\ Len(Tail(s)) = Len(s) - 1
  BY HeadTailProperties
<1>3. ~(Len(s) > 1) => Tail(s) = <<>>
  BY <1>1, <1>2, EmptySeq
<1> QED
  BY <1>1, <1>2, <1>3

LEMMA SameCount ==
    ASSUME NEW v \in Workers, CountOK(v), made'[v] = made[v], failed'[v] = failed[v],
           todo'[v] = todo[v], req'[v] = req[v], pc'[v] = pc[v]
    PROVE  CountOK(v)'
  BY DEF CountOK

(* Ids that are forgotten, and a sequence that goes on, keep MadeOK.       *)
LEMMA FewerMade ==
    ASSUME TypeInv, TypeInv', MadeOK, Serial => lastId' >= lastId,
           \A w \in Workers : made'[w] = made[w] \/ made'[w] = <<>>
    PROVE  MadeOK'
<1>1. DOMAIN <<>> = {}
  OBVIOUS
<1>2. \A w \in Workers : \A i \in DOMAIN made'[w] :
          i \in DOMAIN made[w] /\ made'[w][i] = made[w][i]
  BY <1>1
<1>3. lastId \in Int /\ lastId' \in Int
  BY PostServiceAssumption DEF TypeInv, TypeOK
<1>4. \A w \in Workers : \A i \in DOMAIN made[w] : made[w][i] \in Int
  BY PostServiceAssumption DEF TypeInv, TypeOK, Ids
<1> QED
  BY <1>2, <1>3, <1>4 DEF MadeOK

(* A draft is dealt with.                                                  *)
LEMMA NextDraftCount ==
    ASSUME TypeInv, NEW w \in Workers, NEW status, NextDraft(w, status), CountOK(w),
           Creates(req[w]), pc[w] \in {"create", "drop_all"}, made' = made,
           failed'[w] = failed[w] + (IF pc[w] = "create" THEN 1 ELSE 0)
    PROVE  CountOK(w)'
<1>1. todo[w] \in Seq(Drafts) /\ todo[w] # <<>>
  BY DEF TypeInv, TypeOK, LocalsOK, LocalOK, Creates
<1>2. /\ Len(todo[w]) \in Nat /\ Len(todo[w]) >= 1 /\ Len(Tail(todo[w])) = Len(todo[w]) - 1
      /\ ~(Len(todo[w]) > 1) => Tail(todo[w]) = <<>>
  BY <1>1, TailLength
<1>3. todo'[w] = Tail(todo[w]) /\ req' = req
  BY DEF NextDraft, TypeInv, TypeOK
<1>4. /\ pc'[w] = IF Len(todo[w]) > 1 THEN "create" ELSE "done"
  BY DEF NextDraft, Finish, GoTo, TypeInv, TypeOK
<1>5. Len(made[w]) \in Nat /\ failed[w] \in Nat
  BY LenProperties DEF TypeInv, TypeOK
<1>6. Len(made[w]) + failed[w] + Len(todo[w])
          = Len(req[w].items) + (IF pc[w] = "drop_all" THEN 1 ELSE 0)
  BY DEF CountOK
<1>7. Len(req[w].items) \in Nat
  <2>1. req[w] \in Requests
    BY DEF TypeInv, TypeOK, Creates, NoRequest
  <2> QED
    BY <2>1, RequestFields, LenProperties
<1>8. PICK m \in Nat, f \in Nat, t \in Nat, n \in Nat :
          m = Len(made[w]) /\ f = failed[w] /\ t = Len(todo[w]) /\ n = Len(req[w].items)
  BY <1>2, <1>5, <1>7
<1>9. Len(made'[w]) + failed'[w] + Len(todo'[w]) = Len(req'[w].items)
  <2>1. Len(made'[w]) = Len(made[w])
    OBVIOUS
  <2>2. Len(todo'[w]) = Len(todo[w]) - 1
    BY <1>2, <1>3
  <2>3. Len(req'[w].items) = Len(req[w].items)
    BY <1>3
  <2>4. CASE pc[w] = "create"
    <3>1. failed'[w] = failed[w] + 1
      BY <2>4
    <3>2. Len(made[w]) + failed[w] + Len(todo[w]) = Len(req[w].items)
      BY <1>6, <1>7, <2>4
    <3>3. m + f + t = n
      BY <1>8, <3>2, Zenon
    <3>4. m + (f + 1) + (t - 1) = n
      BY <3>3
    <3> QED
      BY <1>8, <2>1, <2>2, <2>3, <3>1, <3>4, Zenon
  <2>5. CASE pc[w] = "drop_all"
    <3>1. failed'[w] = failed[w]
      BY <1>5, <2>5
    <3>2. Len(made[w]) + failed[w] + Len(todo[w]) = Len(req[w].items) + 1
      BY <1>6, <2>5
    <3>3. m + f + t = n + 1
      BY <1>8, <3>2, Zenon
    <3>4. m + f + (t - 1) = n
      BY <3>3
    <3> QED
      BY <1>8, <2>1, <2>2, <2>3, <3>1, <3>4, Zenon
  <2> QED
    BY <2>4, <2>5
<1> QED
  BY <1>2, <1>3, <1>4, <1>7, <1>9 DEF CountOK

LEMMA CreateAddsUp ==
    ASSUME TypeInv, TypeInv', BulkInv, NEW w \in Workers, Create(w)
    PROVE  BulkInv'
<1>1. pc[w] = "create" /\ Creates(req[w]) /\ CountOK(w)
  <2>1. pc[w] = "create"
    BY DEF Create, RefuseDraft, InsertFails, Insert, InsertAnswerLost
  <2> QED
    BY <2>1 DEF BulkInv, TypeInv, LocalsOK, LocalOK
<1>2. NewId \in Nat /\ lastId \in Nat
  BY NewIdType, PostServiceAssumption DEF TypeInv, TypeOK
<1>3. ASSUME NEW status, DraftFails(w, status), Serial => lastId' >= lastId
      PROVE  BulkInv'
  <2>1. /\ failed' = [failed EXCEPT ![w] = failed[w] + 1] /\ made' = made
        /\ NextDraft(w, status) /\ req' = req
        /\ todo' = [todo EXCEPT ![w] = Tail(todo[w])]
    BY <1>3 DEF DraftFails, NextDraft
  <2>2. CountOK(w)'
    BY <1>1, <2>1, NextDraftCount DEF TypeInv, TypeOK
  <2>3. ASSUME NEW v \in Workers \ {w} PROVE CountOK(v)'
    <3>1. pc'[v] = pc[v]
      BY <2>1 DEF NextDraft, Finish, GoTo, TypeInv, TypeOK
    <3>2. failed'[v] = failed[v] /\ todo'[v] = todo[v]
      BY <2>1 DEF TypeInv, TypeOK
    <3> QED
      BY <2>1, <3>1, <3>2, SameCount DEF BulkInv
  <2>4. MadeOK'
    BY <1>3, <2>1, FewerMade DEF BulkInv
  <2> QED
    BY <2>2, <2>3, <2>4 DEF BulkInv
<1>4. CASE RefuseDraft(w) \/ InsertFails(w)
  <2>1. PICK status \in {"invalid", "internal"} : DraftFails(w, status)
    BY <1>4 DEF RefuseDraft, InsertFails
  <2>2. lastId' = lastId
    BY <1>4 DEF RefuseDraft, InsertFails, db
  <2> QED
    BY <1>2, <1>3, <2>1, <2>2
<1>5. CASE InsertAnswerLost(w)
  <2>1. DraftFails(w, "internal") /\ StoreInsert(Head(todo[w]))
    BY <1>5 DEF InsertAnswerLost
  <2>2. lastId' >= lastId
    BY <1>2, <2>1 DEF StoreInsert
  <2> QED
    BY <1>3, <2>1, <2>2
<1>6. CASE Insert(w)
  <2>1. /\ StoreInsert(Head(todo[w])) /\ made' = [made EXCEPT ![w] = Append(made[w], NewId)]
        /\ pc' = [pc EXCEPT ![w] = "drop_all"]
        /\ UNCHANGED <<req, todo, failed>>
    BY <1>6 DEF Insert, GoTo
  <2>2. Serial => NewId = lastId + 1 /\ lastId' = NewId
    BY <1>2, <2>1 DEF StoreInsert, NewId
  <2>3. made[w] \in Seq(Ids) /\ made'[w] = Append(made[w], NewId)
    BY <2>1 DEF TypeInv, TypeOK
  <2>4. /\ Len(made[w]) \in Nat /\ Len(made'[w]) = Len(made[w]) + 1
        /\ DOMAIN made'[w] = 1 .. Len(made[w]) + 1 /\ DOMAIN made[w] = 1 .. Len(made[w])
        /\ made'[w][Len(made[w]) + 1] = NewId
        /\ \A i \in 1 .. Len(made[w]) : made'[w][i] = made[w][i]
    BY <1>2, <2>3, AppendProperties, LenProperties
  <2>5. ASSUME NEW v \in Workers \ {w} PROVE made'[v] = made[v] /\ pc'[v] = pc[v]
    BY <2>1 DEF TypeInv, TypeOK
  <2>6. CountOK(w)'
    <3>1. failed[w] \in Nat /\ Len(todo[w]) \in Nat /\ Len(req[w].items) \in Nat
      <4>1. req[w] \in Requests
        BY <1>1 DEF TypeInv, TypeOK, Creates, NoRequest
      <4> QED
        BY <1>1, <4>1, RequestFields, LenProperties DEF TypeInv, TypeOK
    <3>2. Len(made'[w]) + failed'[w] + Len(todo'[w]) = Len(req'[w].items) + 1
      <4>1. failed'[w] = failed[w] /\ todo'[w] = todo[w] /\ req'[w] = req[w]
        BY <2>1
      <4>2. Len(made[w]) + failed[w] + Len(todo[w]) = Len(req[w].items)
        BY <1>1, <3>1 DEF CountOK
      <4>3. Len(todo'[w]) = Len(todo[w]) /\ Len(req'[w].items) = Len(req[w].items)
        BY <4>1
      <4>4. Len(made'[w]) = Len(made[w]) + 1 /\ Len(made[w]) \in Nat
        BY <2>4
      <4>5. PICK m \in Nat, f \in Nat, t \in Nat, n \in Nat :
                m = Len(made[w]) /\ f = failed[w] /\ t = Len(todo[w]) /\ n = Len(req[w].items)
        BY <3>1, <4>4
      <4>6. m + f + t = n
        BY <4>2, <4>5, Zenon
      <4>7. (m + 1) + f + t = n + 1
        BY <4>6
      <4> QED
        BY <4>1, <4>3, <4>4, <4>5, <4>7, Zenon
    <3>3. pc'[w] = "drop_all"
      BY <2>1 DEF TypeInv, TypeOK
    <3> QED
      BY <3>2, <3>3 DEF CountOK
  <2>7. \A v \in Workers \ {w} : CountOK(v)'
    BY <2>1, <2>5, SameCount DEF BulkInv
  <2>8. MadeOK'
    <3> SUFFICES ASSUME Serial PROVE MadeOK'
      BY DEF MadeOK
    <3> DEFINE n == Len(made[w]) + 1
    <3>1. \A v \in Workers : \A i \in DOMAIN made[v] : made[v][i] \in Nat /\ made[v][i] <= lastId
      <4>1. \A v \in Workers : \A i \in DOMAIN made[v] : made[v][i] \in Ids
        <5> SUFFICES ASSUME NEW v \in Workers, NEW i \in DOMAIN made[v] PROVE made[v][i] \in Ids
          OBVIOUS
        <5>1. made[v] \in Seq(Ids)
          BY DEF TypeInv, TypeOK
        <5> QED
          BY <5>1
      <4> QED
        BY <4>1 DEF BulkInv, MadeOK, Ids
    <3>2. \A v \in Workers : \A i \in DOMAIN made'[v] :
              \/ v = w /\ i = n /\ made'[v][i] = lastId + 1
              \/ i \in DOMAIN made[v] /\ made'[v][i] = made[v][i]
      <4> SUFFICES ASSUME NEW v \in Workers, NEW i \in DOMAIN made'[v]
                   PROVE  \/ v = w /\ i = n /\ made'[v][i] = lastId + 1
                          \/ i \in DOMAIN made[v] /\ made'[v][i] = made[v][i]
        OBVIOUS
      <4>1. CASE v = w
        BY <2>2, <2>4, <4>1
      <4>2. CASE v # w
        BY <2>5, <4>2
      <4> QED
        BY <4>1, <4>2
    <3>3. \A v \in Workers : \A i \in DOMAIN made'[v] : made'[v][i] <= lastId'
      BY <1>2, <2>2, <3>1, <3>2
    <3>4. ASSUME NEW u \in Workers, NEW v \in Workers,
                 NEW i \in DOMAIN made'[u], NEW j \in DOMAIN made'[v],
                 made'[u][i] = made'[v][j]
          PROVE  <<u, i>> = <<v, j>>
      <4>1. CASE made'[u][i] = lastId + 1
        <5>1. ASSUME NEW x \in Workers, NEW k \in DOMAIN made'[x], made'[x][k] = lastId + 1
              PROVE  x = w /\ k = n
          <6> SUFFICES ASSUME k \in DOMAIN made[x], made'[x][k] = made[x][k] PROVE FALSE
            BY <3>2
          <6>1. made[x][k] \in Nat /\ made[x][k] <= lastId /\ made[x][k] = lastId + 1
            BY <3>1, <5>1
          <6> QED
            BY <1>2, <6>1
        <5>2. u = w /\ i = n
          BY <4>1, <5>1
        <5>3. v = w /\ j = n
          BY <3>4, <4>1, <5>1
        <5> QED
          BY <5>2, <5>3
      <4>2. CASE made'[u][i] # lastId + 1
        BY <3>2, <3>4, <4>2 DEF BulkInv, MadeOK
      <4> QED
        BY <4>1, <4>2
    <3> QED
      BY <3>3, <3>4 DEF MadeOK
  <2> QED
    BY <2>6, <2>7, <2>8 DEF BulkInv
<1> QED
  BY <1>4, <1>5, <1>6 DEF Create

LEMMA StartAddsUp ==
    ASSUME TypeInv, TypeInv', BulkInv, NEW w \in Workers, Start(w)
    PROVE  BulkInv'
<1>1. PICK r \in Requests :
          /\ req' = [req EXCEPT ![w] = r]
          /\ todo' = [todo EXCEPT ![w] = IF Creates(r) THEN r.items ELSE <<>>]
          /\ GoTo(w, FirstStep(r))
  BY DEF Start
<1>2. UNCHANGED <<lastId, made, failed>> /\ pc[w] = "idle"
  BY DEF Start, db
<1>3. \A v \in Workers \ {w} : CountOK(v)'
  <2>1. \A v \in Workers \ {w} : req'[v] = req[v] /\ todo'[v] = todo[v] /\ pc'[v] = pc[v]
    BY <1>1 DEF GoTo, TypeInv, TypeOK
  <2> QED
    BY <1>2, <2>1, SameCount DEF BulkInv
<1>4. CountOK(w)'
  <2>1. req'[w] = r /\ pc'[w] = FirstStep(r) /\ (Creates(r) => todo'[w] = r.items)
    BY <1>1 DEF GoTo, TypeInv, TypeOK
  <2>2. made'[w] = <<>> /\ failed'[w] = 0
    BY <1>2 DEF BulkInv, CountOK
  <2>3. Len(made'[w]) = 0
    BY <2>2
  <2>4. FirstStep(r) \notin {"idle", "drop_all", "done"}
    BY RequestFields DEF FirstStep, Reads, Creates
  <2>5. Creates(r) => Len(r.items) \in Nat
    BY RequestFields, LenProperties
  <2> QED
    <3>1. Creates(r) => Len(made'[w]) + failed'[w] + Len(todo'[w]) = Len(req'[w].items) + 0
      BY <2>1, <2>2, <2>3, <2>5
    <3>2. Creates(req'[w]) <=> Creates(r)
      BY <2>1
    <3>3. Creates(r) => Len(made'[w]) + failed'[w] + Len(todo'[w])
                            = Len(req'[w].items) + (IF pc'[w] = "drop_all" THEN 1 ELSE 0)
      BY <2>1, <2>4, <3>1
    <3> QED
      BY <2>1, <2>4, <3>2, <3>3 DEF CountOK
<1>5. MadeOK'
  BY <1>2, FewerMade, PostServiceAssumption DEF BulkInv, TypeInv, TypeOK
<1> QED
  BY <1>3, <1>4, <1>5 DEF BulkInv

LEMMA DropListAddsUp ==
    ASSUME TypeInv, TypeInv', BulkInv, NEW w \in Workers, DropList(w), Creates(req[w])
    PROVE  BulkInv'
<1>1. /\ NextDraft(w, "ok") /\ pc[w] = "drop_all"
      /\ UNCHANGED <<lastId, made, failed>>
  BY DEF DropList, db
<1>2. failed'[w] = failed[w] + (IF pc[w] = "create" THEN 1 ELSE 0)
  BY <1>1 DEF TypeInv, TypeOK
<1>3. CountOK(w)'
  BY <1>1, <1>2, NextDraftCount DEF BulkInv
<1>4. \A v \in Workers \ {w} : CountOK(v)'
  <2>1. \A v \in Workers \ {w} : req'[v] = req[v] /\ todo'[v] = todo[v] /\ pc'[v] = pc[v]
    BY <1>1 DEF NextDraft, Finish, GoTo, TypeInv, TypeOK
  <2> QED
    BY <1>1, <2>1, SameCount DEF BulkInv
<1>5. MadeOK'
  BY <1>1, FewerMade, PostServiceAssumption DEF BulkInv, TypeInv, TypeOK
<1> QED
  BY <1>3, <1>4, <1>5 DEF BulkInv

(* A step of a request that creates nothing.                               *)
LEMMA OtherStepsAddUp ==
    ASSUME TypeInv, TypeInv', BulkInv, NEW w \in Workers, ~Creates(req[w]), ~Creates(req'[w]),
           pc[w] # "idle", pc'[w] # "idle",
           \A v \in Workers \ {w} :
              req'[v] = req[v] /\ todo'[v] = todo[v] /\ pc'[v] = pc[v],
           UNCHANGED <<lastId, made, failed>>
    PROVE  BulkInv'
<1>1. CountOK(w)'
  BY DEF CountOK, Creates
<1>2. \A v \in Workers \ {w} : CountOK(v)'
  BY SameCount DEF BulkInv
<1>3. MadeOK'
  BY FewerMade, PostServiceAssumption DEF BulkInv, TypeInv, TypeOK
<1> QED
  BY <1>1, <1>2, <1>3 DEF BulkInv

LEMMA PlainStepsAddUp ==
    ASSUME TypeInv, TypeInv', BulkInv, NEW w \in Workers,
           \/ Read(w) \/ Update(w) \/ Delete(w) \/ ChangeAnswerLost(w) \/ StorageFails(w)
           \/ DropPost(w) \/ (DropList(w) /\ ~Creates(req[w]))
    PROVE  BulkInv'
<1>1. /\ pc[w] \in PCs \ {"idle", "create", "done"}
      /\ ~Creates(req[w])
  <2>1. pc[w] \in {"get", "load", "fill", "fetch", "write", "delete", "drop_post"}
        \/ (pc[w] = "drop_all" /\ ~Creates(req[w]))
    BY DEF Read, CacheHit, CacheMiss, Load, Fill, FillFails, Update, Fetch, OverwriteFails,
       Overwrite, Delete, Remove, RemoveFails, ChangeAnswerLost, StorageFails, DropPost, DropList
  <2>2. pc[w] \in {"get", "load", "fill", "fetch", "write", "delete", "drop_post"}
        => ~Creates(req[w])
    BY DEF TypeInv, LocalsOK, LocalOK, Reads, Creates
  <2> QED
    BY <2>1, <2>2 DEF PCs
<1>2. req' = req /\ todo' = todo /\ UNCHANGED <<lastId, made, failed>>
  BY DEF Read, CacheHit, CacheMiss, Load, Fill, FillFails, Update, Fetch, OverwriteFails,
     Overwrite, Delete, Remove, RemoveFails, ChangeAnswerLost, StorageFails, DropPost, DropList,
     StorePut, local, db
<1>3. PICK label \in PCs \ {"idle"} : GoTo(w, label)
  BY DEF Read, CacheHit, CacheMiss, Load, Fill, FillFails, Update, Fetch, OverwriteFails,
     Overwrite, Delete, Remove, RemoveFails, ChangeAnswerLost, StorageFails, DropPost, DropList,
     Finish, PCs
<1>4. pc'[w] # "idle" /\ \A v \in Workers \ {w} : pc'[v] = pc[v]
  BY <1>3 DEF GoTo, TypeInv, TypeOK
<1> QED
  BY <1>1, <1>2, <1>4, OtherStepsAddUp

LEMMA ForgetAddsUp ==
    ASSUME TypeInv, TypeInv', BulkInv, NEW W, Forget(W), UNCHANGED lastId
    PROVE  BulkInv'
<1>1. ASSUME NEW v \in Workers PROVE CountOK(v)'
  <2>1. CASE v \in W
    BY <2>1 DEF Forget, CountOK, Creates, NoRequest
  <2>2. CASE v \notin W
    <3>1. /\ made'[v] = made[v] /\ failed'[v] = failed[v] /\ todo'[v] = todo[v]
          /\ req'[v] = req[v] /\ pc'[v] = pc[v]
      BY <2>2 DEF Forget
    <3> QED
      BY <3>1, SameCount DEF BulkInv
  <2> QED
    BY <2>1, <2>2
<1>2. \A v \in Workers : made'[v] = made[v] \/ made'[v] = <<>>
  BY DEF Forget
<1>3. MadeOK'
  BY <1>2, FewerMade, PostServiceAssumption DEF BulkInv, TypeInv, TypeOK
<1> QED
  BY <1>1, <1>3 DEF BulkInv

LEMMA BulkNext ==
    ASSUME TypeInv, TypeInv', BulkInv, [Next]_vars
    PROVE  BulkInv'
<1>1. ASSUME NEW w \in Workers, Start(w) \/ Step(w) PROVE BulkInv'
  <2>1. CASE Return(w)
    BY <2>1, ForgetAddsUp DEF Return, db
  <2> QED
    BY <1>1, <2>1, StartAddsUp, CreateAddsUp, DropListAddsUp, PlainStepsAddUp
    DEF Step, Invalidate
<1>2. ASSUME NEW r \in Replicas, Crash(r) PROVE BulkInv'
  <2>1. PICK W : Forget(W) /\ UNCHANGED lastId
    BY <1>2 DEF Crash, db
  <2> QED
    BY <2>1, ForgetAddsUp
<1>3. CASE (\E c \in Caches, k \in Keys : Expire(c, k)) \/ UNCHANGED vars
  <2>1. UNCHANGED <<pc, req, todo, made, failed, lastId>>
    BY <1>3 DEF Expire, vars, local, db
  <2>2. MadeOK'
    BY <2>1 DEF BulkInv, MadeOK
  <2> QED
    BY <2>1, <2>2, SameCount DEF BulkInv
<1> QED
  BY <1>1, <1>2, <1>3 DEF Next

(* A bulk request that has ended accounts for all its drafts, and ids from *)
(* a sequence are reported once.                                           *)
THEOREM BulkIsComplete == Spec => []BulkAddsUp
<1>1. Init => TypeInv /\ BulkInv
  BY TypeInit DEF Init, BulkInv, CountOK, MadeOK, Creates, NoRequest
<1>2. TypeInv /\ BulkInv /\ [Next]_vars => TypeInv' /\ BulkInv'
  BY TypeNext, BulkNext
<1>3. TypeInv /\ BulkInv => BulkAddsUp
  <2> SUFFICES ASSUME TypeInv, BulkInv PROVE BulkAddsUp
    OBVIOUS
  <2>1. ASSUME NEW w \in Workers, Creates(req[w]), pc[w] = "done"
        PROVE  Len(made[w]) + failed[w] = Len(req[w].items)
    <3>1. Len(made[w]) \in Nat /\ failed[w] \in Nat /\ Len(todo[w]) = 0
      BY <2>1, LenProperties, EmptySeq DEF BulkInv, CountOK, TypeInv, TypeOK
    <3>2. Len(made[w]) + failed[w] + Len(todo[w]) = Len(req[w].items) + 0
      BY <2>1 DEF BulkInv, CountOK
    <3>3. Len(req[w].items) \in Nat
      BY <3>1, <3>2, <2>1, RequestFields, LenProperties DEF TypeInv, TypeOK, Creates, NoRequest
    <3> QED
      BY <3>1, <3>2, <3>3
  <2> QED
    BY <2>1 DEF BulkAddsUp, BulkInv, MadeOK
<1> QED
  BY <1>1, <1>2, <1>3, PTL DEF Spec

=============================================================================
