---------------------------- MODULE PostService ----------------------------
(***************************************************************************)
(* service.PostService over an atomic storage.Storage, with the cache-aside *)
(* reads of GetAll and GetByID and the invalidation that follows a write.  *)
(*                                                                         *)
(* A worker is a request goroutine of one of the replicas of postsvc.  All *)
(* replicas share the store.  NewCache gives a replica the Redis cache or, *)
(* when Redis does not answer at start-up, a MemoryCache of its own.       *)
(* Nothing orders the storage call and the cache call of one worker with   *)
(* those of another, and a replica may die between the two.                *)
(***************************************************************************)
EXTENDS Integers, Sequences, FiniteSetsExt

CONSTANTS
    Workers,     \* the request goroutines
    Replicas,    \* the server processes
    ReplicaOf,   \* the replica each worker runs in
    Fallback,    \* the replicas whose NewCache fell back to a MemoryCache
    Titles, Bodies,
    Drafts,      \* the titles and bodies clients send, some Empty or Blank
    Empty,       \* a field that is not sent
    Blank,       \* a field that is sent and is white space: "" once trimmed
    TooLong,     \* a field above its maximal length
    MaxId,       \* bound: the largest id
    Seed,        \* the store starts with the posts 1 .. Seed
    MaxBulk,     \* bound: length of a bulk request
    Serial,      \* ids come from a sequence (Postgres), or are the largest
                 \* live id + 1 (file)
    Faults,      \* which faults happen: "storage", "cache", "crash"
    Absent,      \* no post in the store
    NoEntry      \* no entry in the cache

Redis == "redis"
Special == {Empty, Blank, TooLong}
Ids == 1 .. MaxId
Posts == [title : Titles, body : Bodies]
Stores == [Ids -> Posts \cup {Absent}]

(* cacheKeyAllPosts, and cacheKeyPost(i).  0 is not an id.                 *)
All == 0
Keys == Ids \cup {All}
Values == Posts \cup Stores

ASSUME PostServiceAssumption ==
    /\ MaxId \in Nat /\ Seed \in 0 .. MaxId /\ MaxBulk \in Nat
    /\ ReplicaOf \in [Workers -> Replicas]
    /\ Fallback \subseteq Replicas
    /\ Redis \notin Replicas
    /\ Special \cap (Titles \cup Bodies) = {}
    /\ Empty # Blank /\ Empty # TooLong /\ Blank # TooLong
    /\ Drafts \subseteq [title : Titles \cup Special, body : Bodies \cup Special]
    /\ Absent \notin Posts
    /\ NoEntry \notin Values
    /\ Serial \in BOOLEAN

Caches == Fallback \cup (IF Fallback = Replicas THEN {} ELSE {Redis})
CacheOf(w) == IF ReplicaOf[w] \in Fallback THEN ReplicaOf[w] ELSE Redis

VARIABLES
    store,     \* the posts by id
    lastId,    \* the largest id ever handed out
    cache,     \* the entry of every key, in every cache
    pc,        \* where each worker is in its request
    req,       \* the request each worker executes
    held,      \* what the worker read from the store (a local variable)
    todo,      \* the drafts of its create or bulk request still to do
    made,      \* BulkCreateResponse.PostIDs
    failed,    \* BulkCreateResponse.Failed
    result,    \* how the request of each worker has ended
    excused    \* history: entries whose staleness has a known cause

db == <<store, lastId>>
local == <<req, held, todo, made, failed>>
vars == <<store, lastId, cache, pc, local, result, excused>>

NoRequest == [op |-> "none"]

BulkItems == UNION {[1 .. n -> Drafts] : n \in 1 .. MaxBulk}

Requests ==
    [op : {"GetAll"}]
        \cup [op : {"GetByID", "Delete"}, id : Ids]
        \cup [op : {"Create"}, items : [1 .. 1 -> Drafts]]
        \cup [op : {"BulkCreate"}, items : BulkItems]
        \cup [op : {"Update"}, id : Ids, draft : Drafts]

Reads(r) == r.op \in {"GetAll", "GetByID"}
Creates(r) == r.op \in {"Create", "BulkCreate"}

KeyOf(r) == IF r.op = "GetByID" THEN r.id ELSE All

(* What a fresh entry of key k holds.                                      *)
View(s, k) == IF k = All THEN s ELSE s[k]

GoTo(w, label) == pc' = [pc EXCEPT ![w] = label]
Finish(w, status) == GoTo(w, "done") /\ result' = [result EXCEPT ![w] = status]

(* The local variables of the workers W end with their requests.           *)
Forget(W) ==
    /\ pc' = [w \in Workers |-> IF w \in W THEN "idle" ELSE pc[w]]
    /\ req' = [w \in Workers |-> IF w \in W THEN NoRequest ELSE req[w]]
    /\ held' = [w \in Workers |-> IF w \in W THEN Absent ELSE held[w]]
    /\ todo' = [w \in Workers |-> IF w \in W THEN <<>> ELSE todo[w]]
    /\ made' = [w \in Workers |-> IF w \in W THEN <<>> ELSE made[w]]
    /\ failed' = [w \in Workers |-> IF w \in W THEN 0 ELSE failed[w]]
    /\ result' = [w \in Workers |-> IF w \in W THEN "none" ELSE result[w]]

Init ==
    /\ store \in {s \in Stores : \A i \in Ids : s[i] = Absent <=> i > Seed}
    /\ lastId = Seed
    /\ cache = [c \in Caches |-> [k \in Keys |-> NoEntry]]
    /\ pc = [w \in Workers |-> "idle"]
    /\ req = [w \in Workers |-> NoRequest]
    /\ held = [w \in Workers |-> Absent]
    /\ todo = [w \in Workers |-> <<>>]
    /\ made = [w \in Workers |-> <<>>]
    /\ failed = [w \in Workers |-> 0]
    /\ result = [w \in Workers |-> "none"]
    /\ excused = {}

FirstStep(r) ==
    CASE Reads(r) -> "get"
      [] Creates(r) -> "create"
      [] r.op = "Update" -> "fetch"
      [] r.op = "Delete" -> "delete"

Start(w) ==
    /\ pc[w] = "idle"
    /\ \E r \in Requests :
          /\ req' = [req EXCEPT ![w] = r]
          /\ todo' = [todo EXCEPT ![w] = IF Creates(r) THEN r.items ELSE <<>>]
          /\ GoTo(w, FirstStep(r))
    /\ UNCHANGED <<db, cache, held, made, failed, result, excused>>

Return(w) ==
    /\ pc[w] = "done"
    /\ Forget({w})
    /\ UNCHANGED <<db, cache, excused>>

-----------------------------------------------------------------------------
(* GetAll and GetByID.                                                     *)

CacheMayFail(w) == "cache" \in Faults /\ CacheOf(w) = Redis

CacheHit(w) ==
    /\ pc[w] = "get"
    /\ cache[CacheOf(w)][KeyOf(req[w])] # NoEntry
    /\ Finish(w, "ok")
    /\ UNCHANGED <<db, cache, local, excused>>

(* An error of Redis counts as a miss.                                     *)
CacheMiss(w) ==
    /\ pc[w] = "get"
    /\ cache[CacheOf(w)][KeyOf(req[w])] = NoEntry \/ CacheMayFail(w)
    /\ GoTo(w, "load")
    /\ UNCHANGED <<db, cache, local, result, excused>>

(* storage.GetAll, storage.GetByID.                                        *)
Load(w) ==
    /\ pc[w] = "load"
    /\ LET found == View(store, KeyOf(req[w]))
       IN  \/ /\ found = Absent
              /\ Finish(w, "notfound")
              /\ UNCHANGED held
           \/ /\ found # Absent
              /\ held' = [held EXCEPT ![w] = found]
              /\ GoTo(w, "fill")
              /\ UNCHANGED result
    /\ UNCHANGED <<db, cache, req, todo, made, failed, excused>>

(* Mutant of Fill: a post is cached under the key of the list.             *)
FillUnderListKey(w) ==
    /\ pc[w] = "fill"
    /\ cache' = [cache EXCEPT ![CacheOf(w)][All] = held[w]]
    /\ Finish(w, "ok")
    /\ UNCHANGED <<db, local, excused>>

(* cache.Set.  The value may have been overtaken by a write since Load: no *)
(* check is made, and that is the first cause of a stale entry.            *)
Fill(w) ==
    LET c == CacheOf(w)
        k == KeyOf(req[w])
    IN  /\ pc[w] = "fill"
        /\ cache' = [cache EXCEPT ![c][k] = held[w]]
        /\ excused' = IF held[w] = View(store, k) THEN excused \ {<<c, k>>}
                      ELSE excused \cup {<<c, k>>}
        /\ Finish(w, "ok")
        /\ UNCHANGED <<db, local>>

FillFails(w) ==
    /\ pc[w] = "fill"
    /\ CacheMayFail(w)
    /\ Finish(w, "ok")
    /\ UNCHANGED <<db, cache, local, excused>>

-----------------------------------------------------------------------------
(* The store, as storage.Storage promises it: every operation is atomic,   *)
(* or fails.  A failing one may have taken effect all the same (the        *)
(* transaction commits and the connection is lost).                        *)

LiveIds == {i \in Ids : store[i] # Absent}
NewId == IF Serial THEN lastId + 1 ELSE Max(LiveIds \cup {0}) + 1

(* Mutant of StoreInsert: the sequence is not advanced.                    *)
StoreInsertAgain(d) ==
    /\ NewId <= MaxId
    /\ store' = [store EXCEPT ![NewId] = d]
    /\ UNCHANGED lastId

StoreInsert(d) ==
    /\ NewId <= MaxId
    /\ store' = [store EXCEPT ![NewId] = d]
    /\ lastId' = IF NewId > lastId THEN NewId ELSE lastId

(* Mutant of StorePut: an upsert.                                          *)
StoreUpsert(i, p) ==
    /\ store' = [store EXCEPT ![i] = p]
    /\ UNCHANGED lastId

StorePut(i, p) ==
    /\ store[i] # Absent
    /\ store' = [store EXCEPT ![i] = p]
    /\ UNCHANGED lastId

(* The entries of S that hold a value.  An operation that changes post i   *)
(* leaves the entries of i and of the list stale.  Its worker is about to  *)
(* drop those of its own cache; those in the MemoryCache of another        *)
(* replica, or in Redis for a replica that has fallen back, nobody drops.  *)
Stored(S) == {e \in S : cache[e[1]][e[2]] # NoEntry}
OutOfReach(w, ks) == Stored((Caches \ {CacheOf(w)}) \X ks)

(* storage.Create's id may have named an earlier, deleted post, of which   *)
(* caches may hold an entry that Create does not drop.                     *)
LeftOver(i) == IF Serial THEN {} ELSE Stored(Caches \X {i})

StorageMayFail == "storage" \in Faults

Sent(new, old) == IF new = Empty THEN old ELSE new

(* The whole post that Update has storage.Update write.                    *)
Merged(w) ==
    [title |-> Sent(req[w].draft.title, held[w].title),
     body |-> Sent(req[w].draft.body, held[w].body)]

Overlong(w) == TooLong \in {Merged(w).title, Merged(w).body}

(* A storage call fails and has changed nothing.                           *)
StorageFails(w) ==
    /\ pc[w] \in {"load", "fetch", "write", "delete"}
    /\ pc[w] = "write" => ~Overlong(w)
    /\ StorageMayFail
    /\ Finish(w, "internal")
    /\ UNCHANGED <<db, cache, local, excused>>

-----------------------------------------------------------------------------
(* Create, and BulkCreate as a sequence of Creates.                        *)

Refused(d) == {Empty, TooLong} \cap {d.title, d.body} # {}

(* The current draft is dealt with: a Create ends, a BulkCreate goes on    *)
(* whatever became of it.                                                  *)
NextDraft(w, status) ==
    /\ todo' = [todo EXCEPT ![w] = Tail(todo[w])]
    /\ IF Len(todo[w]) > 1 THEN GoTo(w, "create") /\ UNCHANGED result
       ELSE Finish(w, IF req[w].op = "BulkCreate" THEN "ok" ELSE status)
    /\ UNCHANGED <<req, held>>

(* Mutant of DraftFails: the first failure ends a bulk request.            *)
DraftFailsAll(w, status) ==
    /\ failed' = [failed EXCEPT ![w] = failed[w] + 1]
    /\ Finish(w, status)
    /\ UNCHANGED <<cache, made, req, held, todo>>

DraftFails(w, status) ==
    /\ failed' = [failed EXCEPT ![w] = failed[w] + 1]
    /\ NextDraft(w, status)
    /\ UNCHANGED <<cache, made>>

(* validateCreateRequest.                                                  *)
RefuseDraft(w) ==
    /\ pc[w] = "create"
    /\ Refused(Head(todo[w]))
    /\ DraftFails(w, "invalid")
    /\ UNCHANGED <<db, excused>>

(* storage.Create refuses a title that trims to "", or fails; here it also *)
(* fails when the bound on the ids is reached.                             *)
InsertFails(w) ==
    /\ pc[w] = "create"
    /\ ~Refused(Head(todo[w]))
    /\ StorageMayFail \/ Head(todo[w]) \notin Posts \/ NewId > MaxId
    /\ DraftFails(w, "internal")
    /\ UNCHANGED <<db, excused>>

Insert(w) ==
    /\ pc[w] = "create"
    /\ Head(todo[w]) \in Posts
    /\ StoreInsert(Head(todo[w]))
    /\ made' = [made EXCEPT ![w] = Append(made[w], NewId)]
    /\ excused' = excused \cup OutOfReach(w, {All}) \cup LeftOver(NewId)
    /\ GoTo(w, "drop_all")
    /\ UNCHANGED <<cache, req, held, todo, failed, result>>

InsertAnswerLost(w) ==
    /\ pc[w] = "create"
    /\ Head(todo[w]) \in Posts
    /\ StorageMayFail
    /\ StoreInsert(Head(todo[w]))
    /\ DraftFails(w, "internal")
    /\ excused' = excused \cup Stored(Caches \X {All}) \cup LeftOver(NewId)

-----------------------------------------------------------------------------
(* Update and Delete.                                                      *)

Fetch(w) ==
    /\ pc[w] = "fetch"
    /\ LET found == store[req[w].id]
       IN  \/ /\ found = Absent
              /\ Finish(w, "notfound")
              /\ UNCHANGED held
           \/ /\ found # Absent
              /\ held' = [held EXCEPT ![w] = found]
              /\ GoTo(w, "write")
              /\ UNCHANGED result
    /\ UNCHANGED <<db, cache, req, todo, made, failed, excused>>

(* The merge refuses a field that is too long; storage.Update refuses a    *)
(* field that trims to "", and a post that has gone, and either error is   *)
(* wrapped as an internal one.                                             *)
OverwriteFails(w) ==
    /\ pc[w] = "write"
    /\ \/ Overlong(w) /\ Finish(w, "invalid")
       \/ /\ ~Overlong(w)
          /\ Merged(w) \notin Posts \/ store[req[w].id] = Absent
          /\ Finish(w, "internal")
    /\ UNCHANGED <<db, cache, local, excused>>

Overwrite(w) ==
    /\ pc[w] = "write"
    /\ Merged(w) \in Posts
    /\ StorePut(req[w].id, Merged(w))
    /\ excused' = excused \cup OutOfReach(w, {All, req[w].id})
    /\ GoTo(w, "drop_all")
    /\ UNCHANGED <<cache, local, result>>

Remove(w) ==
    /\ pc[w] = "delete"
    /\ StorePut(req[w].id, Absent)
    /\ excused' = excused \cup OutOfReach(w, {All, req[w].id})
    /\ GoTo(w, "drop_all")
    /\ UNCHANGED <<cache, local, result>>

RemoveFails(w) ==
    /\ pc[w] = "delete"
    /\ store[req[w].id] = Absent
    /\ Finish(w, "notfound")
    /\ UNCHANGED <<db, cache, local, excused>>

ChangeAnswerLost(w) ==
    /\ StorageMayFail
    /\ \/ /\ pc[w] = "write"
          /\ Merged(w) \in Posts
          /\ StorePut(req[w].id, Merged(w))
       \/ /\ pc[w] = "delete"
          /\ StorePut(req[w].id, Absent)
    /\ excused' = excused \cup Stored(Caches \X {All, req[w].id})
    /\ Finish(w, "internal")
    /\ UNCHANGED <<cache, local>>

-----------------------------------------------------------------------------
(* invalidate: first the list, then the post.  Its errors are ignored; one *)
(* of them is the context of a request that has timed out in the meantime. *)

Dropped(c, ks) == [cache EXCEPT ![c] = [k \in Keys |-> IF k \in ks THEN NoEntry ELSE @[k]]]

Drop(w, k) ==
    LET c == CacheOf(w)
    IN  \/ /\ cache' = Dropped(c, {k})
           /\ excused' = excused \ {<<c, k>>}
        \/ /\ CacheMayFail(w)
           /\ UNCHANGED cache
           /\ excused' = excused \cup Stored({<<c, k>>})

(* Mutant of DropList: the entry of the post is forgotten.                 *)
DropListOnly(w) ==
    /\ pc[w] = "drop_all"
    /\ Drop(w, All)
    /\ Finish(w, "ok")
    /\ UNCHANGED <<db, local>>

DropList(w) ==
    /\ pc[w] = "drop_all"
    /\ Drop(w, All)
    /\ IF Creates(req[w]) THEN NextDraft(w, "ok") /\ UNCHANGED <<made, failed>>
       ELSE GoTo(w, "drop_post") /\ UNCHANGED <<local, result>>
    /\ UNCHANGED db

DropPost(w) ==
    /\ pc[w] = "drop_post"
    /\ Drop(w, req[w].id)
    /\ Finish(w, "ok")
    /\ UNCHANGED <<db, local>>

(* The keys whose entries w has still to drop.                             *)
ToDrop(w) ==
    CASE pc[w] = "drop_all" -> IF Creates(req[w]) THEN {All} ELSE {All, req[w].id}
      [] pc[w] = "drop_post" -> {req[w].id}
      [] OTHER -> {}

-----------------------------------------------------------------------------
(* Mutant of Expire: the list is set without a time to live.               *)
ExpirePosts(c, k) ==
    /\ k # All
    /\ cache[c][k] # NoEntry
    /\ cache' = Dropped(c, {k})
    /\ excused' = excused \ {<<c, k>>}
    /\ UNCHANGED <<db, pc, local, result>>

(* An entry's time to live runs out, or cleanup, or a Get that found an    *)
(* expired entry before this one was set, removes it.                      *)
Expire(c, k) ==
    /\ cache[c][k] # NoEntry
    /\ cache' = Dropped(c, {k})
    /\ excused' = excused \ {<<c, k>>}
    /\ UNCHANGED <<db, pc, local, result>>

(* A replica dies and is started again, with an empty MemoryCache.         *)
Crash(r) ==
    LET its == {w \in Workers : ReplicaOf[w] = r}
        left == UNION {ToDrop(w) : w \in its}
    IN  /\ "crash" \in Faults
        /\ cache' = IF r \in Fallback THEN Dropped(r, Keys) ELSE cache
        /\ excused' = IF r \in Fallback THEN excused \ ({r} \X Keys)
                      ELSE excused \cup Stored({Redis} \X left)
        /\ Forget(its)
        /\ UNCHANGED db

Read(w) == CacheHit(w) \/ CacheMiss(w) \/ Load(w) \/ Fill(w) \/ FillFails(w)
Create(w) == RefuseDraft(w) \/ InsertFails(w) \/ Insert(w) \/ InsertAnswerLost(w)
Update(w) == Fetch(w) \/ OverwriteFails(w) \/ Overwrite(w)
Delete(w) == Remove(w) \/ RemoveFails(w)
Invalidate(w) == DropList(w) \/ DropPost(w)

Step(w) ==
    Read(w) \/ Create(w) \/ Update(w) \/ Delete(w)
        \/ ChangeAnswerLost(w) \/ StorageFails(w) \/ Invalidate(w) \/ Return(w)

Next ==
    \/ \E w \in Workers : Start(w) \/ Step(w)
    \/ \E c \in Caches, k \in Keys : Expire(c, k)
    \/ \E r \in Replicas : Crash(r)

(* A request runs to its end, and every entry's time to live runs out.     *)
Fairness ==
    /\ \A w \in Workers : WF_vars(Step(w))
    /\ \A c \in Caches, k \in Keys : WF_vars(Expire(c, k))

Spec == Init /\ [][Next]_vars
FairSpec == Spec /\ Fairness

-----------------------------------------------------------------------------
PCs == {"idle", "get", "load", "fill", "create", "fetch", "write", "delete",
        "drop_all", "drop_post", "done"}
Results == {"none", "ok", "notfound", "invalid", "internal"}

EntryType(k) == (IF k = All THEN Stores ELSE Posts) \cup {NoEntry}

(* Every variable has its type; the entry of the list holds a list, the    *)
(* entry of a post a post.                                                 *)
TypeOK ==
    /\ store \in Stores
    /\ lastId \in 0 .. MaxId
    /\ cache = [c \in Caches |-> [k \in Keys |-> cache[c][k]]]
    /\ \A c \in Caches, k \in Keys : cache[c][k] \in EntryType(k)
    /\ pc \in [Workers -> PCs]
    /\ req \in [Workers -> Requests \cup {NoRequest}]
    /\ held = [w \in Workers |-> held[w]]
    /\ todo \in [Workers -> Seq(Drafts)]
    /\ made \in [Workers -> Seq(Ids)]
    /\ failed \in [Workers -> Nat]
    /\ result \in [Workers -> Results]
    /\ excused \subseteq Caches \X Keys

Stale(c, k) == cache[c][k] \notin {NoEntry, View(store, k)}

(* An entry that differs from the store is one that the writer has still   *)
(* to drop, or has a cause recorded where it arose: a reader that filled   *)
(* it after the write, a drop that failed or that a crash or a lost answer *)
(* prevented, a write through another replica's cache, an id used again.   *)
(* There is no other way: the keys that each write drops are the ones it   *)
(* made stale (post_service.go:46-54).                                     *)
StaleHasCause ==
    \A c \in Caches, k \in Keys :
        Stale(c, k) =>
            \/ <<c, k>> \in excused
            \/ \E w \in Workers : CacheOf(w) = c /\ k \in ToDrop(w)

(* With ids from a sequence, a post that has been deleted never comes      *)
(* back: neither an update that read it before the deletion nor a create   *)
(* puts anything under its id (post_service.go:209-234).                   *)
DeletedStaysDeleted ==
    [][Serial => \A i \in Ids : i <= lastId /\ store[i] = Absent => store'[i] = Absent]_vars

(* When a bulk request has ended, every draft is either among the ids it   *)
(* reports or counted as failed; and with ids from a sequence no id is     *)
(* reported twice, by one request or by two (post_service.go:284-293).     *)
BulkAddsUp ==
    \A w \in Workers :
        /\ Creates(req[w]) /\ pc[w] = "done" => Len(made[w]) + failed[w] = Len(req[w].items)
        /\ Serial => \A v \in Workers : \A i \in DOMAIN made[w], j \in DOMAIN made[v] :
                        made[w][i] = made[v][j] => <<w, i>> = <<v, j>>

Writing(w) == pc[w] \in {"create", "write", "delete", "drop_all", "drop_post"}
Coherent == \A c \in Caches, k \in Keys : ~Stale(c, k)

(* Whatever happened before, once the writes stop every cache agrees with  *)
(* the store again, and keeps agreeing: nothing puts a stale entry back    *)
(* once the fills under way are over (post_service.go:22-26, 93, 156).     *)
EventuallyCoherent == <>[](\A w \in Workers : ~Writing(w)) => <>[]Coherent

(* "invalidate drops cached entries after a write so readers never observe *)
(* stale data past the mutation that caused it" (post_service.go:44-45):   *)
(* an entry that no write in progress is about to drop is the store's.     *)
NoStaleEntryPastMutation ==
    \A c \in Caches, k \in Keys :
        Stale(c, k) => \E w \in Workers : CacheOf(w) = c /\ k \in ToDrop(w)

(* "expected body to be left unchanged" (post_service_test.go:141): an     *)
(* update that sends no body (no title) leaves the body (title) that is in *)
(* the store.                                                              *)
UnsentFieldsUnchanged ==
    [][\A w \in Workers :
          pc[w] = "write" /\ pc'[w] = "drop_all" =>
              LET i == req[w].id
                  d == req[w].draft
              IN  /\ d.title = Empty => store'[i].title = store[i].title
                  /\ d.body = Empty => store'[i].body = store[i].body]_vars

=============================================================================
