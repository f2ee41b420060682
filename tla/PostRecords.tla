---------------------------- MODULE PostRecords ----------------------------
(***************************************************************************)
(* The data of the post stores: a post, the list of posts a backend holds, *)
(* the requests of the storage.Storage interface and what each of them     *)
(* makes of a list (internal/storage).  No state: PostStore and            *)
(* FileStorage say when these operators are applied, and to which list.    *)
(***************************************************************************)
EXTENDS Integers, FiniteSets, Sequences, FiniteSetsExt

CONSTANTS
    Contents,   \* what a post says (user, title and body), as model values
    Malformed,  \* a content that Post.Validate rejects
    AskedIds,   \* the ids clients name in their requests
    Batches     \* the batches that BatchCreate is called with

ASSUME RecordsAssumption ==
    /\ Malformed \notin Contents
    /\ AskedIds \subseteq Nat \ {0}
    /\ Batches \subseteq Seq(Contents)

(* A post.  The two time stamps carry no decision of the store.            *)
Post == [id : Nat \ {0}, content : Contents]

(* The list in the file.  Ids identify posts, so its order is left out.    *)
PostLists == SUBSET Post

WriteOps == {"Create", "Update", "Delete", "BatchCreate"}

Requests ==
    [op : {"GetAll", "Count"}]
        \cup [op : {"GetByID", "Delete"}, id : AskedIds]
        \cup [op : {"Create"}, content : Contents \cup {Malformed}]
        \cup [op : {"Update"}, id : AskedIds, content : Contents \cup {Malformed}]
        \cup [op : {"BatchCreate"}, batch : Batches]

(* Post.Validate, called by Create and Update before they take the lock.   *)
(* BatchCreate does not call it.                                           *)
Valid(req) == req.op \in {"Create", "Update"} => req.content # Malformed

IdsOf(S) == {r.id : r \in S}

LargestId(S) == Max(IdsOf(S) \cup {0})

(* Mutants of Extended: ids from the old largest on, and ids from the      *)
(* length of the list.                                                     *)
ExtendedFromLargest(S, batch) ==
    S \cup {[id |-> LargestId(S) + i - 1, content |-> batch[i]] : i \in 1 .. Len(batch)}
ExtendedFromLength(S, batch) ==
    S \cup {[id |-> Cardinality(S) + i, content |-> batch[i]] : i \in 1 .. Len(batch)}

(* BatchCreate's list; Create is a batch of one.                           *)
Extended(S, batch) ==
    S \cup {[id |-> LargestId(S) + i, content |-> batch[i]] : i \in 1 .. Len(batch)}

Replaced(S, i, c) == {IF r.id = i THEN [r EXCEPT !.content = c] ELSE r : r \in S}

Without(S, i) == {r \in S : r.id # i}

(* The list after req.  An update or a delete of an absent id changes      *)
(* nothing.                                                                *)
After(req, S) ==
    CASE req.op = "Create" -> Extended(S, <<req.content>>)
      [] req.op = "BatchCreate" -> Extended(S, req.batch)
      [] req.op = "Update" -> Replaced(S, req.id, req.content)
      [] req.op = "Delete" -> Without(S, req.id)
      [] OTHER -> S

Answer(status, S) == [status |-> status, posts |-> S]

Statuses == {"ok", "notfound", "invalid", "error"}
Answers == [status : Statuses, posts : PostLists]

Asks(req) == req.op \in {"GetByID", "Update", "Delete"}

(* What the caller gets: the posts read, the posts created (with the ids   *)
(* the store gave them), or ErrNotFound.  Count answers with the length of *)
(* the list, for which the list itself stands here.                        *)
Reply(req, S) ==
    CASE Asks(req) /\ req.id \notin IdsOf(S) -> Answer("notfound", {})
      [] req.op = "GetByID" -> Answer("ok", {r \in S : r.id = req.id})
      [] req.op \in {"Create", "BatchCreate"} -> Answer("ok", After(req, S) \ S)
      [] req.op \in {"Update", "Delete"} -> Answer("ok", {})
      [] OTHER -> Answer("ok", S)

=============================================================================
