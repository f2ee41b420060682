--------------------------- MODULE PostServiceMC ---------------------------
(* Instances of PostService: who runs where, and what clients send.        *)
EXTENDS PostService, TLC

CONSTANTS w1, w2, r1, r2, t1, t2, b1, b2

OneReplica == w1 :> r1 @@ w2 :> r1
TwoReplicas == w1 :> r1 @@ w2 :> r2

(* Two whole posts, and a draft that one of the validations refuses.       *)
WholeDrafts == {[title |-> t, body |-> b1] : t \in {t1, t2}}
LongDrafts == WholeDrafts \cup {[title |-> TooLong, body |-> b1]}
BlankDrafts == WholeDrafts \cup {[title |-> Blank, body |-> b1]}

(* A whole post, and an update of the title alone to another one, which no *)
(* create accepts.                                                         *)
MixedDrafts == {[title |-> t1, body |-> b1], [title |-> t2, body |-> Empty]}

(* Updates of one field each.                                              *)
FieldDrafts == {[title |-> t2, body |-> Empty], [title |-> Empty, body |-> b2]}

Symmetry == Permutations({w1, w2})

=============================================================================
