------------------------------- MODULE RpcMC -------------------------------
EXTENDS Rpc, TLC

Time(s, n) == [secs |-> s, nanos |-> n]
PostOf(id, user, title, secs) ==
    [ID |-> id, UserID |-> user, Title |-> title, Body |-> "b",
     CreatedAt |-> Time(secs, 1), UpdatedAt |-> Time(secs, 0)]

MCNow == Time(1, 1)

(* Two posts of one second, two of one user.                               *)
MCStore == << PostOf(3, 1, "x", 2), PostOf(1, 2, "y", 1), PostOf(2, 1, "z", 1) >>

MCSubjects ==
    { [UserID |-> 1, Username |-> "admin", Role |-> "admin", Attributes |-> [dept |-> "it"]] }

MCFilters ==
    { [UserID |-> u, Search |-> s, SortBy |-> by, SortOrder |-> o] :
        u \in {Nil, 1}, s \in {"", "x"}, by \in {"", "id", "createdAt"}, o \in {"", "asc"} }
    \cup {Null}

MCMaps == {Null, [dept |-> "it"], [owner |-> "1"], [mfa |-> "true"]}

MCRFC3339 == [s \in 0..3 |-> ToString(s)]

(* 1026 and 2049 are cut to -1022 and 1.                                   *)
MCPages == { PageOf(p, n) : p \in {-1, 0, 1, 2, 1026, 2049}, n \in {0, 1, 2, 1026, 2049} }

MCDrafts ==
    { [UserID |-> 1, Title |-> t, Body |-> "b"] : t \in {"", "t"} }

MCInputs ==
    [ListPosts |-> [filter : MCFilters, pagination : MCPages \cup {Null}],
     GetPost |-> 1..4,
     CreatePost |-> MCDrafts,
     UpdatePost |-> [id : {1, 4}, UserID : {0, 2}, Title : {"", "t"}, Body : {"", "b2"}],
     DeletePost |-> {1, 4},
     BatchCreatePosts |-> UNION { [1..n -> MCDrafts] : n \in 0..2 },
     AnalyzePosts |-> {Null},
     Login |-> {[username |-> "admin", password |-> "p"]},
     ValidateToken |-> {"token"},
     Authorize |-> [Subject : MCSubjects, Resource : {"post"}, Action : {"read", "write"},
                    ResourceAttributes : {Null, [owner |-> "1"]},
                    Context : {Null, [mfa |-> "true"]}]]

=============================================================================
