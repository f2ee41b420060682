------------------------------ MODULE GatewayMC ------------------------------
(* Instances of Gateway.                                                   *)
EXTENDS Gateway, TLC

CONSTANTS q1, q2

Input(route, method, user, mfa, good) ==
    [route |-> route, method |-> method, user |-> user, mfa |-> mfa, good |-> good]

Roles == [u \in Users |-> u]

(* A request for each gate, route and refusal.                             *)
Samples ==
    { Input("posts", "POST", "editor", FALSE, TRUE),
      Input("posts", "POST", "viewer", TRUE, TRUE),
      Input("posts", "PATCH", "editor", FALSE, TRUE),
      Input("posts", "GET", NoUser, FALSE, TRUE),
      Input("post", "DELETE", "editor", FALSE, TRUE),
      Input("post", "DELETE", "editor", TRUE, TRUE),
      Input("bulk", "POST", "editor", FALSE, TRUE),
      Input("reanalyze", "POST", "editor", FALSE, TRUE),
      Input("export", "GET", "viewer", FALSE, FALSE),
      Input("exports/", "GET", "viewer", FALSE, TRUE),
      Input("sentiment", "POST", "editor", FALSE, TRUE),
      Input("admin", "GET", "viewer", FALSE, TRUE),
      Input("admin", "GET", "admin", FALSE, TRUE),
      Input("nowhere", "OPTIONS", NoUser, FALSE, TRUE),
      Input("web/", "DELETE", NoUser, FALSE, TRUE),
      Input("/fetch", "GET", NoUser, FALSE, TRUE),
      Input("/readiness", "GET", NoUser, FALSE, TRUE) }

LoginOf(u) == Input("login", "POST", u, FALSE, TRUE)

MaySend == q1 :> Samples @@ q2 :> {LoginOf("editor")}
AllSent == UNION { MaySend[q] : q \in Requests }

=============================================================================
