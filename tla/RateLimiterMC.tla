--------------------------- MODULE RateLimiterMC ---------------------------
(* Two clients that do not affect each other, a window of two ticks with   *)
(* two requests, and time for three windows and a cleanup between them.    *)
EXTENDS RateLimiter, TLC

Symmetry == Permutations(Clients)

=============================================================================
