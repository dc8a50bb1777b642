--------------------------- MODULE MCRateLimiter ----------------------------
(* RateLimiter on small sets for TLC. *)
EXTENDS RateLimiter, TLC

Symmetry == Permutations(Reqs) \cup Permutations(Hosts) \cup Permutations(Salts)
=============================================================================
