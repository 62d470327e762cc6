---------------------------- MODULE MCRateLimiter ----------------------------
(* RateLimiter for TLC: the requests of one client are interchangeable. *)
EXTENDS RateLimiter, TLC

RequestSymmetry == Permutations(Requests)

===============================================================================
