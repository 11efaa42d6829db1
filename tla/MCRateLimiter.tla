--------------------------- MODULE MCRateLimiter ---------------------------
(* A small instance of RateLimiter. *)
EXTENDS RateLimiter, TLC

SmallLimits == [t \in Tier |-> IF t = "pro" THEN 2 ELSE 1]

(* Requests are alike, and so are the numbers drawn. *)
Alike == Permutations(Request) \cup Permutations(Rand)
============================================================================
