--------------------------- MODULE MCRateLimiter ---------------------------
(* Instances of RateLimiter for TLC. *)
EXTENDS RateLimiter, TLC

Interchangeable == Permutations(Requests) \cup Permutations(IPs)
=============================================================================
