--------------------------- MODULE AttemptLimiterMC ---------------------------
(* AttemptLimiter with interchangeable requests.                             *)
EXTENDS AttemptLimiter, TLC

Symmetric == Permutations(Requests)
=============================================================================
