--------------------------- MODULE ChallengeStoreMC ---------------------------
(* ChallengeStore with interchangeable accounts.                             *)
EXTENDS ChallengeStore, TLC

Symmetric == Permutations(Contributors)
=============================================================================
