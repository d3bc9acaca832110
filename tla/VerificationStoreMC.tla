------------------------- MODULE VerificationStoreMC -------------------------
(* VerificationStore on two accounts and two documents.                      *)
EXTENDS VerificationStore, TLC

Symmetric == Permutations(Contributors) \cup Permutations(Documents)
=============================================================================
