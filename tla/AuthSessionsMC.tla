---------------------------- MODULE AuthSessionsMC ----------------------------
(* AuthSessions with interchangeable requests.                               *)
EXTENDS AuthSessions, TLC

Symmetric == Permutations(Requests)
=============================================================================
