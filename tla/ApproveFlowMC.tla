---------------------------- MODULE ApproveFlowMC ----------------------------
(* ApproveFlow with interchangeable requests and challenge ids.              *)
EXTENDS ApproveFlow, TLC

Symmetric == Permutations(Handlers) \cup Permutations(Challenges)
=============================================================================
