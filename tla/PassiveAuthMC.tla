---------------------------- MODULE PassiveAuthMC ----------------------------
(* PassiveAuth for model checking.  No symmetry: the run checks that every   *)
(* single caller is answered.                                                *)
EXTENDS PassiveAuth, TLC
=============================================================================
