-------------------------- MODULE AccountDeletionMC --------------------------
(* AccountDeletion for model checking.  No symmetry: the run checks that the *)
(* queue drains.                                                             *)
EXTENDS AccountDeletion, TLC
=============================================================================
