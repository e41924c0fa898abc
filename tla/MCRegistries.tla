---------------------------- MODULE MCRegistries ----------------------------
(***************************************************************************)
(* A small instance of Registries for TLC.                                 *)
(***************************************************************************)
EXTENDS Registries, TLC

Symmetry == Permutations(Requests)
=============================================================================
