----------------------------- MODULE MCLimiter -----------------------------
(***************************************************************************)
(* A small instance of Limiter for TLC.                                    *)
(***************************************************************************)
EXTENDS Limiter, TLC

Symmetry == Permutations(Requests) \cup Permutations(Clients)
=============================================================================
