----------------------------- MODULE MCJobWatch -----------------------------
(***************************************************************************)
(* A small instance of JobWatch for TLC.                                   *)
(***************************************************************************)
EXTENDS JobWatch

MCDefaulted == {0}
=============================================================================
