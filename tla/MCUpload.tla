------------------------------ MODULE MCUpload ------------------------------
(***************************************************************************)
(* A small instance of Upload for TLC.                                     *)
(***************************************************************************)
EXTENDS Upload, TLC

\* Chunks of up to two bytes of two values, the empty chunk of a retried
\* completion included.
MCPayloads == UNION {[1..n -> Bytes] : n \in 0..2}
MCOffsets  == -1..MaxBytes
MCSizes    == 0..(MaxBytes + 1)

Symmetry == Permutations(Requests) \cup Permutations(Bytes)
=============================================================================
