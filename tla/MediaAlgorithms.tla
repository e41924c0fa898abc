-------------------------- MODULE MediaAlgorithms --------------------------
(***************************************************************************)
(* The algorithms that requests run over the bytes they have read.  They   *)
(* share nothing: a behaviour analyses a file, or embeds and detects in a  *)
(* carrier, or canonises a grid, and leaves the others where they start.   *)
(***************************************************************************)
EXTENDS AudioAnalysis, LsbCodec, GridRotation

VARIABLE task

vars == <<task, audioVars, codecVars, gridVars>>

\* Some initial state of each algorithm that is not at work.
AudioRests == AudioInit /\ length = CHOOSE n \in Lengths : n >= 44
CodecRests == CodecInit /\ Len(text) = CHOOSE n \in Capacities : TRUE
GridRests  == GridInit /\ bits = {}

Init ==
    \/ task = "audio" /\ AudioInit /\ CodecRests /\ GridRests
    \/ task = "codec" /\ AudioRests /\ CodecInit /\ GridRests
    \/ task = "grid" /\ AudioRests /\ CodecRests /\ GridInit

Next ==
    \/ task = "audio" /\ AudioNext /\ UNCHANGED <<task, codecVars, gridVars>>
    \/ task = "codec" /\ CodecNext /\ UNCHANGED <<task, audioVars, gridVars>>
    \/ task = "grid" /\ TurnOnce /\ UNCHANGED <<task, audioVars, codecVars>>

Spec == Init /\ [][Next]_vars
=============================================================================
