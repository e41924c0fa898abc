----------------------------- MODULE MCJobQueue -----------------------------
(***************************************************************************)
(* Small instances of JobQueue for TLC.                                    *)
(***************************************************************************)
EXTENDS JobQueue, TLC

\* Values of Job.MaxAttempts: left to the default, nonsense, or asked for.
MCDefaulted == {0}
MCOnce      == {-1}
MCAnyMax    == {-1, 0, 1}

\* Only for runs without a liveness property.
Symmetry == Permutations(Jobs) \cup Permutations(Workers) \cup Permutations(Cancellers)
=============================================================================
