---------------------------- MODULE GridRotation ----------------------------
(***************************************************************************)
(* The canonical rotation of a video fingerprint                           *)
(* (internal/fingerprint/application/video.go): a grid of 8 by 8 bits is   *)
(* turned three times and the least of the four numbers is kept.  A grid   *)
(* is the set of the places <<y, x>> of its ones.                          *)
(***************************************************************************)
EXTENDS Integers, FiniteSets

CONSTANT N   \* 8 in the code

ASSUME SideAssumption == N \in Nat

VARIABLES
    bits,      \* the grid as it was sampled
    current,   \* turned so often
    best,      \* the least so far
    turns

gridVars == <<bits, current, best, turns>>

Places == (0 .. N - 1) \X (0 .. N - 1)

\* As numbers the one is less that lacks the highest bit in which they differ;
\* the bit of <<y, x>> is y * N + x.
Below(p, q) == p[1] < q[1] \/ (p[1] = q[1] /\ p[2] < q[2])
Less(a, b) ==
    \E p \in b \ a : \A q \in (a \ b) \cup (b \ a) : q = p \/ Below(q, p)

\* Broken forms (named Bug...) stand before the definition they would replace.

\* The grid is mirrored along its diagonal.
BugTurn(g) == {<<p[2], p[1]>> : p \in g}

Turn(g) == {<<p[2], N - 1 - p[1]>> : p \in g}

GridInit ==
    /\ bits \in SUBSET Places
    /\ current = bits
    /\ best = bits
    /\ turns = 0

TurnOnce ==
    /\ turns < 3
    /\ turns' = turns + 1
    /\ current' = Turn(current)
    /\ best' = IF Less(current', best) THEN current' ELSE best
    /\ UNCHANGED bits

-----------------------------------------------------------------------------
(* Properties. *)

\* The four rotations of a grid, each by its own formula.
Rotations(g) ==
    {g, {<<p[2], N - 1 - p[1]>> : p \in g},
        {<<N - 1 - p[1], N - 1 - p[2]>> : p \in g},
        {<<N - 1 - p[2], p[1]>> : p \in g}}

\* What is kept is one of the rotations and none of them is less: rotated grids
\* have the same fingerprint, and different fingerprints tell grids apart that
\* are no rotations of one another.
BestIsCanonical ==
    turns = 3 => best \in Rotations(bits) /\ \A g \in Rotations(bits) : ~Less(g, best)
=============================================================================
