------------------------- MODULE MCMediaAlgorithms -------------------------
(***************************************************************************)
(* A small instance of MediaAlgorithms for TLC.                            *)
(***************************************************************************)
EXTENDS MediaAlgorithms

A   == Letter("a")
Bar == Letter("|")

MCClaims == {<<A>>, <<A, Bar, A>>}
MCValues == {<<A>>, <<A, Bar, A>>, <<A, A, A, A>>}

\* Of the strings of four characters, letters, separators and the signature of
\* one of the payloads, those that begin with a letter; with padding, their
\* payloads have lengths that wrap.
S == Sign(Joined(<< <<A>>, <<A>>, <<A, Bar, A>> >>))
Strings(n) == {<<A>> \o s : s \in [1 .. n -> {A, NUL, S}]}
Padding == [i \in 1 .. 8 |-> A]
MCNonces == {<<A>>, <<A, Bar, A>>, <<A, NUL>>, <<A, S>>}
              \cup {s \o Padding : s \in Strings(3)}
=============================================================================
