----------------------- MODULE MediaAlgorithmsProofs -----------------------
(***************************************************************************)
(* Proofs about MediaAlgorithms: the codec for all strings that clients    *)
(* write, all capacities and any width of the length field; the rotations  *)
(* for grids of any side; and that what AudioAnalysisProofs shows of the   *)
(* analysis of a file holds where it runs beside the others.               *)
(***************************************************************************)
EXTENDS MediaAlgorithms, AudioAnalysisProofs, SequenceTheorems, WellFoundedInduction

-----------------------------------------------------------------------------
(* Induction. *)

\* A set of natural numbers that is not empty has a least element.
LEMMA LeastNumber ==
    ASSUME NEW S \in SUBSET Nat, S # {}
    PROVE  \E m \in S : \A k \in S : m <= k
<1> DEFINE Smaller == {ss \in Nat \X Nat : ss[1] < ss[2]}
<1>1. IsWellFoundedOn(Smaller, Nat)
    BY NatLessThanWellFounded DEF OpToRel
<1> HIDE DEF Smaller
<1>2. PICK m \in S : \A k \in S : <<k, m>> \notin Smaller
    BY <1>1, WFMin, Zenon
<1>3. ASSUME NEW k \in S, ~(m <= k) PROVE FALSE
    <2>1. k \in Nat /\ m \in Nat /\ k < m
        BY <1>3
    <2>2. <<k, m>> \in Smaller
        BY <2>1 DEF Smaller
    <2>3. QED BY <1>2, <2>2
<1>4. QED BY <1>3

\* Induction over the natural numbers, for sets.
LEMMA NatSetInduction ==
    ASSUME NEW S \in SUBSET Nat, 0 \in S, \A n \in S : n + 1 \in S
    PROVE  S = Nat
<1> SUFFICES ASSUME Nat \ S # {} PROVE FALSE
    OBVIOUS
<1>1. (Nat \ S) \in SUBSET Nat
    OBVIOUS
<1>2. PICK m \in Nat \ S : \A k \in Nat \ S : m <= k
    BY <1>1, LeastNumber
<1>3. m # 0 /\ m - 1 \in Nat /\ ~(m <= m - 1)
    OBVIOUS
<1>4. m - 1 \in S
    BY <1>2, <1>3
<1>5. QED BY <1>3, <1>4

\* What appending an element does to a sequence.
LEMMA Appended ==
    ASSUME NEW C, NEW f \in Seq(C), NEW c \in C
    PROVE  /\ Append(f, c) \in Seq(C)
           /\ Len(Append(f, c)) = Len(f) + 1
           /\ \A i \in 1 .. Len(f) : Append(f, c)[i] = f[i]
           /\ Append(f, c)[Len(f) + 1] = c
<1>1. /\ Append(f, c) \in Seq(C)
      /\ Len(Append(f, c)) = Len(f) + 1
    BY AppendProperties
<1>2. \A i \in 1 .. Len(f) : Append(f, c)[i] = f[i]
    BY AppendProperties
<1>3. Append(f, c)[Len(f) + 1] = c
    BY AppendProperties
<1>4. QED BY <1>1, <1>2, <1>3

\* A sequence is its last element appended to what comes before it.
LEMMA Rebuilt ==
    ASSUME NEW C, NEW f \in Seq(C), NEW c \in C, NEW s \in Seq(C),
           Len(s) = Len(f) + 1, c = s[Len(f) + 1],
           \A i \in 1 .. Len(f) : f[i] = s[i]
    PROVE  s = Append(f, c)
<1>1. Append(f, c) \in Seq(C) /\ Len(Append(f, c)) = Len(s)
    BY Appended
<1>2. \A i \in 1 .. Len(f) : Append(f, c)[i] = s[i]
    BY Appended
<1>3. Append(f, c)[Len(f) + 1] = s[Len(f) + 1]
    BY Appended
<1>4. \A i \in 1 .. Len(s) : i \in 1 .. Len(f) \/ i = Len(f) + 1
    BY LenProperties
<1>5. \A i \in 1 .. Len(s) : s[i] = Append(f, c)[i]
    BY <1>2, <1>3, <1>4
<1>6. QED BY <1>1, <1>5, SeqEqual

\* The beginning of a sequence, cut before its last element.
LEMMA Beginning ==
    ASSUME NEW C, NEW n \in Nat, NEW s \in Seq(C), Len(s) = n + 1
    PROVE  /\ SubSeq(s, 1, n) \in Seq(C)
           /\ Len(SubSeq(s, 1, n)) = n
           /\ \A i \in 1 .. n : SubSeq(s, 1, n)[i] = s[i]
<1>1. \A i \in 1 .. n : s[i] \in C
    OBVIOUS
<1>2. SubSeq(s, 1, n) = [i \in 1 .. n |-> s[i]]
    OBVIOUS
<1>3. [i \in 1 .. n |-> s[i]] \in Seq(C) /\ Len([i \in 1 .. n |-> s[i]]) = n
    BY <1>1
<1>4. QED BY <1>2, <1>3

\* Induction over sequences, for sets.
LEMMA SeqSetInduction ==
    ASSUME NEW C, NEW T \in SUBSET Seq(C), <<>> \in T,
           \A s \in T, c \in C : Append(s, c) \in T
    PROVE  T = Seq(C)
<1> DEFINE Good == {n \in Nat : \A s \in Seq(C) : Len(s) = n => s \in T}
<1>1. 0 \in Good
    BY EmptySeq
<1>2. ASSUME NEW n \in Good, NEW s \in Seq(C), Len(s) = n + 1
      PROVE  s \in T
    <2> DEFINE f == SubSeq(s, 1, n)
               c == s[n + 1]
    <2>1. c \in C
        BY <1>2
    <2>2. f \in Seq(C) /\ Len(f) = n /\ \A i \in 1 .. n : f[i] = s[i]
        BY <1>2, Beginning
    <2>3. c = s[n + 1] /\ n \in Nat /\ s \in Seq(C) /\ Len(s) = n + 1
        BY <1>2
    <2> HIDE DEF f, c
    <2>4. s = Append(f, c)
        BY <2>1, <2>2, <2>3, Rebuilt
    <2>5. f \in T
        BY <1>2, <2>2
    <2>6. QED BY <2>1, <2>4, <2>5
<1>3. ASSUME NEW n \in Good PROVE n + 1 \in Good
    <2>1. n + 1 \in Nat
        OBVIOUS
    <2>2. \A s \in Seq(C) : Len(s) = n + 1 => s \in T
        BY <1>2
    <2>3. QED BY <2>1, <2>2
<1>4. Good = Nat
    <2> HIDE DEF Good
    <2>1. Good \in SUBSET Nat
        BY DEF Good
    <2>2. QED BY <1>1, <1>3, <2>1, NatSetInduction
<1>5. ASSUME NEW s \in Seq(C) PROVE s \in T
    <2>1. Len(s) \in Good
        BY <1>4, LenProperties
    <2>2. QED BY <2>1
<1>6. QED BY <1>5

-----------------------------------------------------------------------------
(* Splitting a string. *)

\* f is the run of Split's loop over the first n characters of s.
Splits(f, s, n) ==
    f = [i \in 0 .. n |-> IF i = 0 THEN << <<>> >> ELSE Grow(f[i - 1], s[i])]

\* The loop can be run over any number of characters.
LEMMA SplitsExists ==
    ASSUME NEW s, NEW n \in Nat PROVE \E f : Splits(f, s, n)
<1> DEFINE S == {k \in Nat : \E f : Splits(f, s, k)}
<1>1. 0 \in S
    <2>1. Splits([i \in 0..0 |-> << <<>> >>], s, 0)
        BY DEF Splits
    <2>2. QED BY <2>1
<1>2. ASSUME NEW k \in S PROVE k + 1 \in S
    <2>1. PICK f : Splits(f, s, k)
        OBVIOUS
    <2> DEFINE g == [i \in 0 .. k + 1 |-> IF i = k + 1 THEN Grow(f[k], s[k + 1]) ELSE f[i]]
    <2>2. \A i \in 0 .. k : g[i] = f[i]
        OBVIOUS
    <2>3. \A i \in 0 .. k + 1 : g[i] = IF i = 0 THEN << <<>> >> ELSE Grow(g[i - 1], s[i])
        <3> SUFFICES ASSUME NEW i \in 0 .. k + 1
                     PROVE  g[i] = IF i = 0 THEN << <<>> >> ELSE Grow(g[i - 1], s[i])
            OBVIOUS
        <3>1. CASE i = k + 1
            <4>1. g[i - 1] = f[k] /\ i # 0
                BY <3>1, <2>2
            <4>2. QED BY <3>1, <4>1
        <3>2. CASE i # k + 1
            <4>1. f[i] = IF i = 0 THEN << <<>> >> ELSE Grow(f[i - 1], s[i])
                BY <2>1, <3>2 DEF Splits
            <4>2. i # 0 => g[i - 1] = f[i - 1]
                BY <2>2, <3>2
            <4>3. QED BY <2>2, <3>2, <4>1, <4>2
        <3>3. QED BY <3>1, <3>2
    <2> HIDE DEF g
    <2>4. g = [i \in 0 .. k + 1 |-> g[i]]
        BY DEF g
    <2>5. Splits(g, s, k + 1)
        BY <2>3, <2>4 DEF Splits
    <2>6. QED BY <2>5
<1> HIDE DEF S
<1>3. S = Nat
    <2>1. S \in SUBSET Nat BY DEF S
    <2>2. QED BY <1>1, <1>2, <2>1, NatSetInduction
<1>4. QED BY <1>3 DEF S

\* Two runs of it over strings that begin alike agree as far as these do.
LEMMA SplitsAgree ==
    ASSUME NEW f, NEW g, NEW s, NEW t, NEW m \in Nat, NEW n \in Nat, NEW k \in Nat,
           Splits(f, s, m), Splits(g, t, n), k <= m, k <= n,
           \A i \in 1 .. k : s[i] = t[i]
    PROVE  f[k] = g[k]
<1> DEFINE S == {j \in Nat : j <= k => f[j] = g[j]}
<1>1. 0 \in S
    BY DEF Splits
<1>2. ASSUME NEW j \in S PROVE j + 1 \in S
    <2> SUFFICES ASSUME j + 1 <= k PROVE f[j + 1] = g[j + 1]
        OBVIOUS
    <2>1. f[j + 1] = Grow(f[j], s[j + 1]) /\ g[j + 1] = Grow(g[j], t[j + 1])
        <3>1. j + 1 \in 0 .. m /\ j + 1 \in 0 .. n /\ j + 1 # 0 /\ (j + 1) - 1 = j
            OBVIOUS
        <3>2. QED BY <3>1 DEF Splits
    <2>2. s[j + 1] = t[j + 1] /\ f[j] = g[j]
        OBVIOUS
    <2>3. QED BY <2>1, <2>2
<1> HIDE DEF S
<1>3. S = Nat
    <2>1. S \in SUBSET Nat BY DEF S
    <2>2. QED BY <1>1, <1>2, <2>1, NatSetInduction
<1>4. QED BY <1>3 DEF S

\* Split is what a run over the whole string ends with.
LEMMA SplitIsRun ==
    ASSUME NEW C, NEW s \in Seq(C) PROVE \E f : Splits(f, s, Len(s)) /\ Split(s) = f[Len(s)]
<1> DEFINE f == CHOOSE f : Splits(f, s, Len(s))
<1>1. Splits(f, s, Len(s))
    <2>1. \E g : Splits(g, s, Len(s))
        BY SplitsExists, LenProperties
    <2>2. QED BY <2>1
<1>2. Split(s) = f[Len(s)]
    BY Zenon DEF Split, Splits
<1>3. QED BY <1>1, <1>2

\* Split of a sequence is one turn of the loop after Split of all but its end.
LEMMA SplitAppend ==
    ASSUME NEW C
    PROVE  /\ Split(<<>>) = << <<>> >>
           /\ \A s \in Seq(C), c \in C : Split(Append(s, c)) = Grow(Split(s), c)
<1>1. Split(<<>>) = << <<>> >>
    <2>1. <<>> \in Seq(C) /\ Len(<<>>) = 0
        OBVIOUS
    <2>2. PICK f : Splits(f, <<>>, Len(<<>>)) /\ Split(<<>>) = f[Len(<<>>)]
        BY <2>1, SplitIsRun
    <2>3. QED BY <2>1, <2>2 DEF Splits
<1>2. ASSUME NEW s \in Seq(C), NEW c \in C
      PROVE  Split(Append(s, c)) = Grow(Split(s), c)
    <2> DEFINE t == Append(s, c)
               n == Len(s)
    <2>1. /\ t \in Seq(C) /\ Len(t) = n + 1 /\ n \in Nat /\ t[n + 1] = c
          /\ \A i \in 1 .. n : s[i] = t[i]
        BY AppendProperties
    <2>2. PICK f : Splits(f, s, n) /\ Split(s) = f[n]
        BY SplitIsRun
    <2> HIDE DEF t, n
    <2>3. PICK g : Splits(g, t, n + 1) /\ Split(t) = g[n + 1]
        BY <2>1, SplitIsRun
    <2>4. g[n + 1] = Grow(g[n], t[n + 1])
        <3>1. n + 1 \in 0 .. n + 1 /\ n + 1 # 0 /\ (n + 1) - 1 = n
            BY <2>1
        <3>2. QED BY <2>3, <3>1 DEF Splits
    <2>5. f[n] = g[n]
        BY <2>1, <2>2, <2>3, SplitsAgree
    <2>6. QED BY <2>1, <2>2, <2>3, <2>4, <2>5 DEF t
<1>3. QED BY <1>1, <1>2

\* One turn of the loop: a separator adds an empty part.
LEMMA GrowSeparator ==
    ASSUME NEW C, NEW parts \in Seq(Seq(C)), Len(parts) >= 1
    PROVE  /\ Grow(parts, NUL) \in Seq(Seq(C))
           /\ Len(Grow(parts, NUL)) = Len(parts) + 1
           /\ Grow(parts, NUL)[Len(parts) + 1] = <<>>
           /\ \A k \in 1 .. Len(parts) : Grow(parts, NUL)[k] = parts[k]
<1>1. Grow(parts, NUL) = Append(parts, <<>>) /\ <<>> \in Seq(C)
    BY EmptySeq DEF Grow
<1>2. QED BY <1>1, AppendProperties

\* Another character goes to the end of the last part.
LEMMA GrowCharacter ==
    ASSUME NEW C, NEW parts \in Seq(Seq(C)), Len(parts) >= 1, NEW c \in C, c # NUL
    PROVE  /\ Grow(parts, c) \in Seq(Seq(C))
           /\ Len(Grow(parts, c)) = Len(parts)
           /\ Grow(parts, c)[Len(parts)] = Append(parts[Len(parts)], c)
           /\ \A k \in 1 .. Len(parts) : k # Len(parts) => Grow(parts, c)[k] = parts[k]
<1>1. /\ Len(parts) \in Nat /\ Len(parts) \in 1 .. Len(parts)
      /\ parts[Len(parts)] \in Seq(C)
    BY LenProperties, ElementOfSeq
<1> DEFINE x == Append(parts[Len(parts)], c)
           n == Len(parts)
<1>2. x \in Seq(C)
    BY <1>1, AppendProperties
<1>3. Grow(parts, c) = [parts EXCEPT ![n] = x]
    BY <1>1 DEF Grow
<1> HIDE DEF x
<1>4. /\ [parts EXCEPT ![n] = x] \in Seq(Seq(C))
      /\ Len([parts EXCEPT ![n] = x]) = n
      /\ \A j \in 1 .. n : [parts EXCEPT ![n] = x][j] = IF j = n THEN x ELSE parts[j]
    BY <1>1, <1>2, ExceptSeq
<1> HIDE DEF n
<1>5. /\ [parts EXCEPT ![n] = x][n] = x
      /\ \A j \in 1 .. n : j # n => [parts EXCEPT ![n] = x][j] = parts[j]
    <2>1. n \in 1 .. n
        BY <1>1 DEF n
    <2>2. QED BY <1>4, <2>1
<1>6. QED BY <1>3, <1>4, <1>5 DEF n, x

\* Either way what comes out are parts, no fewer than before.
LEMMA GrowType ==
    ASSUME NEW C, NEW parts \in Seq(Seq(C)), Len(parts) >= 1, NEW c \in C
    PROVE  Grow(parts, c) \in Seq(Seq(C)) /\ Len(Grow(parts, c)) >= 1
<1>1. Len(parts) \in Nat
    BY LenProperties
<1>2. CASE c = NUL
    BY <1>1, <1>2, GrowSeparator
<1>3. CASE c # NUL
    BY <1>3, GrowCharacter
<1>4. QED BY <1>2, <1>3

\* A split string is a sequence of strings, one at least (lsb.go 82-92).
LEMMA SplitType ==
    ASSUME NEW C, NEW s \in Seq(C) PROVE Split(s) \in Seq(Seq(C)) /\ Len(Split(s)) >= 1
<1> DEFINE T == {t \in Seq(C) : Split(t) \in Seq(Seq(C)) /\ Len(Split(t)) >= 1}
<1>1. <<>> \in T
    <2>1. Split(<<>>) = << <<>> >> /\ <<>> \in Seq(C)
        BY SplitAppend, EmptySeq
    <2>2. << <<>> >> \in Seq(Seq(C)) /\ Len(<< <<>> >>) >= 1
        BY <2>1
    <2>3. Split(<<>>) \in Seq(Seq(C)) /\ Len(Split(<<>>)) >= 1
        BY <2>1, <2>2
    <2>4. QED BY <2>1, <2>3, Zenon
<1>2. ASSUME NEW t \in T, NEW c \in C PROVE Append(t, c) \in T
    <2>1. Append(t, c) \in Seq(C) /\ Split(Append(t, c)) = Grow(Split(t), c)
        BY SplitAppend
    <2>2. Grow(Split(t), c) \in Seq(Seq(C)) /\ Len(Grow(Split(t), c)) >= 1
        BY GrowType
    <2>3. QED BY <2>1, <2>2
<1> HIDE DEF T
<1>3. T = Seq(C)
    <2>1. T \in SUBSET Seq(C) BY DEF T
    <2>2. QED BY <1>1, <1>2, <2>1, SeqSetInduction
<1>4. QED BY <1>3 DEF T

\* Parts in front of those that grow are left alone.
LEMMA GrowConcat ==
    ASSUME NEW C, NEW p \in Seq(Seq(C)), NEW q \in Seq(Seq(C)), Len(q) >= 1, NEW c \in C
    PROVE  Grow(p \o q, c) = p \o Grow(q, c)
<1> DEFINE x == p \o q
           g == Grow(q, c)
           h == Grow(x, c)
           y == p \o g
<1>1. /\ x \in Seq(Seq(C)) /\ Len(x) = Len(p) + Len(q)
      /\ \A i \in 1 .. Len(p) + Len(q) : x[i] = IF i <= Len(p) THEN p[i] ELSE q[i - Len(p)]
    BY ConcatProperties
<1>2. Len(p) \in Nat /\ Len(q) \in Nat /\ Len(x) >= 1
    BY <1>1, LenProperties
<1> HIDE DEF x
<1>3. g \in Seq(Seq(C)) /\ h \in Seq(Seq(C)) /\ Len(g) \in Nat
    <2>1. g \in Seq(Seq(C))
        BY GrowType
    <2>2. h \in Seq(Seq(C))
        BY <1>1, <1>2, GrowType
    <2>3. QED BY <2>1, <2>2, LenProperties
<1> HIDE DEF g, h
<1>4. /\ y \in Seq(Seq(C)) /\ Len(y) = Len(p) + Len(g)
      /\ \A i \in 1 .. Len(p) + Len(g) : y[i] = IF i <= Len(p) THEN p[i] ELSE g[i - Len(p)]
    BY <1>3, ConcatProperties
<1> HIDE DEF y
<1>5. Len(h) = Len(y) /\ \A i \in 1 .. Len(h) : h[i] = y[i]
    <2>1. CASE c = NUL
        <3>1. /\ Len(g) = Len(q) + 1 /\ g[Len(q) + 1] = <<>>
              /\ \A k \in 1 .. Len(q) : g[k] = q[k]
            BY <2>1, GrowSeparator DEF g
        <3>2. /\ Len(h) = Len(x) + 1 /\ h[Len(x) + 1] = <<>>
              /\ \A k \in 1 .. Len(x) : h[k] = x[k]
            BY <1>1, <1>2, <2>1, GrowSeparator DEF h
        <3>3. ASSUME NEW i \in 1 .. Len(h) PROVE h[i] = y[i]
            <4>1. CASE i = Len(x) + 1
                <5>1. i \in 1 .. Len(p) + Len(g) /\ ~(i <= Len(p)) /\ i - Len(p) = Len(q) + 1
                    BY <1>1, <1>2, <3>1, <4>1
                <5>2. y[i] = g[Len(q) + 1]
                    BY <1>4, <5>1
                <5>3. QED BY <3>1, <3>2, <4>1, <5>2
            <4>2. CASE i \in 1 .. Len(x)
                <5>1. i \in 1 .. Len(p) + Len(g) /\ i \in 1 .. Len(p) + Len(q)
                    BY <1>1, <1>2, <3>1, <4>2
                <5>2. CASE i <= Len(p)
                    BY <1>1, <1>4, <3>2, <4>2, <5>1, <5>2
                <5>3. CASE ~(i <= Len(p))
                    <6>1. i - Len(p) \in 1 .. Len(q)
                        BY <1>2, <5>1, <5>3
                    <6>2. x[i] = q[i - Len(p)] /\ y[i] = g[i - Len(p)]
                        BY <1>1, <1>4, <5>1, <5>3
                    <6>3. QED BY <3>1, <3>2, <4>2, <6>1, <6>2
                <5>4. QED BY <5>2, <5>3
            <4>3. i = Len(x) + 1 \/ i \in 1 .. Len(x)
                <5>1. Len(x) \in Nat
                    BY <1>1, <1>2
                <5>2. QED BY <3>2, <5>1
            <4>4. QED BY <4>1, <4>2, <4>3
        <3>4. QED BY <1>1, <1>2, <1>4, <3>1, <3>2, <3>3
    <2>2. CASE c # NUL
        <3>1. /\ Len(g) = Len(q) /\ g[Len(q)] = Append(q[Len(q)], c)
              /\ \A k \in 1 .. Len(q) : k # Len(q) => g[k] = q[k]
            BY <2>2, GrowCharacter DEF g
        <3>2. /\ Len(h) = Len(x) /\ h[Len(x)] = Append(x[Len(x)], c)
              /\ \A k \in 1 .. Len(x) : k # Len(x) => h[k] = x[k]
            BY <1>1, <1>2, <2>2, GrowCharacter DEF h
        <3>3. ASSUME NEW i \in 1 .. Len(h) PROVE h[i] = y[i]
            <4>1. i \in 1 .. Len(p) + Len(g) /\ i \in 1 .. Len(p) + Len(q)
                BY <1>1, <1>2, <3>1, <3>2
            <4>2. CASE i = Len(x)
                <5>1. ~(i <= Len(p)) /\ i - Len(p) = Len(q)
                    BY <1>1, <1>2, <4>2
                <5>2. x[i] = q[Len(q)] /\ y[i] = g[Len(q)]
                    BY <1>1, <1>4, <4>1, <5>1
                <5>3. QED BY <3>1, <3>2, <4>2, <5>2
            <4>3. CASE i # Len(x) /\ i <= Len(p)
                BY <1>1, <1>4, <3>2, <4>1, <4>3
            <4>4. CASE i # Len(x) /\ ~(i <= Len(p))
                <5>1. i - Len(p) \in 1 .. Len(q) /\ i - Len(p) # Len(q)
                    BY <1>1, <1>2, <4>1, <4>4
                <5>2. x[i] = q[i - Len(p)] /\ y[i] = g[i - Len(p)]
                    BY <1>1, <1>4, <4>1, <4>4
                <5>3. h[i] = x[i]
                    BY <1>1, <3>2, <4>1, <4>4
                <5>4. QED BY <3>1, <5>1, <5>2, <5>3
            <4>5. QED BY <4>2, <4>3, <4>4
        <3>4. QED BY <1>1, <1>2, <1>4, <3>1, <3>2, <3>3
    <2>3. QED BY <2>1, <2>2
<1>6. h = y
    BY <1>3, <1>4, <1>5, SeqEqual
<1>7. QED BY <1>6 DEF h, g, x, y

\* A string grows at its end, whatever stands before it.
LEMMA ConcatAppend ==
    ASSUME NEW C, NEW b \in Seq(C), NEW t \in Seq(C), NEW c \in C
    PROVE  b \o Append(t, c) = Append(b \o t, c)
<1> DEFINE e == <<c>>
<1>1. e \in Seq(C)
    OBVIOUS
<1>2. b \o t \in Seq(C)
    BY ConcatProperties
<1>3. Append(t, c) = t \o e /\ Append(b \o t, c) = (b \o t) \o e
    BY <1>2, AppendIsConcat
<1> HIDE DEF e
<1>4. (b \o t) \o e = b \o (t \o e)
    BY <1>1, ConcatAssociative
<1>5. QED BY <1>3, <1>4

\* Split of two strings with a separator between them: the parts of the one and
\* then those of the other.
LEMMA SplitJoined ==
    ASSUME NEW C, NUL \in C, NEW s \in Seq(C), NEW u \in Seq(C)
    PROVE  Split(s \o <<NUL>> \o u) = Split(s) \o Split(u)
<1> DEFINE b == s \o <<NUL>>
           T == {t \in Seq(C) : Split(b \o t) = Split(s) \o Split(t)}
<1>1. b \in Seq(C) /\ b = Append(s, NUL)
    <2>1. <<NUL>> \in Seq(C)
        OBVIOUS
    <2>2. QED BY <2>1, AppendIsConcat, ConcatProperties
<1>2. Split(s) \in Seq(Seq(C)) /\ Len(Split(s)) >= 1
    BY SplitType
<1>3. <<>> \in T
    <2>1. b \o <<>> = b
        BY <1>1, ConcatEmptySeq
    <2>2. Split(b) = Append(Split(s), <<>>)
        BY <1>1, SplitAppend DEF Grow
    <2>3. Append(Split(s), <<>>) = Split(s) \o << <<>> >>
        <3>1. <<>> \in Seq(C)
            BY EmptySeq
        <3>2. QED BY <1>2, <3>1, AppendIsConcat
    <2>4. Split(<<>>) = << <<>> >> /\ <<>> \in Seq(C)
        BY SplitAppend, EmptySeq
    <2>5. QED BY <2>1, <2>2, <2>3, <2>4
<1>4. ASSUME NEW t \in T, NEW c \in C PROVE Append(t, c) \in T
    <2>1. t \in Seq(C) /\ Split(b \o t) = Split(s) \o Split(t)
        BY <1>4
    <2> HIDE DEF T, b
    <2>2. b \o Append(t, c) = Append(b \o t, c)
        BY <1>1, <2>1, ConcatAppend
    <2>3. Split(b \o Append(t, c)) = Grow(Split(s) \o Split(t), c)
        <3>1. b \o t \in Seq(C)
            BY <1>1, <2>1, ConcatProperties
        <3>2. QED BY <2>1, <2>2, <3>1, SplitAppend
    <2>4. Split(Append(t, c)) = Grow(Split(t), c)
        BY <2>1, SplitAppend
    <2>5. Grow(Split(s) \o Split(t), c) = Split(s) \o Grow(Split(t), c)
        <3>1. Split(t) \in Seq(Seq(C)) /\ Len(Split(t)) >= 1
            BY <2>1, SplitType
        <3>2. QED BY <1>2, <3>1, GrowConcat
    <2>6. Append(t, c) \in Seq(C)
        BY <2>1, AppendProperties
    <2>7. QED BY <2>3, <2>4, <2>5, <2>6 DEF T
<1> HIDE DEF T
<1>5. T = Seq(C)
    <2>1. T \in SUBSET Seq(C) BY DEF T
    <2>2. QED BY <1>3, <1>4, <2>1, SeqSetInduction
<1>6. QED BY <1>5 DEF T

\* A string without a separator is its only part, another has two or more, and
\* the parts hold no character that the string does not hold.
LEMMA SplitParts ==
    ASSUME NEW C, NEW s \in Seq(C)
    PROVE  /\ (\A i \in 1 .. Len(s) : s[i] # NUL) => Split(s) = <<s>>
           /\ (\E i \in 1 .. Len(s) : s[i] = NUL) => Len(Split(s)) >= 2
           /\ \A k \in 1 .. Len(Split(s)) : \A j \in 1 .. Len(Split(s)[k]) :
                 \E i \in 1 .. Len(s) : s[i] = Split(s)[k][j]
<1> DEFINE Whole(t) == (\A i \in 1 .. Len(t) : t[i] # NUL) => Split(t) = <<t>>
           Many(t) == (\E i \in 1 .. Len(t) : t[i] = NUL) => Len(Split(t)) >= 2
           From(t) == \A k \in 1 .. Len(Split(t)) : \A j \in 1 .. Len(Split(t)[k]) :
                         \E i \in 1 .. Len(t) : t[i] = Split(t)[k][j]
           T == {t \in Seq(C) : Whole(t) /\ Many(t) /\ From(t)}
<1>1. <<>> \in T
    <2>1. /\ Split(<<>>) = << <<>> >> /\ <<>> \in Seq(C) /\ Len(<<>>) = 0
          /\ Len(<< <<>> >>) = 1 /\ << <<>> >>[1] = <<>>
        BY SplitAppend, EmptySeq
    <2>2. QED BY <2>1
<1>2. ASSUME NEW t \in T, NEW c \in C PROVE Append(t, c) \in T
    <2>1. t \in Seq(C) /\ Whole(t) /\ Many(t) /\ From(t)
        BY <1>2
    <2> DEFINE u == Append(t, c)
               g == Split(t)
               h == Split(u)
    <2>2. /\ u \in Seq(C) /\ Len(u) = Len(t) + 1 /\ Len(t) \in Nat /\ u[Len(u)] = c
          /\ \A i \in 1 .. Len(t) : u[i] = t[i]
        BY <2>1, AppendProperties, LenProperties
    <2>3. g \in Seq(Seq(C)) /\ Len(g) >= 1 /\ Len(g) \in Nat /\ h = Grow(g, c)
        BY <2>1, SplitType, SplitAppend, LenProperties
    <2>4. CASE c = NUL
        <3>1. /\ Len(h) = Len(g) + 1 /\ h[Len(g) + 1] = <<>>
              /\ \A k \in 1 .. Len(g) : h[k] = g[k]
            <4> HIDE DEF g, h
            <4>1. QED BY <2>3, <2>4, GrowSeparator
        <3>2. Whole(u) /\ Many(u)
            BY <2>2, <2>3, <2>4, <3>1
        <3>3. From(u)
            <4> SUFFICES ASSUME NEW k \in 1 .. Len(h), NEW j \in 1 .. Len(h[k])
                         PROVE  \E i \in 1 .. Len(u) : u[i] = h[k][j]
                OBVIOUS
            <4> HIDE DEF g, h, u
            <4>1. k # Len(g) + 1
                BY <3>1, EmptySeq
            <4>2. k \in 1 .. Len(g) /\ h[k] = g[k]
                BY <2>3, <3>1, <4>1
            <4>3. PICK i \in 1 .. Len(t) : t[i] = g[k][j]
                BY <2>1, <4>2 DEF g
            <4>4. QED BY <2>2, <4>2, <4>3
        <3>4. QED BY <2>2, <3>2, <3>3
    <2>5. CASE c # NUL
        <3>1. /\ Len(h) = Len(g) /\ h[Len(g)] = Append(g[Len(g)], c)
              /\ \A k \in 1 .. Len(g) : k # Len(g) => h[k] = g[k]
            <4> HIDE DEF g, h
            <4>1. QED BY <2>3, <2>5, GrowCharacter
        <3>2. Whole(u)
            <4> SUFFICES ASSUME \A i \in 1 .. Len(u) : u[i] # NUL PROVE h = <<u>>
                OBVIOUS
            <4>1. \A i \in 1 .. Len(t) : t[i] # NUL
                BY <2>2
            <4>2. g = <<t>>
                BY <2>1, <4>1
            <4>3. Len(g) = 1 /\ g[1] = t
                BY <4>2
            <4>4. Len(h) = 1 /\ h[1] = u
                BY <3>1, <4>3
            <4>5. h \in Seq(Seq(C))
                BY <2>2, SplitType
            <4>6. h \in Seq(Seq(C)) /\ <<u>> \in Seq(Seq(C)) /\ Len(<<u>>) = 1 /\ <<u>>[1] = u
                BY <2>2, <4>5
            <4> HIDE DEF h, u
            <4>7. QED BY <4>4, <4>6, SeqEqual
        <3>3. Many(u)
            <4> SUFFICES ASSUME NEW i \in 1 .. Len(u), u[i] = NUL PROVE Len(h) >= 2
                OBVIOUS
            <4>1. i \in 1 .. Len(t) /\ t[i] = NUL
                BY <2>2, <2>5
            <4>2. QED BY <2>1, <3>1, <4>1
        <3>4. From(u)
            <4> SUFFICES ASSUME NEW k \in 1 .. Len(h), NEW j \in 1 .. Len(h[k])
                         PROVE  \E i \in 1 .. Len(u) : u[i] = h[k][j]
                OBVIOUS
            <4> HIDE DEF g, h, u
            <4>1. k \in 1 .. Len(g) /\ g[k] \in Seq(C)
                BY <2>3, <3>1, ElementOfSeq
            <4>2. CASE j \in 1 .. Len(g[k]) /\ h[k][j] = g[k][j]
                <5>1. PICK i \in 1 .. Len(t) : t[i] = g[k][j]
                    BY <2>1, <4>1, <4>2 DEF g
                <5>2. QED BY <2>2, <4>2, <5>1
            <4>3. CASE h[k][j] = c
                BY <2>2, <4>3
            <4>4. CASE k = Len(g)
                <5>1. h[k] = Append(g[k], c)
                    BY <3>1, <4>4
                <5>2. /\ Len(h[k]) = Len(g[k]) + 1 /\ h[k][Len(g[k]) + 1] = c
                      /\ \A i \in 1 .. Len(g[k]) : h[k][i] = g[k][i]
                    BY <4>1, <5>1, AppendProperties
                <5>3. Len(g[k]) \in Nat
                    BY <4>1, LenProperties
                <5>4. QED BY <4>2, <4>3, <5>2, <5>3
            <4>5. CASE k # Len(g)
                <5>1. h[k] = g[k]
                    BY <3>1, <4>1, <4>5
                <5>2. QED BY <4>2, <5>1
            <4>6. QED BY <4>4, <4>5
        <3>5. QED BY <2>2, <3>2, <3>3, <3>4
    <2>6. QED BY <2>4, <2>5
<1> HIDE DEF T
<1>3. T = Seq(C)
    <2>1. T \in SUBSET Seq(C) BY DEF T
    <2>2. QED BY <1>1, <1>2, <2>1, SeqSetInduction
<1>4. QED BY <1>3 DEF T

-----------------------------------------------------------------------------
(* The codec. *)

\* What one more element does to a sequence.
LEMMA OneMore ==
    ASSUME NEW C, NEW x \in Seq(C), NEW z \in Seq(C), Len(z) = 1
    PROVE  /\ x \o z \in Seq(C) /\ Len(x \o z) = Len(x) + 1
           /\ (x \o z)[Len(x) + 1] = z[1]
           /\ \A i \in 1 .. Len(x) : (x \o z)[i] = x[i]
<1>1. Len(x) \in Nat
  BY LenProperties
<1>2. /\ x \o z \in Seq(C) /\ Len(x \o z) = Len(x) + Len(z)
      /\ \A i \in 1 .. Len(x) + Len(z) : (x \o z)[i] = IF i <= Len(x) THEN x[i] ELSE z[i - Len(x)]
  BY ConcatProperties
<1> DEFINE n == Len(x)
         w == x \o z
<1> HIDE DEF n, w
<1>3. n \in Nat /\ w \in Seq(C) /\ Len(w) = n + 1 
 BY <1>1, <1>2 DEF n, w
<1>4. \A i \in 1 .. n + 1 : w[i] = IF i <= n THEN x[i] ELSE z[i - n]
 BY <1>2 DEF n, w
<1>5. w[n + 1] = z[1]
  <2>1. n + 1 \in 1 .. n + 1 /\ ~(n + 1 <= n) /\ (n + 1) - n = 1
     BY <1>3
  <2>2. QED BY <1>4, <2>1
<1>6. \A i \in 1 .. n : w[i] = x[i]
     BY <1>3, <1>4
<1>7. QED BY <1>3, <1>5, <1>6 DEF n, w

\* The characters Encode writes itself; only NUL separates, and a signature
\* tells what it signs.
LEMMA CharacterFacts ==
    /\ NUL \in Plain
    /\ \A a \in {"|", "?", "blind-lsb-v1"} : Letter(a) \in Plain /\ Letter(a) # NUL
    /\ \A t : Sign(t) \notin Plain /\ Sign(t) # NUL
    /\ \A t, u : Sign(t) = Sign(u) => t = u
<1>1. NUL \in Plain
    BY DEF Plain
<1>2. ASSUME NEW a \in {"|", "?", "blind-lsb-v1"} PROVE Letter(a) \in Plain /\ Letter(a) # NUL
    <2>1. Letter(a) # NUL
        BY DEF NUL, Letter
    <2>2. a \in Letters
        BY CodecAssumption
    <2>3. QED BY <2>1, <2>2 DEF Plain
<1>3. ASSUME NEW t PROVE Sign(t) \notin Plain /\ Sign(t) # NUL
    <2>1. Sign(t) # NUL
        BY DEF NUL, Sign
    <2>2. \A a : Sign(t) # Letter(a)
        BY DEF Letter, Sign
    <2>3. QED BY <2>1, <2>2 DEF Plain
<1>4. ASSUME NEW t, NEW u, Sign(t) = Sign(u) PROVE t = u
    BY <1>4 DEF Sign
<1>5. QED BY <1>1, <1>2, <1>3, <1>4

\* A sequence over a set is one over any larger set.
LEMMA SeqOfMore ==
    ASSUME NEW C, NEW D, C \subseteq D, NEW s \in Seq(C)
    PROVE  s \in Seq(D)
    OBVIOUS

\* A set of characters that a payload is written with.
Over(p, C) ==
    /\ Plain \subseteq C
    /\ p[1] \in Seq(C) /\ p[2] \in Seq(C) /\ p[3] \in Seq(C)
    /\ Sign(Joined(p)) \in C

\* An encoded payload is not empty and is written with these characters.
LEMMA EncodeFacts ==
    ASSUME NEW p, NEW C, Over(p, C)
    PROVE  Encode(p) \in Seq(C) /\ Len(Encode(p)) > 0
<1> DEFINE n == <<NUL>>
           g == Signature(p)
           l == <<Letter("blind-lsb-v1")>>
           x1 == p[1] \o n
           x2 == x1 \o p[2]
           x3 == x2 \o n
           x4 == x3 \o p[3]
           x5 == x4 \o n
           x6 == x5 \o g
           x7 == x6 \o n
           x8 == x7 \o l
<1>1. p[1] \in Seq(C) /\ p[2] \in Seq(C) /\ p[3] \in Seq(C)
    BY DEF Over
<1>2. n \in Seq(C) /\ g \in Seq(C) /\ l \in Seq(C) /\ Len(l) = 1
    <2>1. NUL \in C /\ Letter("blind-lsb-v1") \in C /\ Sign(Joined(p)) \in C
        BY CharacterFacts DEF Over
    <2>2. QED BY <2>1 DEF Signature
<1>3. Encode(p) = x8
    BY DEF Encode
<1> HIDE DEF n, g, l
<1>4. x2 \in Seq(C)
    BY <1>1, <1>2, ConcatProperties
<1> HIDE DEF x2
<1>5. x4 \in Seq(C)
    BY <1>1, <1>2, <1>4, ConcatProperties
<1> HIDE DEF x4
<1>6. x6 \in Seq(C)
    BY <1>2, <1>5, ConcatProperties
<1> HIDE DEF x6
<1>7. x7 \in Seq(C)
    BY <1>2, <1>6, ConcatProperties
<1> HIDE DEF x7
<1>8. x8 \in Seq(C) /\ Len(x8) = Len(x7) + 1 /\ Len(x7) \in Nat
    BY <1>2, <1>7, OneMore, LenProperties
<1> HIDE DEF x8
<1>9. QED BY <1>3, <1>8

\* A payload is split into what its fields are split into, its signature and
\* the algorithm.
LEMMA SplitEncode ==
    ASSUME NEW p, NEW C, Over(p, C)
    PROVE  Split(Encode(p)) = Split(p[1]) \o Split(p[2]) \o Split(p[3])
                                \o <<Signature(p)>> \o << <<Letter("blind-lsb-v1")>> >>
<1> DEFINE a == p[1]
           b == p[2]
           d == p[3]
           g == Signature(p)
           l == <<Letter("blind-lsb-v1")>>
<1>1. NUL \in C
    BY CharacterFacts DEF Over
<1>2. a \in Seq(C) /\ b \in Seq(C) /\ d \in Seq(C)
    BY DEF Over
<1>3. g \in Seq(C) /\ Split(g) = <<g>>
    <2>1. Sign(Joined(p)) \in C /\ Sign(Joined(p)) # NUL
        BY CharacterFacts DEF Over
    <2>2. g \in Seq(C) /\ \A i \in 1 .. Len(g) : g[i] # NUL
        BY <2>1 DEF Signature
    <2> HIDE DEF g
    <2>3. QED BY <2>2, SplitParts
<1>4. l \in Seq(C) /\ Split(l) = <<l>>
    <2>1. Letter("blind-lsb-v1") \in C /\ Letter("blind-lsb-v1") # NUL
        BY CharacterFacts DEF Over
    <2>2. l \in Seq(C) /\ \A i \in 1 .. Len(l) : l[i] # NUL
        BY <2>1
    <2> HIDE DEF l
    <2>3. QED BY <2>2, SplitParts
<1>5. Encode(p) = a \o <<NUL>> \o b \o <<NUL>> \o d \o <<NUL>> \o g \o <<NUL>> \o l
    BY DEF Encode
<1> HIDE DEF a, b, d, g, l
<1> DEFINE x2 == a \o <<NUL>> \o b
           x3 == x2 \o <<NUL>> \o d
           x4 == x3 \o <<NUL>> \o g
           x5 == x4 \o <<NUL>> \o l
<1>6. <<NUL>> \in Seq(C)
    BY <1>1
<1>7. x2 \in Seq(C) /\ Split(x2) = Split(a) \o Split(b)
    BY <1>1, <1>2, <1>6, ConcatProperties, SplitJoined
<1> HIDE DEF x2
<1>8. x3 \in Seq(C) /\ Split(x3) = Split(x2) \o Split(d)
    BY <1>1, <1>2, <1>6, <1>7, ConcatProperties, SplitJoined
<1> HIDE DEF x3
<1>9. x4 \in Seq(C) /\ Split(x4) = Split(x3) \o Split(g)
    BY <1>1, <1>3, <1>6, <1>8, ConcatProperties, SplitJoined
<1> HIDE DEF x4
<1>10. Split(x5) = Split(x4) \o Split(l)
    BY <1>1, <1>4, <1>6, <1>9, SplitJoined
<1>11. Encode(p) = x5
    BY <1>5 DEF x4, x3, x2
<1> HIDE DEF x5
<1>12. QED BY <1>3, <1>4, <1>7, <1>8, <1>9, <1>10, <1>11 DEF a, b, d, g, l

\* The three signed fields are free of the separator.
NoSeparator(p) == \A k \in 1..3 : ~Contains(p[k], NUL)

\* The first three of five fields, as a tuple.
LEMMA FirstThree ==
    ASSUME NEW U, NEW a \in U, NEW b \in U, NEW c \in U, NEW q \in Seq(U),
           Len(q) = 5, q[1] = a, q[2] = b, q[3] = c
    PROVE  SubSeq(q, 1, 3) = <<a, b, c>>
<1> DEFINE r == SubSeq(q, 1, 3)
<1>1. \A i \in 1..3 : q[i] \in U
    OBVIOUS
<1>2. r \in Seq(U) /\ Len(r) = 3 /\ \A i \in 1..3 : r[i] = q[i]
    BY <1>1, SubSeqProperties
<1> HIDE DEF r
<1>3. r \in Seq(U) /\ Len(r) = 3 /\ r[1] = a /\ r[2] = b /\ r[3] = c
    BY <1>2
<1>4. r = <<a, b, c>>
    BY <1>3
<1>5. QED BY <1>4 DEF r

\* Five sequences of one element in a row.
LEMMA FiveParts ==
    ASSUME NEW U, NEW a \in U, NEW b \in U, NEW c \in U, NEW d \in U, NEW e \in U
    PROVE  /\ <<a>> \o <<b>> \o <<c>> \o <<d>> \o <<e>> \in Seq(U)
           /\ Len(<<a>> \o <<b>> \o <<c>> \o <<d>> \o <<e>>) = 5
           /\ (<<a>> \o <<b>> \o <<c>> \o <<d>> \o <<e>>)[1] = a
           /\ (<<a>> \o <<b>> \o <<c>> \o <<d>> \o <<e>>)[2] = b
           /\ (<<a>> \o <<b>> \o <<c>> \o <<d>> \o <<e>>)[3] = c
           /\ (<<a>> \o <<b>> \o <<c>> \o <<d>> \o <<e>>)[4] = d
<1> DEFINE q1 == <<a>>
           b1 == <<b>>
           c1 == <<c>>
           d1 == <<d>>
           e1 == <<e>>
           q2 == q1 \o b1
           q3 == q2 \o c1
           q4 == q3 \o d1
           q == q4 \o e1
<1>1. /\ q1 \in Seq(U) /\ Len(q1) = 1 /\ q1[1] = a
      /\ b1 \in Seq(U) /\ Len(b1) = 1 /\ b1[1] = b
      /\ c1 \in Seq(U) /\ Len(c1) = 1 /\ c1[1] = c
      /\ d1 \in Seq(U) /\ Len(d1) = 1 /\ d1[1] = d
      /\ e1 \in Seq(U) /\ Len(e1) = 1 /\ e1[1] = e
    OBVIOUS
<1> HIDE DEF q1, b1, c1, d1, e1
<1>2. q2 \in Seq(U) /\ Len(q2) = 2 /\ q2[1] = a /\ q2[2] = b
    <2>1. /\ q2 \in Seq(U) /\ Len(q2) = Len(q1) + 1
          /\ q2[Len(q1) + 1] = b1[1]
          /\ \A i \in 1 .. Len(q1) : q2[i] = q1[i]
        BY <1>1, OneMore
    <2> HIDE DEF q2
    <2>2. QED BY <1>1, <2>1
<1> HIDE DEF q2
<1>3. q3 \in Seq(U) /\ Len(q3) = 3 /\ q3[1] = a /\ q3[2] = b /\ q3[3] = c
    <2>1. q2 \in Seq(U) /\ c1 \in Seq(U) /\ Len(c1) = 1
        BY <1>1, <1>2
    <2>2. /\ q3 \in Seq(U) /\ Len(q3) = Len(q2) + 1
          /\ q3[Len(q2) + 1] = c1[1]
          /\ \A i \in 1 .. Len(q2) : q3[i] = q2[i]
        BY <2>1, OneMore
    <2> HIDE DEF q3
    <2>3. QED BY <1>1, <1>2, <2>2
<1> HIDE DEF q3
<1>4. q4 \in Seq(U) /\ Len(q4) = 4 /\ q4[1] = a /\ q4[2] = b /\ q4[3] = c /\ q4[4] = d
    <2>1. q3 \in Seq(U) /\ d1 \in Seq(U) /\ Len(d1) = 1
        BY <1>1, <1>3
    <2>2. /\ q4 \in Seq(U) /\ Len(q4) = Len(q3) + 1
          /\ q4[Len(q3) + 1] = d1[1]
          /\ \A i \in 1 .. Len(q3) : q4[i] = q3[i]
        BY <2>1, OneMore
    <2> HIDE DEF q4
    <2>3. QED BY <1>1, <1>3, <2>2
<1> HIDE DEF q4
<1>5. q \in Seq(U) /\ Len(q) = 5 /\ q[1] = a /\ q[2] = b /\ q[3] = c /\ q[4] = d
    <2>1. q4 \in Seq(U) /\ e1 \in Seq(U) /\ Len(e1) = 1
        BY <1>1, <1>4
    <2>2. /\ q \in Seq(U) /\ Len(q) = Len(q4) + 1
          /\ q[Len(q4) + 1] = e1[1]
          /\ \A i \in 1 .. Len(q4) : q[i] = q4[i]
        BY <2>1, OneMore
    <2> HIDE DEF q
    <2>3. QED BY <1>1, <1>4, <2>2
<1> HIDE DEF q
<1>6. q = <<a>> \o <<b>> \o <<c>> \o <<d>> \o <<e>>
    BY DEF q, q4, q3, q2, q1, b1, c1, d1, e1
<1>7. QED BY <1>5, <1>6

\* A payload whose fields hold no separator is split into five parts, its
\* fields, its signature and the algorithm; any other into six or more.
LEMMA SplitCounts ==
    ASSUME NEW p \in Payloads, NEW C, Over(p, C)
    PROVE  /\ NoSeparator(p) => /\ Len(Split(Encode(p))) = 5
                          /\ Verifies(Split(Encode(p)))
                          /\ SubSeq(Split(Encode(p)), 1, 3) = p
           /\ ~NoSeparator(p) => Len(Split(Encode(p))) # 5
<1> DEFINE l == <<Letter("blind-lsb-v1")>>
           g == Signature(p)
           a == Split(p[1])
           b == Split(p[2])
           d == Split(p[3])
<1>1. p[1] \in Seq(C) /\ p[2] \in Seq(C) /\ p[3] \in Seq(C)
    BY DEF Over
<1>2. a \in Seq(Seq(C)) /\ b \in Seq(Seq(C)) /\ d \in Seq(Seq(C))
    BY <1>1, SplitType
<1>3. /\ Len(a) \in Nat /\ Len(b) \in Nat /\ Len(d) \in Nat
      /\ Len(a) >= 1 /\ Len(b) >= 1 /\ Len(d) >= 1
    <2>1. Len(a) >= 1 /\ Len(b) >= 1 /\ Len(d) >= 1
        BY <1>1, SplitType
    <2> HIDE DEF a, b, d
    <2>2. QED BY <1>2, <2>1, LenProperties
<1>4. Split(Encode(p)) = a \o b \o d \o <<g>> \o <<l>>
    BY SplitEncode
<1>5. ASSUME NoSeparator(p)
      PROVE  /\ Len(Split(Encode(p))) = 5
             /\ Verifies(Split(Encode(p)))
             /\ SubSeq(Split(Encode(p)), 1, 3) = p
    <2>1. a = <<p[1]>> /\ b = <<p[2]>> /\ d = <<p[3]>>
        BY <1>1, <1>5, SplitParts DEF NoSeparator, Contains
    <2>2. Split(Encode(p)) = <<p[1]>> \o <<p[2]>> \o <<p[3]>> \o <<g>> \o <<l>>
        BY <1>4, <2>1
    <2> DEFINE parts == Split(Encode(p))
               U == Seq(C)
    <2>3. p[1] \in U /\ p[2] \in U /\ p[3] \in U /\ g \in U /\ l \in U
        <3>1. Sign(Joined(p)) \in C /\ Letter("blind-lsb-v1") \in C
            BY CharacterFacts DEF Over
        <3>2. QED BY <1>1, <3>1 DEF Signature
    <2> HIDE DEF g, l, U
    <2>4. Len(parts) = 5 /\ parts[4] = g /\ SubSeq(parts, 1, 3) = <<p[1], p[2], p[3]>>
        <3> DEFINE u == p[1]
                   v == p[2]
                   w == p[3]
        <3>1. parts = <<u>> \o <<v>> \o <<w>> \o <<g>> \o <<l>>
            BY <2>2
        <3>2. u \in U /\ v \in U /\ w \in U /\ g \in U /\ l \in U
            BY <2>3
        <3> HIDE DEF parts, u, v, w
        <3>3. Len(<<u>> \o <<v>> \o <<w>> \o <<g>> \o <<l>>) = 5
            BY <3>2, FiveParts
        <3>4. (<<u>> \o <<v>> \o <<w>> \o <<g>> \o <<l>>)[4] = g
            BY <3>2, FiveParts
        <3>5. <<u>> \o <<v>> \o <<w>> \o <<g>> \o <<l>> \in Seq(U)
            BY <3>2, FiveParts
        <3>6. (<<u>> \o <<v>> \o <<w>> \o <<g>> \o <<l>>)[1] = u /\ (<<u>> \o <<v>> \o <<w>> \o <<g>> \o <<l>>)[2] = v
            BY <3>2, FiveParts
        <3>7. (<<u>> \o <<v>> \o <<w>> \o <<g>> \o <<l>>)[3] = w
            BY <3>2, FiveParts
        <3>8. parts \in Seq(U) /\ Len(parts) = 5 /\ parts[4] = g
            BY <3>1, <3>3, <3>4, <3>5
        <3>9. parts[1] = u /\ parts[2] = v /\ parts[3] = w
            BY <3>1, <3>6, <3>7
        <3>10. SubSeq(parts, 1, 3) = <<u, v, w>>
            BY <3>2, <3>8, <3>9, FirstThree
        <3>11. QED BY <3>8, <3>10 DEF u, v, w
    <2> HIDE DEF parts
    <2>5. p = <<p[1], p[2], p[3]>>
        BY DEF Payloads
    <2>6. Len(parts) = 5 /\ parts[4] = g /\ SubSeq(parts, 1, 3) = p
        BY <2>4, <2>5
    <2>7. QED BY <2>6 DEF parts, g, Verifies
<1>6. ASSUME ~NoSeparator(p) PROVE Len(Split(Encode(p))) # 5
    <2>1. Len(a) >= 2 \/ Len(b) >= 2 \/ Len(d) >= 2
        <3>1. PICK k \in 1..3 : Contains(p[k], NUL)
            BY <1>6 DEF NoSeparator
        <3>2. k = 1 \/ k = 2 \/ k = 3
            OBVIOUS
        <3>3. \E i \in 1 .. Len(p[k]) : p[k][i] = NUL
            BY <3>1 DEF Contains
        <3>4. QED BY <1>1, <3>2, <3>3, SplitParts
    <2> HIDE DEF a, b, d, g, l
    <2> DEFINE x == a \o b
               y == x \o d
               U == Seq(C) \cup {g, l}
    <2>2. a \in Seq(U) /\ b \in Seq(U) /\ d \in Seq(U) /\ <<g>> \in Seq(U) /\ <<l>> \in Seq(U)
        BY <1>2
    <2> HIDE DEF U
    <2>3. x \in Seq(U) /\ Len(x) = Len(a) + Len(b)
        BY <2>2, ConcatProperties
    <2> HIDE DEF x
    <2>4. y \in Seq(U) /\ Len(y) = Len(x) + Len(d)
        BY <2>2, <2>3, ConcatProperties
    <2> HIDE DEF y
    <2>5. y \o <<g>> \in Seq(U) /\ Len(y \o <<g>>) = Len(y) + 1
        BY <2>2, <2>4, ConcatProperties
    <2>6. Len(y \o <<g>> \o <<l>>) = Len(y) + 2
        <3> DEFINE z == y \o <<g>>
        <3> HIDE DEF z
        <3>1. Len(z \o <<l>>) = Len(z) + 1
            BY <2>2, <2>5, ConcatProperties DEF z
        <3>2. Len(z) = Len(y) + 1 /\ Len(y) \in Nat
            BY <2>4, <2>5, LenProperties DEF z
        <3>3. QED BY <3>1, <3>2 DEF z
    <2>7. QED BY <1>3, <1>4, <2>1, <2>3, <2>4, <2>6 DEF x, y
<1>7. QED BY <1>5, <1>6

\* What the carrier holds of the payload last embedded.
CarrierHolds ==
    marked =>
        /\ embedded \in signed
        /\ size = Len(Encode(embedded)) % SizeMod
        /\ \A i \in 1 .. Len(text) :
             i <= Len(Encode(embedded)) => text[i] = Encode(embedded)[i]

\* What holds of a carrier after any number of calls of Embed: above all, no
\* signature stands in it that the service has not returned.
CodecInv ==
    /\ text \in Seq(Known) /\ size \in Nat
    /\ signed \subseteq Payloads /\ \A p \in signed : Writable(p)
    /\ CarrierHolds
    /\ DetectionIsExact

\* A length in its two bytes.
LEMMA LengthMod ==
    ASSUME NEW n \in Nat
    PROVE  n % SizeMod \in Nat /\ (n < SizeMod => n % SizeMod = n)
<1>1. SizeMod \in Nat /\ SizeMod > 0
    BY CodecAssumption
<1> DEFINE r == n % SizeMod
           q == n \div SizeMod
<1>2. r \in 0 .. SizeMod - 1 /\ q \in Int /\ n = SizeMod * q + r
    BY <1>1
<1> HIDE DEF r, q
<1>3. ASSUME n < SizeMod PROVE r = n
    <2>1. q < 0 => SizeMod * q <= -SizeMod
        BY <1>1, <1>2
    <2>2. q >= 1 => SizeMod * q >= SizeMod
        BY <1>1, <1>2
    <2>3. q = 0
        BY <1>1, <1>2, <1>3, <2>1, <2>2
    <2>4. QED BY <1>1, <1>2, <2>3
<1>4. QED BY <1>2, <1>3 DEF r

\* What clients have written, and what was signed for it, is known.
LEMMA SignedIsOver ==
    ASSUME NEW p \in signed, Writable(p)
    PROVE  Over(p, Known)
    BY DEF Over, Writable, Known

\* What verifies was signed by the service, whatever was split.
LEMMA VerifiedWasSigned ==
    ASSUME NEW t \in Seq(Known), Len(Split(t)) = 5, Verifies(Split(t))
    PROVE  \E p \in signed : Joined(p) = Joined(SubSeq(Split(t), 1, 3))
<1> DEFINE parts == Split(t)
           j == Joined(SubSeq(parts, 1, 3))
<1>1. parts \in Seq(Seq(Known)) /\ Len(parts) = 5
    BY SplitType
<1>2. parts[4] = <<Sign(j)>>
    BY DEF Verifies, Signature
<1> HIDE DEF parts, j
<1>3. parts[4] \in Seq(Known)
    <2>1. 4 \in 1 .. Len(parts)
        BY <1>1
    <2>2. QED BY <1>1, <2>1, ElementOfSeq, Zenon
<1>4. Sign(j) \in Known
    <2> DEFINE c == Sign(j)
    <2>1. <<c>> \in Seq(Known)
        BY <1>2, <1>3
    <2> HIDE DEF c
    <2>2. Len(<<c>>) = 1 /\ <<c>>[1] = c
        OBVIOUS
    <2>3. c \in Known
        BY <2>1, <2>2, ElementOfSeq
    <2>4. QED BY <2>3 DEF c
<1>5. PICK p \in signed : Sign(j) = Sign(Joined(p))
    BY <1>4, CharacterFacts DEF Known
<1>6. Joined(p) = j
    BY <1>5, CharacterFacts
<1>7. QED BY <1>6 DEF j, parts

\* The answers differ.
LEMMA AnswersDiffer ==
    /\ [status |-> "corrupt"] # [status |-> "absent"]
    /\ [status |-> "corrupt"].status # "detected"
    /\ [status |-> "absent"].status # "detected"
    /\ \A f : /\ [status |-> "detected", payload |-> f] # [status |-> "absent"]
              /\ [status |-> "detected", payload |-> f].payload = f
<1>1. ASSUME NEW f PROVE [status |-> "detected", payload |-> f] # [status |-> "absent"]
    <2>1. [status |-> "detected", payload |-> f].status = "detected"
        OBVIOUS
    <2>2. [status |-> "absent"].status = "absent"
        OBVIOUS
    <2>3. QED BY <2>1, <2>2
<1>2. [status |-> "corrupt"] # [status |-> "absent"]
    <2>1. [status |-> "corrupt"].status = "corrupt" /\ [status |-> "absent"].status = "absent"
        OBVIOUS
    <2>2. QED BY <2>1
<1>3. QED BY <1>1, <1>2

\* What a detection answers now.
LEMMA AnswerIsExact ==
    ASSUME CodecInv
    PROVE  /\ Answer = [status |-> "absent"] <=> ~marked
           /\ marked /\ Fits(embedded) =>
                Answer = IF Readable(embedded)
                         THEN [status |-> "detected", payload |-> embedded]
                         ELSE [status |-> "corrupt"]
           /\ Answer.status = "detected" =>
                \E p \in signed : Joined(p) = Joined(Answer.payload)
<1>1. CASE ~marked
    <2>1. Answer = [status |-> "absent"]
        BY <1>1 DEF Answer
    <2>2. QED BY <1>1, <2>1, AnswersDiffer
<1>2. CASE marked
    <2> DEFINE e == Encode(embedded)
               t == SubSeq(text, 1, size)
    <2>1. embedded \in Payloads /\ Over(embedded, Known)
        BY <1>2, SignedIsOver DEF CodecInv, CarrierHolds
    <2>2. /\ text \in Seq(Known) /\ size \in Nat /\ Len(text) \in Nat
          /\ size = Len(e) % SizeMod
          /\ \A i \in 1 .. Len(text) : i <= Len(e) => text[i] = e[i]
        BY <1>2, LenProperties DEF CodecInv, CarrierHolds
    <2>3. e \in Seq(Known) /\ Len(e) > 0 /\ Len(e) \in Nat
        BY <2>1, EncodeFacts, LenProperties
    <2>4. Readable(embedded) <=> NoSeparator(embedded) /\ Len(e) <= Len(text)
        BY DEF Readable, NoSeparator
    <2>5. Fits(embedded) => size = Len(e)
        BY <2>2, <2>3, LengthMod DEF Fits
    <2> HIDE DEF e
    <2>6. CASE size = 0 \/ size > Len(text)
        <3>1. Answer = [status |-> "corrupt"]
            BY <1>2, <2>6 DEF Answer
        <3>2. Fits(embedded) => ~Readable(embedded)
            BY <2>2, <2>3, <2>4, <2>5, <2>6
        <3>3. QED BY <1>2, <3>1, <3>2, AnswersDiffer
    <2>7. CASE ~(size = 0 \/ size > Len(text))
        <3>1. Answer = IF Len(Split(t)) = 5 /\ Verifies(Split(t))
                       THEN [status |-> "detected", payload |-> SubSeq(Split(t), 1, 3)]
                       ELSE [status |-> "corrupt"]
            BY <1>2, <2>7, Zenon DEF Answer
        <3>2. /\ t \in Seq(Known) /\ Len(t) = size
              /\ \A i \in 1 .. size : t[i] = text[i]
            <4>1. \A i \in 1 .. size : i \in 1 .. Len(text) /\ text[i] \in Known
                BY <2>2, <2>7, ElementOfSeq
            <4>2. /\ t \in Seq(Known) /\ Len(t) = (IF 1 <= size THEN size - 1 + 1 ELSE 0)
                  /\ \A i \in 1 .. size - 1 + 1 : t[i] = text[1 + i - 1]
                BY <2>2, <4>1, SubSeqProperties
            <4> HIDE DEF t
            <4>3. QED BY <2>2, <2>7, <4>2
        <3> HIDE DEF t
        <3>3. Answer # [status |-> "absent"]
            BY <3>1, AnswersDiffer
        <3>4. ASSUME Answer.status = "detected"
              PROVE  \E p \in signed : Joined(p) = Joined(Answer.payload)
            <4>1. Len(Split(t)) = 5 /\ Verifies(Split(t))
                BY <3>1, <3>4, AnswersDiffer
            <4>2. Answer.payload = SubSeq(Split(t), 1, 3)
                BY <3>1, <4>1, AnswersDiffer
            <4>3. QED BY <3>2, <4>1, <4>2, VerifiedWasSigned
        <3>5. ASSUME Fits(embedded)
              PROVE  Answer = IF Readable(embedded)
                              THEN [status |-> "detected", payload |-> embedded]
                              ELSE [status |-> "corrupt"]
            <4>1. size = Len(e)
                BY <2>5, <3>5
            <4>2. \A i \in 1 .. Len(e) : t[i] = e[i]
                BY <2>2, <2>7, <3>2, <4>1
            <4>3. t = e
                BY <2>3, <3>2, <4>1, <4>2, SeqEqual
            <4>4. Readable(embedded) <=> NoSeparator(embedded)
                BY <2>2, <2>4, <2>7, <4>1
            <4>5. CASE NoSeparator(embedded)
                <5>1. Len(Split(t)) = 5 /\ Verifies(Split(t)) /\ SubSeq(Split(t), 1, 3) = embedded
                    BY <2>1, <4>3, <4>5, SplitCounts DEF e
                <5>2. QED BY <3>1, <4>4, <4>5, <5>1
            <4>6. CASE ~NoSeparator(embedded)
                <5>1. Len(Split(t)) # 5
                    BY <2>1, <4>3, <4>6, SplitCounts DEF e
                <5>2. QED BY <3>1, <4>4, <4>6, <5>1
            <4>7. QED BY <4>5, <4>6
        <3>6. QED BY <1>2, <3>3, <3>4, <3>5
    <2>8. QED BY <2>6, <2>7
<1>3. QED BY <1>1, <1>2

\* A carrier without a mark satisfies the invariant.
LEMMA CodecInitInv == CodecInit => CodecInv
<1> SUFFICES ASSUME CodecInit PROVE CodecInv
    OBVIOUS
<1>1. PICK n \in Capacities : text = [i \in 1..n |-> Letter("?")]
    BY DEF CodecInit
<1>2. n \in Nat /\ Letter("?") \in Known
    BY CodecAssumption, CharacterFacts DEF Known
<1>3. text \in Seq(Known)
    <2> HIDE DEF Known
    <2>1. QED BY <1>1, <1>2
<1>4. size \in Nat /\ signed = {} /\ ~marked /\ answer = NoAnswer
    BY DEF CodecInit
<1>5. QED BY <1>3, <1>4 DEF CodecInv, CarrierHolds, DetectionIsExact

\* What is known once stays known, and so does what can be written.
LEMMA KnownGrows ==
    ASSUME signed \subseteq signed'
    PROVE  /\ Known \subseteq Known'
           /\ \A p : Writable(p) => Writable(p)'
<1>1. Known \subseteq Known'
    BY DEF Known, Joined, Sign
<1>2. ASSUME NEW p, Writable(p) PROVE Writable(p)'
    <2>1. \A k \in 1..3 : p[k] \in Seq(Known)
        BY <1>2 DEF Writable
    <2>2. \A k \in 1..3 : p[k] \in Seq(Known')
        BY <1>1, <2>1, SeqOfMore
    <2>3. QED BY <2>2 DEF Writable
<1>3. QED BY <1>1, <1>2

\* A payload signed and returned leaves what was signed before as it was.
LEMMA ReturnKeeps ==
    ASSUME CodecInv, NEW p \in Payloads, Return(p)
    PROVE  /\ signed' \subseteq Payloads /\ p \in signed'
           /\ (embedded \in signed => embedded \in signed')
           /\ \A q \in signed' : Writable(q)'
           /\ Known \subseteq Known'
           /\ Over(p, Known')
<1>1. signed' = signed \cup {p} /\ Writable(p)
    BY DEF Return
<1>2. Known \subseteq Known' /\ \A q : Writable(q) => Writable(q)'
    BY <1>1, KnownGrows
<1>3. \A q \in signed' : Writable(q)'
    BY <1>1, <1>2 DEF CodecInv
<1>4. Over(p, Known')
    <2>1. p[1] \in Seq(Known') /\ p[2] \in Seq(Known') /\ p[3] \in Seq(Known')
        BY <1>1, <1>2 DEF Writable
    <2>2. Plain \subseteq Known' /\ Sign(Joined(p)) \in Known'
        BY <1>1 DEF Known
    <2>3. QED BY <2>1, <2>2 DEF Over
<1>5. QED BY <1>1, <1>2, <1>3, <1>4 DEF CodecInv

\* So it does after every step: embedding, also elsewhere, cutting, detecting
\* (lsb.go 15-81).
LEMMA CodecStepInv == CodecInv /\ [CodecNext]_codecVars => CodecInv'
<1> SUFFICES ASSUME CodecInv, [CodecNext]_codecVars PROVE CodecInv'
    OBVIOUS
<1> USE DEF CodecInv
<1>1. ASSUME NEW p \in Payloads, Embed(p) PROVE CodecInv'
    <2> DEFINE e == Encode(p)
               rest == SubSeq(text, Len(e) + 1, Len(text))
    <2>1. /\ answer = NoAnswer /\ answer' = answer /\ marked' = TRUE
          /\ Len(e) <= Len(text) /\ text' = e \o rest
          /\ size' = Len(e) % SizeMod /\ embedded' = p /\ Return(p)
        BY <1>1 DEF Embed, Return
    <2>2. /\ signed' \subseteq Payloads /\ p \in signed'
          /\ \A q \in signed' : Writable(q)'
          /\ Known \subseteq Known' /\ Over(p, Known')
        BY <2>1, ReturnKeeps
    <2>3. e \in Seq(Known') /\ Len(e) \in Nat
        BY <2>2, EncodeFacts, LenProperties
    <2>4. rest \in Seq(Known')
        <3> HIDE DEF e
        <3>1. Len(text) \in Nat /\ text \in Seq(Known')
            BY <2>2, SeqOfMore, LenProperties
        <3>2. \A i \in Len(e) + 1 .. Len(text) : text[i] \in Known'
            BY <2>3, <3>1, ElementOfSeq
        <3>3. QED BY <2>3, <3>1, <3>2, SubSeqProperties
    <2>5. /\ text' \in Seq(Known')
          /\ \A i \in 1 .. Len(e) : text'[i] = e[i]
        <3> HIDE DEF e, rest
        <3>1. /\ e \o rest \in Seq(Known')
              /\ \A i \in 1 .. Len(e) + Len(rest) :
                   (e \o rest)[i] = IF i <= Len(e) THEN e[i] ELSE rest[i - Len(e)]
            BY <2>3, <2>4, ConcatProperties
        <3>2. Len(rest) \in Nat
            BY <2>4, LenProperties
        <3>3. QED BY <2>1, <2>3, <3>1, <3>2
    <2>6. size' \in Nat
        BY <2>1, <2>3, LengthMod
    <2>7. CarrierHolds'
        <3>1. Encode(embedded)' = e
            BY <2>1 DEF Encode, Signature, Joined
        <3> HIDE DEF e
        <3>2. Len(text') \in Nat
            BY <2>5, LenProperties
        <3>3. \A i \in 1 .. Len(text') : i <= Len(e) => text'[i] = e[i]
            BY <2>3, <2>5, <3>2
        <3>4. QED BY <2>1, <2>2, <3>1, <3>3 DEF CarrierHolds
    <2>8. DetectionIsExact'
        BY <2>1 DEF DetectionIsExact
    <2>9. QED BY <2>2, <2>5, <2>6, <2>7, <2>8
<1>2. ASSUME NEW p \in Payloads, EmbedElsewhere(p) PROVE CodecInv'
    <2>1. /\ answer = NoAnswer /\ answer' = answer /\ marked' = marked
          /\ text' = text /\ size' = size /\ embedded' = embedded /\ Return(p)
        BY <1>2 DEF EmbedElsewhere, Return
    <2>2. /\ signed' \subseteq Payloads
          /\ (embedded \in signed => embedded \in signed')
          /\ \A q \in signed' : Writable(q)'
          /\ Known \subseteq Known'
        BY <2>1, ReturnKeeps
    <2>3. text' \in Seq(Known')
        BY <2>1, <2>2, SeqOfMore
    <2>4. CarrierHolds'
        <3>1. Encode(embedded)' = Encode(embedded)
            BY <2>1 DEF Encode, Signature, Joined
        <3>2. QED BY <2>1, <2>2, <3>1 DEF CarrierHolds
    <2>5. DetectionIsExact'
        BY <2>1 DEF DetectionIsExact
    <2>6. QED BY <2>1, <2>2, <2>3, <2>4, <2>5
<1>3. ASSUME NEW n \in 0 .. Len(text), Cut(n) PROVE CodecInv'
    <2>1. /\ answer = NoAnswer /\ answer' = answer /\ marked' = marked /\ signed' = signed
          /\ size' = size /\ embedded' = embedded /\ text' = SubSeq(text, 1, n)
          /\ n < Len(text)
        BY <1>3 DEF Cut
    <2>2. Known' = Known /\ \A p \in signed' : Writable(p)'
        BY <2>1 DEF Known, Writable
    <2>3. Len(text) \in Nat /\ \A i \in 1 .. n : text[i] \in Known
        BY <2>1, LenProperties, ElementOfSeq
    <2>4. /\ text' \in Seq(Known) /\ Len(text') = n
          /\ \A i \in 1 .. n : text'[i] = text[i]
        <3>1. /\ text' \in Seq(Known)
              /\ Len(text') = (IF 1 <= n THEN n - 1 + 1 ELSE 0)
              /\ \A i \in 1 .. n - 1 + 1 : text'[i] = text[1 + i - 1]
            BY <2>1, <2>3, SubSeqProperties
        <3>2. QED BY <2>3, <3>1
    <2>5. CarrierHolds'
        <3>1. Encode(embedded)' = Encode(embedded)
            BY <2>1 DEF Encode, Signature, Joined
        <3> HIDE DEF CodecInv
        <3>2. \A i \in 1 .. Len(text') : i \in 1 .. Len(text) /\ text'[i] = text[i]
            BY <2>1, <2>3, <2>4
        <3>3. QED BY <2>1, <3>1, <3>2 DEF CarrierHolds, CodecInv
    <2>6. DetectionIsExact'
        BY <2>1 DEF DetectionIsExact
    <2>7. QED BY <2>1, <2>2, <2>4, <2>5, <2>6
<1>4. CASE CutAll
    <2>1. /\ answer = NoAnswer /\ answer' = answer /\ marked' = FALSE /\ signed' = signed
          /\ size' = size /\ embedded' = embedded /\ text' = <<>>
        BY <1>4 DEF CutAll
    <2>2. text' \in Seq(Known')
        BY <2>1, EmptySeq
    <2>3. \A p \in signed' : Writable(p)'
        BY <2>1 DEF Known, Writable
    <2>4. QED BY <2>1, <2>2, <2>3 DEF CarrierHolds, DetectionIsExact
<1>5. CASE CodecDetect
    <2>1. /\ answer' = Answer /\ signed' = signed
          /\ text' = text /\ marked' = marked /\ size' = size /\ embedded' = embedded
        BY <1>5 DEF CodecDetect
    <2>2. DetectionIsExact'
        BY <2>1, AnswerIsExact DEF DetectionIsExact, Fits, Readable, Encode, Signature, Joined
    <2>3. CarrierHolds'
        BY <2>1 DEF CarrierHolds, Encode, Signature, Joined
    <2>4. Known' = Known /\ \A p \in signed' : Writable(p)'
        BY <2>1 DEF Known, Writable
    <2>5. QED BY <2>1, <2>2, <2>3, <2>4
<1>6. CASE UNCHANGED codecVars
    <2>1. /\ answer' = answer /\ signed' = signed
          /\ text' = text /\ marked' = marked /\ size' = size /\ embedded' = embedded
        BY <1>6 DEF codecVars
    <2>2. DetectionIsExact' /\ CarrierHolds'
        BY <2>1 DEF DetectionIsExact, CarrierHolds, Fits, Readable, Encode, Signature, Joined
    <2>3. Known' = Known /\ \A p \in signed' : Writable(p)'
        BY <2>1 DEF Known, Writable
    <2>4. QED BY <2>1, <2>2, <2>3
<1>7. QED BY <1>1, <1>2, <1>3, <1>4, <1>5, <1>6 DEF CodecNext

-----------------------------------------------------------------------------
(* The rotations. *)

\* Below orders the places.
LEMMA BelowOrders ==
    ASSUME NEW p \in Places, NEW q \in Places, NEW r \in Places
    PROVE  /\ ~Below(p, p)
           /\ Below(p, q) /\ Below(q, r) => Below(p, r)
           /\ Below(p, q) => ~Below(q, p)
           /\ p # q => Below(p, q) \/ Below(q, p)
<1>1. N \in Nat
    BY SideAssumption
<1>2. /\ p[1] \in Int /\ p[2] \in Int /\ q[1] \in Int /\ q[2] \in Int /\ r[1] \in Int /\ r[2] \in Int
      /\ p = <<p[1], p[2]>> /\ q = <<q[1], q[2]>>
    BY <1>1 DEF Places
<1>3. p # q => p[1] # q[1] \/ p[2] # q[2]
    BY <1>2, Zenon
<1>4. QED BY <1>2, <1>3 DEF Below

\* Less is a strict order of the grids.
LEMMA LessIrreflexive ==
    ASSUME NEW a PROVE ~Less(a, a)
BY DEF Less

\* Of three grids: the place that decides between the outer two is the higher
\* of those that decide between neighbours.
LEMMA LessTransitive ==
    ASSUME NEW a \in SUBSET Places, NEW b \in SUBSET Places, NEW c \in SUBSET Places,
           Less(a, b), Less(b, c)
    PROVE  Less(a, c)
<1>1. PICK p \in b \ a : \A r \in (a \ b) \cup (b \ a) : r = p \/ Below(r, p)
    BY DEF Less
<1>2. PICK q \in c \ b : \A r \in (b \ c) \cup (c \ b) : r = q \/ Below(r, q)
    BY DEF Less
<1>3. p \in Places /\ q \in Places /\ p # q
    OBVIOUS
<1>4. \A r \in (a \ c) \cup (c \ a) :
        r \in Places /\ (r = p \/ Below(r, p) \/ r = q \/ Below(r, q))
    BY <1>1, <1>2
<1>5. CASE Below(p, q)
    <2>1. q \in c \ a
        BY <1>1, <1>2, <1>3, <1>5, BelowOrders
    <2>2. \A r \in (a \ c) \cup (c \ a) : r = q \/ Below(r, q)
        BY <1>3, <1>4, <1>5, BelowOrders
    <2>3. QED BY <2>1, <2>2 DEF Less
<1>6. CASE Below(q, p)
    <2>1. p \in c \ a
        BY <1>1, <1>2, <1>3, <1>6, BelowOrders
    <2>2. \A r \in (a \ c) \cup (c \ a) : r = p \/ Below(r, p)
        BY <1>3, <1>4, <1>6, BelowOrders
    <2>3. QED BY <2>1, <2>2 DEF Less
<1>7. QED BY <1>3, <1>5, <1>6, BelowOrders

\* A set of places that is not empty has one above all the others.
LEMMA HighestPlace ==
    ASSUME NEW D \in SUBSET Places, D # {}
    PROVE  \E p \in D : \A q \in D : q = p \/ Below(q, p)
<1> DEFINE Rows == {N - p[1] : p \in D}
<1>1. N \in Nat
    BY SideAssumption
<1>2. \A p \in D : p[1] \in 0 .. N - 1 /\ p[2] \in 0 .. N - 1
    BY <1>1 DEF Places
<1>3. Rows \in SUBSET Nat /\ Rows # {}
    BY <1>1, <1>2
<1>4. PICK m \in Rows : \A k \in Rows : m <= k
    BY <1>3, LeastNumber
<1>5. PICK r \in D : m = N - r[1]
    BY <1>4
<1>6. \A q \in D : q[1] <= r[1]
    <2>1. \A q \in D : m <= N - q[1]
        BY <1>4
    <2>2. QED BY <1>1, <1>2, <1>5, <2>1
<1> DEFINE Row == {q \in D : q[1] = r[1]}
           Columns == {N - p[2] : p \in Row}
<1>7. Columns \in SUBSET Nat /\ Columns # {}
    BY <1>1, <1>2
<1>8. PICK n \in Columns : \A k \in Columns : n <= k
    BY <1>7, LeastNumber
<1>9. PICK p \in Row : n = N - p[2]
    BY <1>8
<1>10. \A q \in Row : q[2] <= p[2]
    <2>1. \A q \in Row : n <= N - q[2]
        BY <1>8
    <2>2. QED BY <1>1, <1>2, <1>9, <2>1
<1>11. ASSUME NEW q \in D PROVE q = p \/ Below(q, p)
    <2>1. p \in D /\ p[1] = r[1]
        BY <1>9
    <2>2. q[1] <= p[1] /\ (q[1] = p[1] => q[2] <= p[2])
        BY <1>6, <1>10, <2>1
    <2>3. ~Below(p, q)
        BY <1>2, <2>1, <2>2 DEF Below
    <2>4. p \in Places /\ q \in Places
        BY <2>1
    <2>5. QED BY <2>3, <2>4, BelowOrders
<1>12. QED BY <1>9, <1>11

\* Two grids differ at a highest place, and that decides.
LEMMA LessTotal ==
    ASSUME NEW a \in SUBSET Places, NEW b \in SUBSET Places, a # b
    PROVE  Less(a, b) \/ Less(b, a)
<1> DEFINE D == (a \ b) \cup (b \ a)
<1>1. D \in SUBSET Places /\ D # {}
    OBVIOUS
<1>2. PICK p \in D : \A q \in D : q = p \/ Below(q, p)
    BY <1>1, HighestPlace
<1>3. (b \ a) \cup (a \ b) = D
    OBVIOUS
<1>4. CASE p \in b \ a
    BY <1>2, <1>4 DEF Less
<1>5. CASE p \in a \ b
    BY <1>2, <1>3, <1>5 DEF Less
<1>6. QED BY <1>4, <1>5

\* Turned so often, each by its own formula.
Turned(k, g) ==
    IF k = 0 THEN g
    ELSE IF k = 1 THEN {<<p[2], N - 1 - p[1]>> : p \in g}
    ELSE IF k = 2 THEN {<<N - 1 - p[1], N - 1 - p[2]>> : p \in g}
    ELSE {<<N - 1 - p[2], p[1]>> : p \in g}

\* The formulas are what Turn does, and a fourth turn brings the grid back.
LEMMA TurnTurned ==
    ASSUME NEW g \in SUBSET Places
    PROVE  /\ \A k \in 0..3 : Turned(k, g) \in SUBSET Places
           /\ \A k \in 0..2 : Turn(Turned(k, g)) = Turned(k + 1, g)
           /\ Turn(Turned(3, g)) = g
<1>1. N \in Nat
    BY SideAssumption
<1>2. \A p \in g : /\ p[1] \in 0 .. N - 1 /\ p[2] \in 0 .. N - 1
                   /\ p = <<p[1], p[2]>>
    BY <1>1 DEF Places
<1>3. Turn(Turned(0, g)) = Turned(1, g)
    BY DEF Turn, Turned
<1>4. Turn(Turned(1, g)) = Turned(2, g)
    <2>1. ASSUME NEW x \in Turn(Turned(1, g)) PROVE x \in Turned(2, g)
        <3>1. PICK y \in Turned(1, g) : x = <<y[2], N - 1 - y[1]>>
            BY DEF Turn
        <3>2. PICK p \in g : y = <<p[2], N - 1 - p[1]>>
            BY <3>1 DEF Turned
        <3>3. x = <<N - 1 - p[1], N - 1 - (p[2])>>
            BY <3>1, <3>2
        <3>4. x = <<N - 1 - p[1], N - 1 - p[2]>>
            BY <1>1, <1>2, <3>3
        <3>5. QED BY <3>4 DEF Turned
    <2>2. ASSUME NEW x \in Turned(2, g) PROVE x \in Turn(Turned(1, g))
        <3>1. PICK p \in g : x = <<N - 1 - p[1], N - 1 - p[2]>>
            BY <2>2 DEF Turned
        <3> DEFINE y == <<p[2], N - 1 - p[1]>>
        <3>2. y \in Turned(1, g)
            BY DEF Turned
        <3>3. y[2] = N - 1 - p[1] /\ y[1] = p[2]
            OBVIOUS
        <3> HIDE DEF y
        <3>4. x = <<y[2], N - 1 - y[1]>>
            BY <1>1, <1>2, <3>1, <3>3
        <3>5. QED BY <3>2, <3>4 DEF Turn
    <2>3. QED BY <2>1, <2>2
<1>5. Turn(Turned(2, g)) = Turned(3, g)
    <2>1. ASSUME NEW x \in Turn(Turned(2, g)) PROVE x \in Turned(3, g)
        <3>1. PICK y \in Turned(2, g) : x = <<y[2], N - 1 - y[1]>>
            BY DEF Turn
        <3>2. PICK p \in g : y = <<N - 1 - p[1], N - 1 - p[2]>>
            BY <3>1 DEF Turned
        <3>3. x = <<N - 1 - p[2], N - 1 - (N - 1 - p[1])>>
            BY <3>1, <3>2
        <3>4. x = <<N - 1 - p[2], p[1]>>
            BY <1>1, <1>2, <3>3
        <3>5. QED BY <3>4 DEF Turned
    <2>2. ASSUME NEW x \in Turned(3, g) PROVE x \in Turn(Turned(2, g))
        <3>1. PICK p \in g : x = <<N - 1 - p[2], p[1]>>
            BY <2>2 DEF Turned
        <3> DEFINE y == <<N - 1 - p[1], N - 1 - p[2]>>
        <3>2. y \in Turned(2, g)
            BY DEF Turned
        <3>3. y[2] = N - 1 - p[2] /\ y[1] = N - 1 - p[1]
            OBVIOUS
        <3> HIDE DEF y
        <3>4. x = <<y[2], N - 1 - y[1]>>
            BY <1>1, <1>2, <3>1, <3>3
        <3>5. QED BY <3>2, <3>4 DEF Turn
    <2>3. QED BY <2>1, <2>2
<1>6. Turn(Turned(3, g)) = g
    <2>1. ASSUME NEW x \in Turn(Turned(3, g)) PROVE x \in g
        <3>1. PICK y \in Turned(3, g) : x = <<y[2], N - 1 - y[1]>>
            BY DEF Turn
        <3>2. PICK p \in g : y = <<N - 1 - p[2], p[1]>>
            BY <3>1 DEF Turned
        <3>3. x = <<p[1], N - 1 - (N - 1 - p[2])>>
            BY <3>1, <3>2
        <3>4. x = p
            BY <1>1, <1>2, <3>3
        <3>5. QED BY <3>4 DEF Turned
    <2>2. ASSUME NEW x \in g PROVE x \in Turn(Turned(3, g))
        <3>1. PICK p \in g : x = p
            BY <2>2 DEF Turned
        <3> DEFINE y == <<N - 1 - p[2], p[1]>>
        <3>2. y \in Turned(3, g)
            BY DEF Turned
        <3>3. y[2] = p[1] /\ y[1] = N - 1 - p[2]
            OBVIOUS
        <3> HIDE DEF y
        <3>4. x = <<y[2], N - 1 - y[1]>>
            BY <1>1, <1>2, <3>1, <3>3
        <3>5. QED BY <3>2, <3>4 DEF Turn
    <2>3. QED BY <2>1, <2>2
<1>7. \A k \in 0..3 : Turned(k, g) \in SUBSET Places
    <2>1. \A p \in g : /\ N - 1 - p[1] \in 0 .. N - 1 /\ N - 1 - p[2] \in 0 .. N - 1
        BY <1>1, <1>2
    <2>2. QED BY <1>2, <2>1 DEF Turned, Places
<1>8. \A k \in 0..2 : Turn(Turned(k, g)) = Turned(k + 1, g)
    <2> SUFFICES ASSUME NEW k \in 0..2 PROVE Turn(Turned(k, g)) = Turned(k + 1, g)
        OBVIOUS
    <2>1. k = 0 \/ k = 1 \/ k = 2
        OBVIOUS
    <2>2. 0 + 1 = 1 /\ 1 + 1 = 2 /\ 2 + 1 = 3
        OBVIOUS
    <2>3. QED BY <1>3, <1>4, <1>5, <2>1, <2>2
<1>9. QED BY <1>6, <1>7, <1>8

\* The rotations of a grid are what zero to three turns make of it.
LEMMA RotationsAreTurned ==
    ASSUME NEW g PROVE Rotations(g) = {Turned(k, g) : k \in 0..3}
<1>1. 0..3 = {0, 1, 2, 3}
    OBVIOUS
<1>2. Rotations(g) = {Turned(0, g), Turned(1, g), Turned(2, g), Turned(3, g)}
    BY DEF Rotations, Turned
<1>3. QED BY <1>1, <1>2

\* A grid and any of its rotations have the same four rotations.
LEMMA SameRotations ==
    ASSUME NEW g \in SUBSET Places, NEW r \in Rotations(g)
    PROVE  r \in SUBSET Places /\ Rotations(r) = Rotations(g)
<1> DEFINE All(h) == {h, Turn(h), Turn(Turn(h)), Turn(Turn(Turn(h)))}
<1>1. ASSUME NEW h \in SUBSET Places
      PROVE  /\ Rotations(h) = All(h) /\ Turn(h) \in SUBSET Places
             /\ Turn(Turn(Turn(Turn(h)))) = h
    <2>1. /\ Turned(0, h) = h /\ Turn(h) = Turned(1, h)
          /\ Turn(Turned(1, h)) = Turned(2, h) /\ Turn(Turned(2, h)) = Turned(3, h)
          /\ Turn(Turned(3, h)) = h /\ Turned(1, h) \in SUBSET Places
        <3>1. Turned(0, h) = h
            BY DEF Turned
        <3>2. 0 \in 0..2 /\ 1 \in 0..2 /\ 2 \in 0..2 /\ 1 \in 0..3
              /\ 0 + 1 = 1 /\ 1 + 1 = 2 /\ 2 + 1 = 3
            OBVIOUS
        <3>3. QED BY <3>1, <3>2, TurnTurned
    <2>2. Rotations(h) = {Turned(0, h), Turned(1, h), Turned(2, h), Turned(3, h)}
        BY DEF Rotations, Turned
    <2>3. QED BY <2>1, <2>2
<1>2. ASSUME NEW h \in SUBSET Places PROVE Rotations(Turn(h)) = Rotations(h)
    BY <1>1
<1> DEFINE t1 == Turn(g)
           t2 == Turn(t1)
           t3 == Turn(t2)
<1>3. t1 \in SUBSET Places /\ Rotations(t1) = Rotations(g)
    BY <1>1, <1>2
<1>4. t2 \in SUBSET Places /\ Rotations(t2) = Rotations(g)
    BY <1>1, <1>2, <1>3
<1>5. t3 \in SUBSET Places /\ Rotations(t3) = Rotations(g)
    BY <1>1, <1>2, <1>4
<1>6. r \in {g, t1, t2, t3}
    BY <1>1
<1>7. QED BY <1>3, <1>4, <1>5, <1>6

\* b is what canonicalRotations makes of g.
IsCanonical(g, b) == b \in Rotations(g) /\ \A r \in Rotations(g) : ~Less(r, b)

\* Two grids have the same canonical rotation exactly when one is the other
\* turned: the rotations of both are then the same set, and its least is one.
LEMMA CanonicalTellsApart ==
    ASSUME NEW g \in SUBSET Places, NEW h \in SUBSET Places, NEW b, NEW c,
           IsCanonical(g, b), IsCanonical(h, c)
    PROVE  b = c <=> h \in Rotations(g)
<1>1. b \in SUBSET Places /\ Rotations(b) = Rotations(g)
    BY SameRotations DEF IsCanonical
<1>2. c \in SUBSET Places /\ Rotations(c) = Rotations(h)
    BY SameRotations DEF IsCanonical
<1>3. h \in Rotations(h)
    BY DEF Rotations
<1>4. ASSUME b = c PROVE h \in Rotations(g)
    BY <1>1, <1>2, <1>3, <1>4
<1>5. ASSUME h \in Rotations(g) PROVE b = c
    <2>1. Rotations(h) = Rotations(g)
        BY <1>5, SameRotations
    <2>2. ~Less(b, c) /\ ~Less(c, b)
        BY <2>1 DEF IsCanonical
    <2>3. QED BY <1>1, <1>2, <2>2, LessTotal
<1>6. QED BY <1>4, <1>5

\* What is known between two turns: where the grid stands, and that the best is
\* one of those seen and that none of those is less.
GridInv ==
    /\ bits \in SUBSET Places
    /\ turns \in 0..3
    /\ current = Turned(turns, bits)
    /\ \E k \in 0..turns : best = Turned(k, bits)
    /\ \A k \in 0..turns : ~Less(Turned(k, bits), best)

\* The grid as it was sampled is the best of those seen (video.go 64-68).
LEMMA GridInitInv == GridInit => GridInv
<1> SUFFICES ASSUME GridInit PROVE GridInv
    OBVIOUS
<1>1. /\ bits \in SUBSET Places /\ turns = 0 /\ current = bits /\ best = bits
    BY DEF GridInit
<1>2. 0..turns = {0} /\ turns \in 0..3
    BY <1>1
<1>3. Turned(0, bits) = bits
    BY DEF Turned
<1>4. QED BY <1>1, <1>2, <1>3, LessIrreflexive DEF GridInv

\* A turn keeps the invariant (video.go 69-88).
LEMMA GridStepInv == GridInv /\ [TurnOnce]_gridVars => GridInv'
<1> SUFFICES ASSUME GridInv, [TurnOnce]_gridVars PROVE GridInv'
    OBVIOUS
<1>1. CASE TurnOnce
    <2> DEFINE new == Turned(turns + 1, bits)
    <2>1. /\ bits \in SUBSET Places /\ turns \in 0..2 /\ turns' = turns + 1 /\ bits' = bits
          /\ best' = IF Less(current', best) THEN current' ELSE best
          /\ current' = Turn(current) /\ current = Turned(turns, bits)
        BY <1>1 DEF TurnOnce, GridInv
    <2>2. current' = new /\ new \in SUBSET Places
        BY <2>1, TurnTurned
    <2>3. PICK j \in 0..turns : best = Turned(j, bits)
        BY DEF GridInv
    <2>4. best \in SUBSET Places
        BY <2>1, <2>3, TurnTurned
    <2>5. \A k \in 0..turns : ~Less(Turned(k, bits), best) /\ Turned(k, bits) \in SUBSET Places
        BY <2>1, TurnTurned DEF GridInv
    <2>6. 0..turns' = (0..turns) \cup {turns + 1}
        BY <2>1
    <2> HIDE DEF new
    <2>7. CASE Less(new, best)
        <3>1. best' = new
            BY <2>1, <2>2, <2>7
        <3>2. \A k \in 0..turns : ~Less(Turned(k, bits), new)
            BY <2>2, <2>4, <2>5, <2>7, LessTransitive
        <3>3. ~Less(new, new)
            BY LessIrreflexive
        <3>4. \A k \in 0..turns' : ~Less(Turned(k, bits), best')
            BY <2>6, <3>1, <3>2, <3>3 DEF new
        <3>5. \E k \in 0..turns' : best' = Turned(k, bits)
            BY <2>6, <3>1 DEF new
        <3>6. bits' \in SUBSET Places /\ turns' \in 0..3 /\ current' = Turned(turns', bits')
            BY <2>1, <2>2 DEF new
        <3>7. QED BY <2>1, <3>4, <3>5, <3>6 DEF GridInv
    <2>8. CASE ~Less(new, best)
        <3>1. best' = best
            BY <2>1, <2>2, <2>8
        <3>2. \A k \in 0..turns' : ~Less(Turned(k, bits), best')
            BY <2>5, <2>6, <2>8, <3>1 DEF new
        <3>3. \E k \in 0..turns' : best' = Turned(k, bits)
            BY <2>3, <2>6, <3>1
        <3>4. bits' \in SUBSET Places /\ turns' \in 0..3 /\ current' = Turned(turns', bits')
            BY <2>1, <2>2 DEF new
        <3>5. QED BY <2>1, <3>2, <3>3, <3>4 DEF GridInv
    <2>9. QED BY <2>7, <2>8
<1>2. CASE UNCHANGED gridVars
    BY <1>2 DEF gridVars, GridInv
<1>3. QED BY <1>1, <1>2

\* After three turns every rotation has been seen.
LEMMA GridInvCanonical == GridInv => BestIsCanonical
<1> SUFFICES ASSUME GridInv, turns = 3
             PROVE  best \in Rotations(bits) /\ \A g \in Rotations(bits) : ~Less(g, best)
    BY DEF BestIsCanonical
<1>1. Rotations(bits) = {Turned(k, bits) : k \in 0..3}
    BY RotationsAreTurned
<1>2. QED BY <1>1 DEF GridInv

-----------------------------------------------------------------------------
(* The specification. *)

\* A file that is analysed beside the other algorithms is analysed as alone:
\* what AudioAnalysisProofs shows of AudioSpec holds of every request.
THEOREM AnalysisRunsAlone == Spec => AudioSpec
<1>1. Init => AudioInit
    BY DEF Init, AudioRests
<1>2. [Next]_vars => [AudioNext]_audioVars
    BY DEF Next, vars
<1>3. QED BY <1>1, <1>2, PTL DEF Spec, AudioSpec

\* So the decoder of such a file keeps to what its parser accepted, and the
\* segments of its fingerprint leave no gap (mock_decoder.go 54-98, audio.go
\* 15-40).
THEOREM AnalysisStaysSound == Spec => [](DecoderFollowsParser /\ SegmentsCover)
BY AnalysisRunsAlone, DecoderFollowsParserHolds, SegmentsCoverHolds, PTL

\* Whatever strings are embedded into carriers of whatever capacity, copied
\* signatures included: LSB.Detect finds the fields of a payload whose length
\* fits the two bytes when they hold no separator and are all there, and else no
\* fields at all; and what it finds after a wrapped length was, joined as it is
\* signed, signed by the service (lsb.go 15-92, service.go 66-74).
THEOREM DetectionStaysExact == Spec => []DetectionIsExact
<1>1. Init => CodecInv
    BY CodecInitInv DEF Init, CodecRests
<1>2. CodecInv /\ [Next]_vars => CodecInv'
    <2>1. [Next]_vars => [CodecNext]_codecVars
        BY DEF Next, vars
    <2>2. QED BY <2>1, CodecStepInv
<1>3. CodecInv => DetectionIsExact
    BY DEF CodecInv
<1>4. QED BY <1>1, <1>2, <1>3, PTL DEF Spec

\* The invariant holds in every state of a run beside the other algorithms.
LEMMA GridInvariant == Spec => []GridInv
<1>1. Init => GridInv
    BY GridInitInv DEF Init, GridRests
<1>2. GridInv /\ [Next]_vars => GridInv'
    <2>1. [Next]_vars => [TurnOnce]_gridVars
        BY DEF Next, vars
    <2>2. QED BY <2>1, GridStepInv
<1>3. QED BY <1>1, <1>2, PTL DEF Spec

\* The number that canonicalRotations keeps is that of one of the four
\* rotations, and none of them is less, whatever the side of the grid.
THEOREM BestStaysCanonical == Spec => []BestIsCanonical
<1>1. QED BY GridInvariant, GridInvCanonical, PTL

\* Two grids have the same fingerprint exactly when one is a rotation of the
\* other: turning a frame does not change what is compared, and frames that are
\* no rotations of one another are told apart.
THEOREM FingerprintsTellGridsApart ==
    Spec => [](turns = 3 =>
                 \A h \in SUBSET Places, c \in SUBSET Places :
                   IsCanonical(h, c) => (best = c <=> h \in Rotations(bits)))
<1>1. GridInv => (turns = 3 =>
                    \A h \in SUBSET Places, c \in SUBSET Places :
                      IsCanonical(h, c) => (best = c <=> h \in Rotations(bits)))
    <2> SUFFICES ASSUME GridInv, turns = 3,
                        NEW h \in SUBSET Places, NEW c \in SUBSET Places, IsCanonical(h, c)
                 PROVE  best = c <=> h \in Rotations(bits)
        OBVIOUS
    <2>1. bits \in SUBSET Places /\ IsCanonical(bits, best)
        BY GridInvCanonical DEF GridInv, BestIsCanonical, IsCanonical
    <2>2. QED BY <2>1, CanonicalTellsApart
<1>2. QED BY <1>1, GridInvariant, PTL
=============================================================================
