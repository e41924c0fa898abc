--------------------------- MODULE LimiterProofs ---------------------------
(***************************************************************************)
(* That the limiter's bucket answers as the window does, for any rate,     *)
(* burst and cost, any numbers of clients and requests, and readings in    *)
(* any order.                                                              *)
(***************************************************************************)
EXTENDS Limiter, FiniteSetTheorems, WellFoundedInduction, TLAPS

LimiterTypeOK ==
    /\ clock \in Nat
    /\ bucket \in [Clients -> [tokens : Int, last : Int]]
    /\ pc \in [Requests -> {"idle", "asking", "served", "refused"}]
    /\ client \in [Requests -> Clients]
    /\ reading \in [Requests -> Nat]
    /\ served \in [Clients -> Seq(Nat)]

\* What time n brings since the i-th of the requests s, what that request and
\* those after it cost, and what the burst leaves of the two.
Gain(s, n, i)  == Rate * (n - s[i])
Spent(s, i)    == Cost * (Len(s) - i + 1)
Term(s, n, i)  == Burst + Gain(s, n, i) - Spent(s, i)

\* A bucket that holds t at time n, after the requests s were served, holds
\* the least of what they leave.
Level(s, n, t) ==
    /\ \A i \in DOMAIN s : t <= Term(s, n, i)
    /\ \E i \in DOMAIN s : t = Term(s, n, i)

BucketInv ==
    \A c \in Clients :
        IF bucket[c] = NoBucket THEN served[c] = <<>>
        ELSE Level(served[c], bucket[c].last, bucket[c].tokens)

LimiterInv == LimiterTypeOK /\ BucketInv

-----------------------------------------------------------------------------
\* A sum moves by as much as one of its terms.
LEMMA SumsMove ==
    ASSUME NEW b \in Int, NEW g \in Int, NEW h \in Int, NEW p \in Int, NEW d \in Int, g = h + d
    PROVE  b + g - p = (b + h - p) + d /\ b + g - p \in Int
  OBVIOUS

\* The terms move with the reading: forwards or backwards, and all by the same
\* amount.
LEMMA TermMoves ==
    ASSUME NEW s \in Seq(Nat), NEW m \in Int, NEW n \in Int, NEW i \in DOMAIN s
    PROVE  /\ Term(s, n, i) = Term(s, m, i) + Rate * (n - m)
           /\ Gain(s, n, i) \in Int /\ Spent(s, i) \in Int /\ Term(s, n, i) \in Int
  <1> DEFINE d == Rate * (n - m)
  <1>1. s[i] \in Int /\ Len(s) \in Int /\ i \in Int
    OBVIOUS
  <1>2. Gain(s, n, i) = Gain(s, m, i) + d
    BY <1>1, LimiterAssumption DEF Gain
  <1>3. d \in Int /\ Gain(s, n, i) \in Int /\ Gain(s, m, i) \in Int /\ Spent(s, i) \in Int
    BY <1>1, LimiterAssumption DEF Gain, Spent
  <1> HIDE DEF d
  <1>4. Burst \in Int
    BY LimiterAssumption
  <1>5. Term(s, n, i) = Term(s, m, i) + d /\ Term(s, n, i) \in Int
    <2> DEFINE g == Gain(s, n, i)
               h == Gain(s, m, i)
               p == Spent(s, i)
    <2>1. Term(s, n, i) = Burst + g - p /\ Term(s, m, i) = Burst + h - p
      BY DEF Term
    <2>2. g \in Int /\ h \in Int /\ p \in Int /\ g = h + d
      BY <1>2, <1>3
    <2> HIDE DEF g, h, p
    <2>3. Burst + g - p = (Burst + h - p) + d /\ Burst + g - p \in Int
      BY <1>3, <1>4, <2>2, SumsMove
    <2> QED BY <2>1, <2>3
  <1> QED BY <1>3, <1>5 DEF d

\* Gains, costs and terms are numbers.
LEMMA TermsAreNumbers ==
    ASSUME NEW s \in Seq(Nat), NEW n \in Int, NEW i \in DOMAIN s
    PROVE  Gain(s, n, i) \in Int /\ Spent(s, i) \in Int /\ Term(s, n, i) \in Int
  BY TermMoves

\* So the level does.
LEMMA LevelMoves ==
    ASSUME NEW s \in Seq(Nat), NEW m \in Int, NEW n \in Int, NEW t \in Int, Level(s, m, t)
    PROVE  Level(s, n, t + Rate * (n - m))
  <1>1. Rate * (n - m) \in Int
    BY LimiterAssumption
  <1>2. \A i \in DOMAIN s : Term(s, n, i) = Term(s, m, i) + Rate * (n - m) /\ Term(s, m, i) \in Int
    BY TermMoves
  <1> QED BY <1>1, <1>2 DEF Level

\* Serving one more costs every earlier term the same, and adds one that is
\* the full bucket less the cost.
LEMMA TermAfterServing ==
    ASSUME NEW s \in Seq(Nat), NEW n \in Nat
    PROVE  /\ DOMAIN Append(s, n) = DOMAIN s \cup {Len(s) + 1}
           /\ \A i \in DOMAIN s : Term(Append(s, n), n, i) = Term(s, n, i) - Cost
           /\ Term(Append(s, n), n, Len(s) + 1) = Burst - Cost
  <1> DEFINE q == Append(s, n)
  <1>1. Len(q) = Len(s) + 1 /\ Len(s) \in Nat /\ DOMAIN q = DOMAIN s \cup {Len(s) + 1}
    OBVIOUS
  <1>2. q[Len(s) + 1] = n /\ \A i \in DOMAIN s : q[i] = s[i]
    OBVIOUS
  <1>3. ASSUME NEW i \in DOMAIN s
        PROVE  Term(q, n, i) = Term(s, n, i) - Cost
    <2>1. i \in Int /\ s[i] \in Int
      OBVIOUS
    <2>2. Spent(q, i) = Spent(s, i) + Cost
      BY <1>1, <2>1, LimiterAssumption DEF Spent
    <2>3. Gain(q, n, i) = Gain(s, n, i)
      BY <1>2 DEF Gain
    <2>4. Gain(s, n, i) \in Int /\ Spent(s, i) \in Int
      BY TermsAreNumbers
    <2> QED BY <2>2, <2>3, <2>4, LimiterAssumption DEF Term
  <1>4. Term(q, n, Len(s) + 1) = Burst - Cost
    <2>1. Gain(q, n, Len(s) + 1) = 0 /\ Spent(q, Len(s) + 1) = Cost
      BY <1>1, <1>2, LimiterAssumption DEF Gain, Spent
    <2> QED BY <2>1, LimiterAssumption DEF Term
  <1> QED BY <1>1, <1>3, <1>4

\* The bucket and the window give the same answer.
LEMMA SameAnswer ==
    ASSUME LimiterInv, NEW c \in Clients, NEW n \in Nat
    PROVE  /\ Tokens(c, n) \in Int
           /\ Tokens(c, n) >= Cost <=> Window!Fits(c, n)
  <1> DEFINE s == served[c]
             m == bucket[c].last
             t == bucket[c].tokens
  <1>1. s \in Seq(Nat) /\ m \in Int /\ t \in Int
    BY DEF LimiterInv, LimiterTypeOK
  <1>2. CASE bucket[c] = NoBucket
    <2>1. DOMAIN served[c] = {}
      BY <1>2 DEF LimiterInv, BucketInv
    <2>2. Window!Fits(c, n)
      BY <2>1 DEF Window!Fits
    <2> QED BY <1>2, <2>2, LimiterAssumption DEF Tokens
  <1>3. CASE bucket[c] # NoBucket
    <2> DEFINE u == t + Rate * (n - m)
    <2>1. u \in Int
      BY <1>1, LimiterAssumption
    <2>2. Level(s, n, u)
      BY <1>1, <1>3, LevelMoves DEF LimiterInv, BucketInv
    <2>3. Tokens(c, n) = IF u > Burst THEN Burst ELSE u
      BY <1>3 DEF Tokens
    <2>4. Tokens(c, n) >= Cost <=> u >= Cost
      BY <2>1, <2>3, LimiterAssumption
    <2>5. ASSUME NEW i \in DOMAIN s
          PROVE  /\ Term(s, n, i) \in Int
                 /\ Term(s, n, i) >= Cost
                      <=> Cost * (Len(s) - i + 2) <= Burst + Rate * (n - s[i])
      <3>1. s[i] \in Int /\ Len(s) \in Int /\ i \in Int
        BY <1>1
      <3>2. Cost * (Len(s) - i + 2) = Spent(s, i) + Cost
        BY <3>1, LimiterAssumption DEF Spent
      <3>3. Rate * (n - s[i]) = Gain(s, n, i)
        BY DEF Gain
      <3>4. Spent(s, i) \in Int /\ Gain(s, n, i) \in Int
        BY <1>1, TermsAreNumbers
      <3> HIDE DEF s
      <3> QED BY <3>2, <3>3, <3>4, LimiterAssumption DEF Term
    <2>6. u >= Cost <=> \A i \in DOMAIN s : Term(s, n, i) >= Cost
      BY <2>1, <2>2, <2>5, LimiterAssumption DEF Level
    <2>7. Window!Fits(c, n) <=> \A i \in DOMAIN s : Term(s, n, i) >= Cost
      BY <2>5 DEF Window!Fits
    <2> QED BY <2>1, <2>3, <2>4, <2>6, <2>7, LimiterAssumption
  <1> QED BY <1>2, <1>3

-----------------------------------------------------------------------------
\* Serving keeps the bucket at the least of the terms.
LEMMA ServeKeeps ==
    ASSUME LimiterInv, NEW r \in Requests, Serve(r)
    PROVE  LimiterInv'
  <1> DEFINE c == client[r]
             n == reading[r]
             s == served[c]
             m == bucket[c].last
             t == bucket[c].tokens
  <1>1. /\ c \in Clients /\ n \in Nat /\ s \in Seq(Nat) /\ m \in Int /\ t \in Int
        /\ Tokens(c, n) \in Int
    BY SameAnswer DEF LimiterInv, LimiterTypeOK
  <1>2. /\ bucket' = [bucket EXCEPT ![c] = [tokens |-> Tokens(c, n) - Cost, last |-> n]]
        /\ served' = [served EXCEPT ![c] = Append(s, n)]
        /\ pc' = [pc EXCEPT ![r] = "served"]
        /\ UNCHANGED <<clock, client, reading>>
    BY DEF Serve
  <1>3. LimiterTypeOK'
    <2>1. Tokens(c, n) - Cost \in Int
      BY <1>1, LimiterAssumption
    <2>2. Append(s, n) \in Seq(Nat)
      BY <1>1
    <2> QED BY <1>1, <1>2, <2>1, <2>2 DEF LimiterInv, LimiterTypeOK
  <1>4. /\ bucket'[c].last = n /\ bucket'[c].tokens = Tokens(c, n) - Cost
        /\ served'[c] = Append(s, n) /\ bucket'[c] # NoBucket
    BY <1>1, <1>2 DEF LimiterInv, LimiterTypeOK, NoBucket
  <1>5. Level(Append(s, n), n, Tokens(c, n) - Cost)
    <2>1. CASE bucket[c] = NoBucket
      <3>1. s = <<>> /\ Tokens(c, n) = Burst
        BY <1>1, <2>1 DEF LimiterInv, BucketInv, Tokens
      <3>2. DOMAIN Append(s, n) = {Len(s) + 1}
        BY <1>1, <3>1
      <3>3. Term(Append(s, n), n, Len(s) + 1) = Burst - Cost
        BY <1>1, TermAfterServing
      <3> QED BY <3>1, <3>2, <3>3, LimiterAssumption DEF Level
    <2>2. CASE bucket[c] # NoBucket
      <3> DEFINE u == t + Rate * (n - m)
      <3>1. u \in Int /\ Tokens(c, n) = IF u > Burst THEN Burst ELSE u
        BY <1>1, <2>2, LimiterAssumption DEF Tokens
      <3>2. Level(s, n, u)
        <4>1. Level(s, m, t)
          BY <1>1, <2>2 DEF LimiterInv, BucketInv
        <4>2. Level(s, n, t + Rate * (n - m))
          <5>1. n \in Int
            BY <1>1
          <5> HIDE DEF n, s, m, t
          <5> QED BY <1>1, <4>1, <5>1, LevelMoves
        <4> QED BY <4>2
      <3>3. \A i \in DOMAIN s : Term(s, n, i) \in Int
        BY <1>1, TermsAreNumbers
      <3>4. \A i \in DOMAIN s : u <= Term(s, n, i)
        BY <3>2 DEF Level
      <3>5. PICK k \in DOMAIN s : u = Term(s, n, k)
        BY <3>2 DEF Level
      <3> DEFINE q == Append(s, n)
                 w == Tokens(c, n) - Cost
      <3>6. /\ DOMAIN q = DOMAIN s \cup {Len(s) + 1}
            /\ \A i \in DOMAIN s : Term(q, n, i) = Term(s, n, i) - Cost
            /\ Term(q, n, Len(s) + 1) = Burst - Cost
        BY <1>1, TermAfterServing
      <3> HIDE DEF u, s, m, t, q
      <3>7. \A i \in DOMAIN q : w <= Term(q, n, i)
        BY <3>1, <3>3, <3>4, <3>6, LimiterAssumption
      <3>8. \E i \in DOMAIN q : w = Term(q, n, i)
        BY <3>1, <3>5, <3>6, LimiterAssumption
      <3> QED BY <3>7, <3>8 DEF Level, q
    <2> QED BY <2>1, <2>2
  <1>6. BucketInv'
    <2> SUFFICES ASSUME NEW d \in Clients
                 PROVE  IF bucket'[d] = NoBucket THEN served'[d] = <<>>
                        ELSE Level(served'[d], bucket'[d].last, bucket'[d].tokens)
      BY DEF BucketInv, Level, Term, Gain, Spent, NoBucket
    <2>1. CASE d = c
      BY <1>4, <1>5, <2>1
    <2>2. CASE d # c
      BY <1>1, <1>2, <2>2 DEF LimiterInv, LimiterTypeOK, BucketInv
    <2> QED BY <2>1, <2>2
  <1> QED BY <1>3, <1>6 DEF LimiterInv

\* So does refusing: the bucket is below the cost, and hence below the burst.
LEMMA RefuseKeeps ==
    ASSUME LimiterInv, NEW r \in Requests, Refuse(r)
    PROVE  LimiterInv'
  <1> DEFINE c == client[r]
             n == reading[r]
             s == served[c]
             m == bucket[c].last
             t == bucket[c].tokens
             u == t + Rate * (n - m)
  <1>1. /\ c \in Clients /\ n \in Nat /\ s \in Seq(Nat) /\ m \in Int /\ t \in Int /\ u \in Int
        /\ Tokens(c, n) \in Int
    <2>1. c \in Clients /\ n \in Nat /\ s \in Seq(Nat) /\ m \in Int /\ t \in Int
      BY DEF LimiterInv, LimiterTypeOK
    <2>2. Tokens(c, n) \in Int
      BY <2>1, SameAnswer
    <2> HIDE DEF m, t
    <2>3. u \in Int
      BY <2>1, LimiterAssumption
    <2> QED BY <2>1, <2>2, <2>3
  <1>2. /\ bucket' = [bucket EXCEPT ![c] = [tokens |-> Tokens(c, n), last |-> n]]
        /\ pc' = [pc EXCEPT ![r] = "refused"]
        /\ UNCHANGED <<clock, client, reading, served>>
    BY DEF Refuse
  <1>3. LimiterTypeOK'
    BY <1>1, <1>2 DEF LimiterInv, LimiterTypeOK
  <1>4. bucket[c] # NoBucket /\ Tokens(c, n) = u
    BY <1>1, LimiterAssumption DEF Refuse, Tokens
  <1>5. Level(s, n, Tokens(c, n))
    BY <1>1, <1>4, LevelMoves DEF LimiterInv, BucketInv
  <1>6. /\ bucket'[c].last = n /\ bucket'[c].tokens = Tokens(c, n)
        /\ served'[c] = s /\ bucket'[c] # NoBucket
    BY <1>1, <1>2 DEF LimiterInv, LimiterTypeOK, NoBucket
  <1>7. BucketInv'
    <2> SUFFICES ASSUME NEW d \in Clients
                 PROVE  IF bucket'[d] = NoBucket THEN served'[d] = <<>>
                        ELSE Level(served'[d], bucket'[d].last, bucket'[d].tokens)
      BY DEF BucketInv, Level, Term, Gain, Spent, NoBucket
    <2>1. CASE d = c
      BY <1>5, <1>6, <2>1
    <2>2. CASE d # c
      BY <1>1, <1>2, <2>2 DEF LimiterInv, LimiterTypeOK, BucketInv
    <2> QED BY <2>1, <2>2
  <1> QED BY <1>3, <1>7 DEF LimiterInv

\* Every bucket always holds exactly what the requests served leave of the
\* burst and the gain, whatever order their readings came in.
THEOREM BucketsAreExact == Spec => []LimiterInv
  <1>1. Init => LimiterInv
    BY DEF Init, LimiterInv, LimiterTypeOK, BucketInv, NoBucket
  <1>2. LimiterInv /\ [Next]_vars => LimiterInv'
    <2> SUFFICES ASSUME LimiterInv, [Next]_vars
                 PROVE  LimiterInv'
      OBVIOUS
    <2>1. CASE Tick
      BY <2>1 DEF Tick, LimiterInv, LimiterTypeOK, BucketInv, Level, Term, Gain, Spent
    <2>2. ASSUME NEW r \in Requests, NEW c \in Clients, ReadClock(r, c)
          PROVE  LimiterInv'
      BY <2>2 DEF ReadClock, LimiterInv, LimiterTypeOK, BucketInv, Level, Term, Gain, Spent
    <2>3. CASE UNCHANGED vars
      BY <2>3 DEF vars, LimiterInv, LimiterTypeOK, BucketInv, Level, Term, Gain, Spent
    <2> QED BY <2>1, <2>2, <2>3, ServeKeeps, RefuseKeeps DEF Next
  <1> QED BY <1>1, <1>2, PTL DEF Spec

\* The limiter implements the window: each request is served exactly when it
\* fits into burst and rate with those served before it.
THEOREM LimiterImplementsWindow == Spec => ImplementsWindow
  <1>1. Init => Window!Init
    BY DEF Init, Window!Init
  <1>2. LimiterInv /\ [Next]_vars => [Window!Next]_<<pc, client, reading, served>>
    <2> SUFFICES ASSUME LimiterInv, [Next]_vars
                 PROVE  [Window!Next]_<<pc, client, reading, served>>
      OBVIOUS
    <2>1. CASE Tick \/ UNCHANGED vars
      BY <2>1 DEF Tick, vars
    <2>2. ASSUME NEW r \in Requests, NEW c \in Clients, ReadClock(r, c)
          PROVE  Window!Next
      <3>1. reading'[r] = clock /\ clock \in Int
        BY <2>2 DEF ReadClock, LimiterInv, LimiterTypeOK
      <3>2. Window!Ask(r, c)
        BY <2>2, <3>1 DEF ReadClock, Window!Ask
      <3> QED BY <3>2 DEF Window!Next
    <2>3. ASSUME NEW r \in Requests, Serve(r)
          PROVE  Window!Next
      <3>1. client[r] \in Clients /\ reading[r] \in Nat
        BY DEF LimiterInv, LimiterTypeOK
      <3>2. Window!Fits(client[r], reading[r])
        BY <2>3, <3>1, SameAnswer DEF Serve
      <3>3. Window!Serve(r)
        BY <2>3, <3>2 DEF Serve, Window!Serve
      <3> QED BY <3>3 DEF Window!Next
    <2>4. ASSUME NEW r \in Requests, Refuse(r)
          PROVE  Window!Next
      <3>1. client[r] \in Clients /\ reading[r] \in Nat
        BY DEF LimiterInv, LimiterTypeOK
      <3>2. ~Window!Fits(client[r], reading[r])
        BY <2>4, <3>1, SameAnswer, LimiterAssumption DEF Refuse
      <3>3. Window!Refuse(r)
        BY <2>4, <3>2 DEF Refuse, Window!Refuse
      <3> QED BY <3>3 DEF Window!Next
    <2> QED BY <2>1, <2>2, <2>3, <2>4 DEF Next
  <1> QED BY <1>1, <1>2, BucketsAreExact, PTL DEF Spec, ImplementsWindow, Window!Spec

-----------------------------------------------------------------------------
\* What any stretch of time admits.

\* Of the requests served in a row, from the i-th to the j-th, none is beyond
\* what burst and rate give between these two.
Fit(s) ==
    \A i, j \in DOMAIN s : i <= j => Cost * (j - i + 1) <= Burst + Rate * (s[j] - s[i])

RunsFit == \A c \in Clients : Fit(served[c])

\* A factor that is not negative keeps an order.
LEMMA ProductGrows ==
    ASSUME NEW a \in Nat, NEW x \in Int, NEW y \in Int, x <= y
    PROVE  a * x <= a * y /\ a * x \in Int /\ a * y \in Int
  OBVIOUS

\* A set of natural numbers that is not empty has a least element.
LEMMA LeastNumber ==
    ASSUME NEW S \in SUBSET Nat, S # {}
    PROVE  \E m \in S : \A k \in S : m <= k
  <1> DEFINE Smaller == {ss \in Nat \X Nat : ss[1] < ss[2]}
  <1>1. IsWellFoundedOn(Smaller, Nat)
    BY NatLessThanWellFounded DEF OpToRel
  <1> HIDE DEF Smaller
  <1>2. PICK m \in S : \A k \in S : <<k, m>> \notin Smaller
    BY <1>1, WFMin, Zenon
  <1>3. ASSUME NEW k \in S, ~(m <= k) PROVE FALSE
    <2>1. k \in Nat /\ m \in Nat /\ k < m
      BY <1>3
    <2>2. <<k, m>> \in Smaller
      BY <2>1 DEF Smaller
    <2> QED BY <1>2, <2>2
  <1> QED BY <1>3

\* A set of indices that is not empty lies between two of its own.
LEMMA FirstAndLast ==
    ASSUME NEW n \in Nat, NEW H, \A k \in H : k \in Nat /\ k <= n, H # {}
    PROVE  \E i \in H : \E j \in H : \A k \in H : i <= k /\ k <= j
  <1>1. H \in SUBSET Nat
    OBVIOUS
  <1>2. PICK i \in H : \A k \in H : i <= k
    BY <1>1, LeastNumber
  <1> DEFINE T == {m \in Nat : n - m \in H}
  <1>3. T \in SUBSET Nat /\ n - i \in T
    OBVIOUS
  <1>4. PICK m \in T : \A k \in T : m <= k
    BY <1>3, LeastNumber
  <1>5. ASSUME NEW k \in H PROVE k <= n - m
    <2>1. n - k \in T
      OBVIOUS
    <2>2. m <= n - k
      BY <1>4, <2>1
    <2> QED BY <2>2
  <1> QED BY <1>2, <1>4, <1>5

\* Indices between i and j are no more than there are between them.
LEMMA FewBetween ==
    ASSUME NEW i \in Nat, NEW j \in Nat, i <= j,
           NEW H, \A k \in H : k \in Nat /\ i <= k /\ k <= j
    PROVE  Cardinality(H) \in Nat /\ Cardinality(H) <= j - i + 1
  <1>1. IsFiniteSet(i..j) /\ Cardinality(i..j) = j - i + 1
    BY FS_Interval
  <1>2. H \in SUBSET (i..j)
    OBVIOUS
  <1>3. IsFiniteSet(H) /\ Cardinality(H) <= Cardinality(i..j)
    BY <1>1, <1>2, FS_Subset
  <1> QED BY <1>1, <1>3, FS_CardinalityType

\* A request that fits keeps all runs within bounds: it ends those that begin
\* before it, and alone it costs no more than the burst.
LEMMA FitGrows ==
    ASSUME NEW s \in Seq(Nat), NEW n \in Nat, Fit(s),
           \A i \in DOMAIN s : Cost * (Len(s) - i + 2) <= Burst + Rate * (n - s[i])
    PROVE  Fit(Append(s, n))
  <1> DEFINE t == Append(s, n)
             k == Len(s) + 1
  <1>1. /\ DOMAIN t = 1..k /\ DOMAIN s = 1..Len(s) /\ Len(s) \in Nat
        /\ t[k] = n /\ \A i \in 1..Len(s) : t[i] = s[i]
    OBVIOUS
  <1>2. ASSUME NEW i \in 1..k, NEW j \in 1..k, i <= j
        PROVE  Cost * (j - i + 1) <= Burst + Rate * (t[j] - t[i])
    <2>1. CASE j <= Len(s)
      <3>1. i \in DOMAIN s /\ j \in DOMAIN s /\ t[i] = s[i] /\ t[j] = s[j]
        BY <1>1, <1>2, <2>1
      <3>2. Cost * (j - i + 1) <= Burst + Rate * (s[j] - s[i])
        BY <1>2, <3>1 DEF Fit
      <3> QED BY <3>1, <3>2
    <2>2. CASE j = k /\ i <= Len(s)
      <3>1. j - i + 1 = Len(s) - i + 2 /\ t[j] = n /\ t[i] = s[i] /\ i \in DOMAIN s
        BY <1>1, <1>2, <2>2
      <3> QED BY <3>1
    <2>3. CASE j = k /\ i = k
      <3>1. j - i + 1 = 1 /\ t[j] - t[i] = 0
        BY <1>1, <2>3
      <3>2. Cost * 1 = Cost /\ Rate * 0 = 0 /\ Cost <= Burst + 0
        BY LimiterAssumption
      <3> QED BY <3>1, <3>2
    <2> QED BY <1>1, <1>2, <2>1, <2>2, <2>3
  <1> HIDE DEF t
  <1>3. Fit(t)
    BY <1>1, <1>2 DEF Fit
  <1> QED BY <1>3 DEF t

\* Requests of any times in a stretch lie in the run from the first to the last
\* of them to be served, and that run fits.
LEMMA HitsFit ==
    ASSUME NEW s \in Seq(Nat), Fit(s), NEW lo \in Nat, NEW hi \in Nat, lo <= hi,
           NEW H, H \subseteq DOMAIN s, H # {}, \A k \in H : s[k] \in lo..hi
    PROVE  Cost * Cardinality(H) <= Burst + Rate * (hi - lo)
  <1>1. Len(s) \in Nat /\ \A k \in H : k \in Nat /\ k <= Len(s)
    OBVIOUS
  <1>2. PICK i \in H : \E j \in H : \A k \in H : i <= k /\ k <= j
    BY <1>1, FirstAndLast
  <1>3. PICK j \in H : \A k \in H : i <= k /\ k <= j
    BY <1>2
  <1>4. /\ i \in Nat /\ j \in Nat /\ i <= j /\ i \in DOMAIN s /\ j \in DOMAIN s
        /\ \A k \in H : k \in Nat /\ i <= k /\ k <= j
    BY <1>1, <1>3
  <1>5. Cardinality(H) \in Nat /\ Cardinality(H) <= j - i + 1
    BY <1>4, FewBetween
  <1> DEFINE d == s[j] - s[i]
             count == Cardinality(H)
             between == j - i + 1
  <1>6. d \in Int /\ d <= hi - lo
    <2>1. s[i] \in lo..hi /\ s[j] \in lo..hi
      OBVIOUS
    <2> QED BY <2>1
  <1>7. Cost * between <= Burst + Rate * d
    BY <1>4 DEF Fit
  <1>8. count \in Int /\ between \in Int /\ count <= between
    BY <1>4, <1>5
  <1> HIDE DEF d, count, between
  <1>9. Cost * count <= Cost * between /\ Cost * count \in Int /\ Cost * between \in Int
    BY <1>8, ProductGrows, LimiterAssumption
  <1>10. Rate * d <= Rate * (hi - lo) /\ Rate * d \in Int /\ Rate * (hi - lo) \in Int
    <2>1. hi - lo \in Int /\ Rate \in Nat
      BY LimiterAssumption
    <2> QED BY <1>6, <2>1, ProductGrows
  <1>11. Cost * count <= Burst + Rate * (hi - lo)
    BY <1>7, <1>9, <1>10, LimiterAssumption
  <1> QED BY <1>11 DEF count

\* So all of them together, if there are any, are within the bounds.
LEMMA StretchFits ==
    ASSUME NEW s \in Seq(Nat), Fit(s), NEW lo \in Nat, NEW hi \in Nat, lo <= hi
    PROVE  Cost * Cardinality({i \in DOMAIN s : s[i] \in lo..hi}) <= Burst + Rate * (hi - lo)
  <1> DEFINE H == {i \in DOMAIN s : s[i] \in lo..hi}
  <1>1. H \subseteq DOMAIN s /\ \A k \in H : s[k] \in lo..hi
    OBVIOUS
  <1> HIDE DEF H
  <1>2. CASE H = {}
    <2>1. Cardinality(H) = 0
      BY <1>2, FS_EmptySet
    <2>2. Rate * 0 <= Rate * (hi - lo) /\ Rate * (hi - lo) \in Int
      BY ProductGrows, LimiterAssumption
    <2>3. Cost * 0 = 0 /\ Rate * 0 = 0 /\ 0 <= Burst
      BY LimiterAssumption
    <2> QED BY <2>1, <2>2, <2>3, LimiterAssumption DEF H
  <1>3. CASE H # {}
    BY <1>1, <1>3, HitsFit DEF H
  <1> QED BY <1>2, <1>3 DEF H

\* A step serves at most one request, and one that fits.
LEMMA RunsKeepFitting == LimiterInv /\ RunsFit /\ [Next]_vars => RunsFit'
  <1> SUFFICES ASSUME LimiterInv, RunsFit, [Next]_vars PROVE RunsFit'
    OBVIOUS
  <1>1. served \in [Clients -> Seq(Nat)]
    BY DEF LimiterInv, LimiterTypeOK
  <1>2. CASE served' = served
    BY <1>2 DEF RunsFit, Fit
  <1>3. ASSUME NEW r \in Requests, Serve(r) PROVE RunsFit'
    <2> DEFINE c == client[r]
               n == reading[r]
    <2>1. c \in Clients /\ n \in Nat
      BY DEF LimiterInv, LimiterTypeOK
    <2>2. Window!Fits(c, n)
      BY <1>3, <2>1, SameAnswer DEF Serve
    <2>3. served' = [served EXCEPT ![c] = Append(served[c], n)]
      BY <1>3 DEF Serve
    <2>4. Fit(Append(served[c], n))
      BY <1>1, <2>1, <2>2, FitGrows DEF RunsFit, Window!Fits
    <2> HIDE DEF c, n
    <2>5. \A d \in Clients : served'[d] = IF d = c THEN Append(served[c], n) ELSE served[d]
      BY <1>1, <2>3
    <2>6. ASSUME NEW d \in Clients PROVE Fit(served'[d])
      <3>1. CASE d = c
        BY <2>4, <2>5, <3>1
      <3>2. CASE d # c
        <4>1. served'[d] = served[d]
          BY <2>5, <3>2
        <4> QED BY <4>1 DEF RunsFit
      <3> QED BY <3>1, <3>2
    <2> QED BY <2>6 DEF RunsFit, Fit
  <1> QED BY <1>2, <1>3 DEF Next, Tick, ReadClock, Refuse, vars

\* What the limiter is for (middleware.go 96-125): whatever the interleaving,
\* no stretch of time admits more of one client's requests than the burst and
\* the rate allow for its length.
THEOREM RateIsKeptHolds == Spec => []RateIsKept
  <1>1. Init => RunsFit
    BY DEF Init, RunsFit, Fit
  <1>2. LimiterInv /\ RunsFit => RateIsKept
    <2> SUFFICES ASSUME LimiterInv, RunsFit, NEW c \in Clients,
                        NEW lo \in 0..clock, NEW hi \in lo..clock
                 PROVE  Cost * Cardinality({i \in DOMAIN served[c] : served[c][i] \in lo..hi})
                            <= Burst + Rate * (hi - lo)
      BY DEF RateIsKept
    <2>1. lo \in Nat /\ hi \in Nat /\ lo <= hi /\ served[c] \in Seq(Nat)
      BY DEF LimiterInv, LimiterTypeOK
    <2> QED BY <2>1, StretchFits DEF RunsFit
  <1> QED BY <1>1, <1>2, BucketsAreExact, RunsKeepFitting, PTL DEF Spec
=============================================================================
