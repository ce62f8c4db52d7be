--------------------------- MODULE Basics_proofs ----------------------------
(***************************************************************************)
(* Facts about sets, lists and recursive functions that the proofs of      *)
(* several components need: least members, where an element of a list goes *)
(* when another is inserted or removed, and that a function which is       *)
(* defined by recursion exists.                                            *)
(***************************************************************************)
EXTENDS Integers, Sequences, SequencesExt, FiniteSets,
        SequenceTheorems, FiniteSetTheorems, WellFoundedInduction, TLAPS

-----------------------------------------------------------------------------
\* Least members.

\* A family of subsets of a finite set has a minimal member.
LEMMA LeastSet ==
  ASSUME NEW D, IsFiniteSet(D), NEW T \in SUBSET (SUBSET D), T # {}
  PROVE  \E S \in T : \A R \in T : R \subseteq S => R = S
<1>1. PICK S \in T : \A R \in T : <<R, S>> \notin StrictSubsetOrdering(D)
  <2>1. IsWellFoundedOn(StrictSubsetOrdering(D), SUBSET D)
    BY FS_StrictSubsetOrderingWellFounded, FS_FiniteSubsetsOfFinite
  <2> QED BY ONLY <2>1, WFMin, T \in SUBSET (SUBSET D), T # {}
<1> QED BY <1>1 DEF StrictSubsetOrdering

\* A set of numbers has a least member.
LEMMA LeastNat ==
  ASSUME NEW S \in SUBSET Nat, S # {}
  PROVE  \E n \in S : \A m \in S : n <= m
<1>1. PICK k \in S : TRUE
  OBVIOUS
<1> DEFINE T == {0 .. n : n \in {i \in S : i <= k}}
<1>2. k \in Nat /\ IsFiniteSet(0 .. k)
  BY <1>1, FS_Interval
<1>6. T \in SUBSET (SUBSET (0 .. k)) /\ T # {}
  BY <1>1, <1>2
<1>3. PICK R \in T : \A Q \in T : Q \subseteq R => Q = R
  <2> DEFINE D == 0 .. k
  <2>1. IsFiniteSet(D) /\ T \in SUBSET (SUBSET D) /\ T # {}
    BY <1>2, <1>6
  <2> HIDE DEF T, D
  <2> QED BY <2>1, LeastSet
<1>4. PICK n \in S : n <= k /\ R = 0 .. n
  BY <1>3
<1>5. ASSUME NEW m \in S, m < n
      PROVE  FALSE
  <2>1. 0 .. m \in T /\ 0 .. m \subseteq 0 .. n
    BY <1>4, <1>5
  <2>2. n \in 0 .. m
    <3>1. 0 .. m = 0 .. n
      <4> HIDE DEF T
      <4> QED BY <2>1, <1>3, <1>4
    <3> QED BY <3>1
  <2> QED BY <2>2, <1>5
<1> QED BY <1>5

-----------------------------------------------------------------------------
\* Lists, as insert(), remove() and index() use them.

\* The index of the only element that passes a test.
LEMMA OnlyIndex ==
  ASSUME NEW S, NEW s \in Seq(S), NEW k \in 1 .. Len(s), NEW I,
         I = {k}
  PROVE  Min(I) = k
  BY DEF Min

\* remove() of the k-th element.
LEMMA RemoveAtPlace ==
  ASSUME NEW S, NEW s \in Seq(S), NEW k \in 1 .. Len(s)
  PROVE  /\ RemoveAt(s, k) \in Seq(S)
         /\ Len(RemoveAt(s, k)) = Len(s) - 1
         /\ \A i \in 1 .. Len(s) - 1 : RemoveAt(s, k)[i] = IF i < k THEN s[i] ELSE s[i + 1]
<1>0. Len(s) \in Nat
  BY LenProperties
<1>1. /\ SubSeq(s, 1, k - 1) \in Seq(S)
      /\ Len(SubSeq(s, 1, k - 1)) = k - 1
      /\ \A i \in 1 .. k - 1 : SubSeq(s, 1, k - 1)[i] = s[i]
  <2>1. \A i \in 1 .. k - 1 : s[i] \in S
    BY <1>0, ElementOfSeq
  <2> DEFINE n == k - 1
  <2>2. n \in Int /\ n >= 0 /\ \A i \in 1 .. n : s[i] \in S
    BY <1>0, <2>1
  <2> HIDE DEF n
  <2>3. /\ SubSeq(s, 1, n) \in Seq(S)
        /\ Len(SubSeq(s, 1, n)) = IF 1 <= n THEN n - 1 + 1 ELSE 0
        /\ \A i \in 1 .. n - 1 + 1 : SubSeq(s, 1, n)[i] = s[1 + i - 1]
    BY <2>2, SubSeqProperties
  <2>4. Len(SubSeq(s, 1, n)) = n /\ \A i \in 1 .. n : SubSeq(s, 1, n)[i] = s[i]
    BY <2>2, <2>3
  <2> QED BY <2>3, <2>4 DEF n
<1>2. /\ SubSeq(s, k + 1, Len(s)) \in Seq(S)
      /\ Len(SubSeq(s, k + 1, Len(s))) = Len(s) - k
      /\ \A i \in 1 .. Len(s) - k : SubSeq(s, k + 1, Len(s))[i] = s[k + i]
  <2> DEFINE m == k + 1
             n == Len(s)
  <2>1. m \in Int /\ n \in Int /\ m <= n + 1 /\ m >= 2 /\ \A i \in m .. n : s[i] \in S
    BY <1>0, ElementOfSeq
  <2> HIDE DEF m, n
  <2>2. /\ SubSeq(s, m, n) \in Seq(S)
        /\ Len(SubSeq(s, m, n)) = IF m <= n THEN n - m + 1 ELSE 0
        /\ \A i \in 1 .. n - m + 1 : SubSeq(s, m, n)[i] = s[m + i - 1]
    BY <2>1, SubSeqProperties
  <2>3. /\ Len(SubSeq(s, m, n)) = n - m + 1
        /\ \A i \in 1 .. n - m + 1 : SubSeq(s, m, n)[i] = s[m - 1 + i]
    BY <2>1, <2>2
  <2>4. n - m + 1 = Len(s) - k /\ m - 1 = k
    BY <1>0 DEF m, n
  <2> QED BY <2>2, <2>3, <2>4 DEF m, n
<1>3. RemoveAt(s, k) = SubSeq(s, 1, k - 1) \o SubSeq(s, k + 1, Len(s))
  BY DEF RemoveAt
<1> DEFINE a == SubSeq(s, 1, k - 1)
           b == SubSeq(s, k + 1, Len(s))
<1> HIDE DEF a, b
<1>4. /\ a \o b \in Seq(S)
      /\ Len(a \o b) = Len(s) - 1
      /\ \A i \in 1 .. Len(s) - 1 : (a \o b)[i] = IF i < k THEN s[i] ELSE s[i + 1]
  <2>1. a \in Seq(S) /\ Len(a) = k - 1 /\ \A i \in 1 .. k - 1 : a[i] = s[i]
    BY <1>1 DEF a
  <2>2. b \in Seq(S) /\ Len(b) = Len(s) - k /\ \A i \in 1 .. Len(s) - k : b[i] = s[k + i]
    BY <1>2 DEF b
  <2>3. /\ a \o b \in Seq(S)
        /\ Len(a \o b) = Len(a) + Len(b)
        /\ \A i \in 1 .. Len(a) + Len(b) : (a \o b)[i] = IF i <= Len(a) THEN a[i] ELSE b[i - Len(a)]
    BY <2>1, <2>2, ConcatProperties
  <2>4. Len(a) + Len(b) = Len(s) - 1
    BY <1>0, <2>1, <2>2
  <2>5. ASSUME NEW i \in 1 .. Len(s) - 1
        PROVE  (a \o b)[i] = IF i < k THEN s[i] ELSE s[i + 1]
    <3>1. CASE i < k
      BY <1>0, <2>1, <2>3, <2>4, <3>1
    <3>2. CASE ~(i < k)
      <4>1. i - (k - 1) \in 1 .. Len(s) - k /\ k + (i - (k - 1)) = i + 1
        BY <1>0, <3>2
      <4>2. (a \o b)[i] = b[i - (k - 1)]
        BY <1>0, <2>1, <2>3, <2>4, <3>2
      <4>3. b[i - (k - 1)] = s[k + (i - (k - 1))]
        BY <2>2, <4>1
      <4> QED BY <3>2, <4>1, <4>2, <4>3
    <3> QED BY <3>1, <3>2
  <2> QED BY <2>3, <2>4, <2>5
<1> QED BY <1>3, <1>4 DEF a, b

\* insert() before the k-th element, or at the end.
LEMMA InsertAtPlace ==
  ASSUME NEW S, NEW s \in Seq(S), NEW e \in S, NEW k \in 1 .. Len(s) + 1
  PROVE  /\ InsertAt(s, k, e) \in Seq(S)
         /\ Len(InsertAt(s, k, e)) = Len(s) + 1
         /\ InsertAt(s, k, e)[k] = e
         /\ \A i \in 1 .. Len(s) + 1 :
              InsertAt(s, k, e)[i] = IF i < k THEN s[i] ELSE IF i = k THEN e ELSE s[i - 1]
<1>0. Len(s) \in Nat
  BY LenProperties
<1>1. /\ SubSeq(s, 1, k - 1) \in Seq(S)
      /\ Len(SubSeq(s, 1, k - 1)) = k - 1
      /\ \A i \in 1 .. k - 1 : SubSeq(s, 1, k - 1)[i] = s[i]
  <2> DEFINE n == k - 1
  <2>2. n \in Int /\ n >= 0 /\ \A i \in 1 .. n : s[i] \in S
    BY <1>0, ElementOfSeq
  <2> HIDE DEF n
  <2>3. /\ SubSeq(s, 1, n) \in Seq(S)
        /\ Len(SubSeq(s, 1, n)) = IF 1 <= n THEN n - 1 + 1 ELSE 0
        /\ \A i \in 1 .. n - 1 + 1 : SubSeq(s, 1, n)[i] = s[1 + i - 1]
    BY <2>2, SubSeqProperties
  <2>4. Len(SubSeq(s, 1, n)) = n /\ \A i \in 1 .. n : SubSeq(s, 1, n)[i] = s[i]
    BY <2>2, <2>3
  <2> QED BY <2>3, <2>4 DEF n
<1>2. /\ SubSeq(s, k, Len(s)) \in Seq(S)
      /\ Len(SubSeq(s, k, Len(s))) = Len(s) - k + 1
      /\ \A i \in 1 .. Len(s) - k + 1 : SubSeq(s, k, Len(s))[i] = s[k + i - 1]
  <2> DEFINE n == Len(s)
  <2>1. k \in Int /\ n \in Int /\ k <= n + 1 /\ k >= 1 /\ \A i \in k .. n : s[i] \in S
    BY <1>0, ElementOfSeq
  <2> HIDE DEF n
  <2>2. /\ SubSeq(s, k, n) \in Seq(S)
        /\ Len(SubSeq(s, k, n)) = IF k <= n THEN n - k + 1 ELSE 0
        /\ \A i \in 1 .. n - k + 1 : SubSeq(s, k, n)[i] = s[k + i - 1]
    BY <2>1, SubSeqProperties
  <2> QED BY <2>1, <2>2 DEF n
<1> DEFINE a == SubSeq(s, 1, k - 1)
           b == SubSeq(s, k, Len(s))
           m == <<e>>
<1>3. InsertAt(s, k, e) = (a \o m) \o b
  BY DEF InsertAt
<1>4. a \in Seq(S) /\ Len(a) = k - 1 /\ \A i \in 1 .. k - 1 : a[i] = s[i]
  BY <1>1
<1>5. b \in Seq(S) /\ Len(b) = Len(s) - k + 1 /\ \A i \in 1 .. Len(s) - k + 1 : b[i] = s[k + i - 1]
  BY <1>2
<1>6. m \in Seq(S) /\ Len(m) = 1 /\ m[1] = e
  OBVIOUS
<1> HIDE DEF a, b, m
<1>7. /\ a \o m \in Seq(S) /\ Len(a \o m) = k
      /\ \A i \in 1 .. k - 1 : (a \o m)[i] = s[i]
      /\ (a \o m)[k] = e
  <2>1. /\ a \o m \in Seq(S) /\ Len(a \o m) = Len(a) + Len(m)
        /\ \A i \in 1 .. Len(a) + Len(m) : (a \o m)[i] = IF i <= Len(a) THEN a[i] ELSE m[i - Len(a)]
    BY <1>4, <1>6, ConcatProperties
  <2> QED BY <1>0, <1>4, <1>6, <2>1
<1>8. /\ (a \o m) \o b \in Seq(S) /\ Len((a \o m) \o b) = Len(s) + 1
      /\ \A i \in 1 .. Len(s) + 1 : ((a \o m) \o b)[i] = IF i <= k THEN (a \o m)[i] ELSE b[i - k]
  <2> DEFINE c == a \o m
  <2>1. c \in Seq(S) /\ Len(c) = k
    BY <1>7
  <2> HIDE DEF c
  <2>2. /\ c \o b \in Seq(S) /\ Len(c \o b) = Len(c) + Len(b)
        /\ \A i \in 1 .. Len(c) + Len(b) : (c \o b)[i] = IF i <= Len(c) THEN c[i] ELSE b[i - Len(c)]
    BY <1>5, <2>1, ConcatProperties
  <2>3. Len(c) + Len(b) = Len(s) + 1
    BY <1>0, <1>5, <2>1
  <2> QED BY <2>1, <2>2, <2>3 DEF c
<1>9. ASSUME NEW i \in 1 .. Len(s) + 1
      PROVE  ((a \o m) \o b)[i] = IF i < k THEN s[i] ELSE IF i = k THEN e ELSE s[i - 1]
  <2>1. CASE i <= k
    BY <1>0, <1>7, <1>8, <2>1
  <2>2. CASE ~(i <= k)
    <3>1. i - k \in 1 .. Len(s) - k + 1 /\ k + (i - k) - 1 = i - 1
      BY <1>0, <2>2
    <3>2. b[i - k] = s[k + (i - k) - 1]
      BY <1>5, <3>1
    <3> QED BY <1>0, <1>8, <2>2, <3>1, <3>2
  <2> QED BY <2>1, <2>2
<1> QED BY <1>3, <1>8, <1>9

\* A list of elements of S is one of elements of a larger set.
LEMMA SeqWithin ==
  ASSUME NEW T, NEW S \in SUBSET T
  PROVE  Seq(S) \subseteq Seq(T)
<1>1. SUFFICES ASSUME NEW s \in Seq(S)
               PROVE  s \in Seq(T)
  OBVIOUS
<1>2. Len(s) \in Nat /\ s \in [1 .. Len(s) -> S]
  BY LenProperties
<1> DEFINE n == Len(s)
<1>3. n \in Nat /\ s \in [1 .. n -> T]
  BY <1>2
<1> HIDE DEF n
<1> QED BY <1>3

\* A list without repetition, seen by its elements.
LEMMA ListRange ==
  ASSUME NEW S, NEW s \in Seq(S)
  PROVE  /\ Range(s) = {s[i] : i \in 1 .. Len(s)}
         /\ Range(s) \subseteq S
         /\ IsInjective(s) <=> \A i, j \in 1 .. Len(s) : s[i] = s[j] => i = j
  BY LenProperties, ElementOfSeq DEF Range, IsInjective

\* remove() finds the element where it is.
LEMMA RemoveFirstAt ==
  ASSUME NEW S, NEW s \in Seq(S), IsInjective(s), NEW k \in 1 .. Len(s)
  PROVE  {i \in 1 .. Len(s) : s[i] = s[k]} = {k} /\ RemoveFirst(s, s[k]) = RemoveAt(s, k)
<1>1. {i \in 1 .. Len(s) : s[i] = s[k]} = {k}
  BY ListRange
<1>2. SelectInSeq(s, LAMBDA q : q = s[k]) = k
  BY <1>1, OnlyIndex DEF SelectInSeq
<1> QED BY <1>1, <1>2 DEF RemoveFirst

\* The elements of lists of at most two.
LEMMA SmallRanges ==
  /\ Range(<<>>) = {}
  /\ \A a : Range(<<a>>) = {a}
  /\ \A a, b : Range(<<a, b>>) = {a, b}
<1>1. Range(<<>>) = {}
  BY DEF Range
<1>2. ASSUME NEW a
      PROVE  Range(<<a>>) = {a}
  BY DEF Range
<1>3. ASSUME NEW a, NEW b
      PROVE  Range(<<a, b>>) = {a, b}
  <2>1. DOMAIN <<a, b>> = 1 .. 2
    OBVIOUS
  <2> QED BY <2>1 DEF Range
<1> QED BY <1>1, <1>2, <1>3

\* The end of a list and what comes before it.
LEMMA EndOf ==
  ASSUME NEW S, NEW s \in Seq(S), s # <<>>
  PROVE  /\ Last(s) = s[Len(s)] /\ Len(s) \in Nat \ {0}
         /\ Front(s) \in Seq(S) /\ Len(Front(s)) = Len(s) - 1
         /\ \A i \in 1 .. Len(s) - 1 : Front(s)[i] = s[i]
<1>1. Len(s) \in Nat \ {0}
  BY EmptySeq, LenProperties
<1>2. \A i \in 1 .. Len(s) - 1 : s[i] \in S
  BY <1>1, ElementOfSeq
<1> DEFINE n == Len(s) - 1
<1>3. n \in Int /\ n >= 0 /\ \A i \in 1 .. n : s[i] \in S
  BY <1>1, <1>2
<1>4. Front(s) = SubSeq(s, 1, n) /\ Last(s) = s[Len(s)]
  BY DEF Front, Last
<1> HIDE DEF n
<1>5. /\ SubSeq(s, 1, n) \in Seq(S)
      /\ Len(SubSeq(s, 1, n)) = IF 1 <= n THEN n - 1 + 1 ELSE 0
      /\ \A i \in 1 .. n - 1 + 1 : SubSeq(s, 1, n)[i] = s[1 + i - 1]
  BY <1>3, SubSeqProperties
<1>6. Len(SubSeq(s, 1, n)) = n /\ \A i \in 1 .. n : SubSeq(s, 1, n)[i] = s[i]
  BY <1>3, <1>5
<1> QED BY <1>1, <1>4, <1>5, <1>6 DEF n

\* A push at the head of a list shifts its elements.
LEMMA PushHead ==
  ASSUME NEW S, NEW s \in Seq(S), NEW e \in S
  PROVE  /\ <<e>> \o s \in Seq(S) /\ Len(<<e>> \o s) = Len(s) + 1 /\ Len(s) \in Nat
         /\ (<<e>> \o s)[1] = e
         /\ \A i \in 2 .. Len(s) + 1 : (<<e>> \o s)[i] = s[i - 1]
  OBVIOUS

\* A pop shifts them back.
LEMMA PopHead ==
  ASSUME NEW S, NEW s \in Seq(S), Len(s) > 0
  PROVE  /\ Head(s) = s[1] /\ s[1] \in S
         /\ Tail(s) \in Seq(S) /\ Len(Tail(s)) = Len(s) - 1 /\ Len(s) \in Nat \ {0}
         /\ \A i \in 1 .. Len(s) - 1 : Tail(s)[i] = s[i + 1]
  OBVIOUS

\* Whatever it starts from, following the uses ends.
Ends(D, Uses) == \A W \in SUBSET D : W # {} => \E v \in W : Uses[v] \cap W = {}

\* A value depends on those it uses alone.
Depends(D, V, Uses, H) ==
  \A v \in D : \A f, g \in [D -> V] : (\A w \in Uses[v] : f[w] = g[w]) => H[v][f] = H[v][g]

Solves(D, H, f) == \A v \in D : f[v] = H[v][f]

\* What follows is about functions defined by recursion: those that satisfy the equation of
\* theirs on a part of their domain, closed under the uses that the equation makes of them.
Attempt(D, V, Uses, H, S, f) ==
  /\ S \in SUBSET D /\ f \in [D -> V]
  /\ \A v \in S : Uses[v] \subseteq S /\ f[v] = H[v][f]

\* A function exists that satisfies its equation, when nothing uses itself in the end.
LEMMA Recursion ==
  ASSUME NEW D, NEW V, V # {}, NEW Uses \in [D -> SUBSET D], NEW H \in [D -> [[D -> V] -> V]],
         Ends(D, Uses), Depends(D, V, Uses, H)
  PROVE  \E f \in [D -> V] : Solves(D, H, f)
<1> DEFINE Tried(S, f) == Attempt(D, V, Uses, H, S, f)
           Found(v, y) == \E S \in SUBSET D, f \in [D -> V] : Tried(S, f) /\ v \in S /\ y = f[v]
           A == {v \in D : \E y \in V : Found(v, y)}
           pick(v) == CHOOSE y \in V : v \in A => Found(v, y)
           h == [v \in D |-> pick(v)]
<1>0. ASSUME NEW v \in D, NEW f \in [D -> V], NEW g \in [D -> V], \A w \in Uses[v] : f[w] = g[w]
      PROVE  H[v][f] = H[v][g]
  <2>1. \A x \in D : \A a, b \in [D -> V] : (\A w \in Uses[x] : a[w] = b[w]) => H[x][a] = H[x][b]
    BY DEF Depends
  <2>2. (\A w \in Uses[v] : f[w] = g[w]) => H[v][f] = H[v][g]
    BY ONLY <2>1, v \in D, f \in [D -> V], g \in [D -> V], Zenon
  <2> QED BY <1>0, <2>2
<1>1. ASSUME NEW S, NEW f, NEW T, NEW g, Tried(S, f), Tried(T, g), NEW v \in S \cap T
      PROVE  f[v] = g[v]
  <2> DEFINE W == {w \in S \cap T : f[w] # g[w]}
  <2>1. SUFFICES ASSUME W # {}
                 PROVE  FALSE
    BY <1>1
  <2>2. W \in SUBSET D
    BY <1>1 DEF Attempt
  <2>3. PICK w \in W : Uses[w] \cap W = {}
    BY <2>1, <2>2 DEF Ends
  <2>4. /\ w \in D /\ f \in [D -> V] /\ g \in [D -> V] /\ Uses[w] \subseteq S /\ Uses[w] \subseteq T
        /\ f[w] = H[w][f] /\ g[w] = H[w][g]
    BY <1>1, <2>3 DEF Attempt
  <2>5. \A x \in Uses[w] : f[x] = g[x]
    BY <2>3, <2>4
  <2>6. H[w][f] = H[w][g]
    BY ONLY <1>0, <2>4, <2>5
  <2> QED BY <2>3, <2>4, <2>6
<1>2. \A v \in D : pick(v) \in V /\ (v \in A => Found(v, pick(v)))
  <2>1. SUFFICES ASSUME NEW v \in D
                 PROVE  pick(v) \in V /\ (v \in A => Found(v, pick(v)))
    OBVIOUS
  <2>2. \E y \in V : v \in A => Found(v, y)
    OBVIOUS
  <2> HIDE DEF A, Found
  <2> QED BY <2>2
<1> HIDE DEF pick, A, Found
<1>3. h \in [D -> V] /\ \A v \in D : v \in A => Found(v, h[v])
  BY <1>2
<1> HIDE DEF h, Tried
<1>4. ASSUME NEW S \in SUBSET D, NEW f \in [D -> V], Tried(S, f), NEW v \in S
      PROVE  v \in A /\ h[v] = f[v]
  <2>1. v \in D /\ f[v] \in V
    BY <1>4
  <2>2. Found(v, f[v])
    BY <1>4 DEF Found
  <2>3. v \in A
    BY <2>1, <2>2 DEF A
  <2>4. Found(v, h[v])
    BY <1>3, <2>1, <2>3
  <2>5. PICK T \in SUBSET D, g \in [D -> V] : Tried(T, g) /\ v \in T /\ h[v] = g[v]
    BY <2>4 DEF Found
  <2> QED BY <1>1, <1>4, <2>3, <2>5
<1>5. ASSUME NEW v \in A
      PROVE  Uses[v] \subseteq A /\ h[v] = H[v][h]
  <2>1. PICK S \in SUBSET D, f \in [D -> V] : Tried(S, f) /\ v \in S
    BY <1>5 DEF A, Found
  <2>2. v \in D /\ Uses[v] \subseteq S /\ f[v] = H[v][f]
    BY <2>1 DEF Tried, Attempt
  <2>3. \A w \in Uses[v] : w \in A /\ h[w] = f[w]
    <3>1. Uses[v] \subseteq S
      BY <2>2
    <3> QED BY ONLY <1>4, <2>1, <3>1
  <2>4. H[v][h] = H[v][f]
    BY ONLY <1>0, <1>3, <2>2, <2>3, f \in [D -> V]
  <2> QED BY <1>4, <2>1, <2>2, <2>3, <2>4
<1>6. A \in SUBSET D
  BY DEF A
<1>7. ASSUME A # D
      PROVE  FALSE
  <2>1. D \ A # {} /\ D \ A \in SUBSET D
    BY <1>6, <1>7
  <2>2. PICK v \in D \ A : Uses[v] \cap (D \ A) = {}
    BY <2>1 DEF Ends
  <2>3. v \in D /\ v \notin A /\ Uses[v] \subseteq A
    BY <2>2
  <2>4. H[v] \in [[D -> V] -> V]
    BY <2>3
  <2>5. H[v][h] \in V
    BY <1>3, <2>4
  <2>6. PICK g : g = [h EXCEPT ![v] = H[v][h]]
    OBVIOUS
  <2>7. g \in [D -> V] /\ g[v] = H[v][h] /\ \A w \in A : g[w] = h[w]
    BY <1>3, <1>6, <2>3, <2>5, <2>6
  <2>8. \A w \in A : Uses[w] \subseteq A /\ H[w][g] = H[w][h]
    <3>1. SUFFICES ASSUME NEW w \in A
                   PROVE  Uses[w] \subseteq A /\ H[w][g] = H[w][h]
      OBVIOUS
    <3>2. w \in D /\ Uses[w] \subseteq A
      BY <1>5, <1>6
    <3>3. \A x \in Uses[w] : g[x] = h[x]
      BY <2>7, <3>2
    <3> QED BY ONLY <1>0, <1>3, <2>7, <3>2, <3>3
  <2>9. H[v][g] = H[v][h]
    <3>1. \A x \in Uses[v] : g[x] = h[x]
      BY <2>3, <2>7
    <3> QED BY ONLY <1>0, <1>3, <2>3, <2>7, <3>1
  <2>10. Tried(A \cup {v}, g)
    <3>1. ASSUME NEW w \in A \cup {v}
          PROVE  Uses[w] \subseteq A \cup {v} /\ g[w] = H[w][g]
      <4>1. CASE w = v
        BY <2>3, <2>7, <2>9, <4>1
      <4>2. CASE w \in A
        BY <1>5, <2>7, <2>8, <4>2
      <4> QED BY <4>1, <4>2
    <3>2. A \cup {v} \in SUBSET D
      BY <1>6, <2>3
    <3> QED BY <2>7, <3>1, <3>2 DEF Tried, Attempt
  <2>11. A \cup {v} \in SUBSET D /\ v \in A \cup {v}
    BY <1>6, <2>3
  <2>12. v \in A
    BY <1>4, <2>7, <2>10, <2>11
  <2> QED BY <2>3, <2>12
<1> QED BY <1>3, <1>5, <1>7 DEF Solves
=============================================================================
