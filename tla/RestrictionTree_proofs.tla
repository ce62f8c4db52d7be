----------------------- MODULE RestrictionTree_proofs -----------------------
(***************************************************************************)
(* Proofs about the restrictions of a SELECT, for any nodes, parsed trees  *)
(* and bounds: add_restriction and remove_node keep a tree whose parents   *)
(* lead to its scopes, and what they record undoes what they did.          *)
(***************************************************************************)
EXTENDS RestrictionTree, Basics_proofs

-----------------------------------------------------------------------------
\* The nodes below a node: Subtree is the least set that has it and the children of
\* what it has.

\* f holds the layers of Subtree(t, n), the first k of them.
Layers(t, n, k, f) ==
  f = [i \in 0 .. k |->
         IF i = 0 THEN {n}
         ELSE LET above == f[i - 1] IN above \cup UNION {ChildSet(t, m) : m \in above}]

\* The layers are defined by recursion: some f holds the first N of them.
LEMMA LayersExist ==
  ASSUME NEW t, NEW n, NEW N \in Nat
  PROVE \E f : Layers(t, n, N, f)
<1> DEFINE Bad == {k \in 0 .. N : ~ \E f : Layers(t, n, k, f)}
<1> SUFFICES ASSUME Bad # {} PROVE FALSE
  OBVIOUS
<1>1. PICK k \in Bad : \A j \in Bad : k <= j
  <2>1. Bad \in SUBSET Nat
    OBVIOUS
  <2> HIDE DEF Bad
  <2> QED BY <2>1, LeastNat
<1>2. CASE k = 0
  <2> DEFINE f == [i \in 0 .. 0 |-> {n}]
  <2>1. Layers(t, n, 0, f)
   BY DEF Layers
  <2> QED BY <2>1, <1>2, <1>1
<1>3. CASE k # 0
  <2>1. k - 1 \in 0 .. N /\ k - 1 \notin Bad
    BY <1>1, <1>3
  <2>2. PICK g : Layers(t, n, k - 1, g)
    BY <2>1
  <2> DEFINE f == [i \in 0 .. k |-> IF i = k THEN g[k-1] \cup UNION {ChildSet(t, m) : m \in g[k-1]} ELSE g[i]]
  <2>3. Layers(t, n, k, f)
    <3> SUFFICES ASSUME NEW i \in 0 .. k
                 PROVE f[i] = IF i = 0 THEN {n}
                              ELSE f[i - 1] \cup UNION {ChildSet(t, m) : m \in f[i-1]}
        BY DEF Layers
    <3>1. CASE i = k
      BY <3>1, <1>3, <2>1
    <3>2. CASE i # k
      <4>1. i \in 0 .. k-1 /\ f[i] = g[i]
        BY <3>2, <2>1
      <4>2. i # 0 => i - 1 \in 0 .. k-1 /\ f[i-1] = g[i-1]
        BY <3>2, <2>1
      <4> HIDE DEF f
      <4> QED BY <2>2, <4>1, <4>2 DEF Layers
    <3> QED BY <3>1, <3>2
  <2> HIDE DEF f
  <2> QED BY <2>3, <1>1
<1> QED BY <1>2, <1>3

\* Subtree(t, n) is the last of as many layers as there are nodes.
LEMMA SubtreeLayers ==
  ASSUME NEW t, NEW n
  PROVE \E f : Layers(t, n, Cardinality(Node), f) /\ Subtree(t, n) = f[Cardinality(Node)]
<1> DEFINE N == Cardinality(Node)
<1>0. N \in Nat BY FS_CardinalityType, FiniteAssumption
<1> DEFINE g == CHOOSE f : Layers(t, n, N, f)
<1>1. \E f : Layers(t, n, N, f)
  BY <1>0, LayersExist
<1>2. Layers(t, n, N, g)
  BY <1>1
<1>3. Subtree(t, n) = g[N]
  BY DEF Subtree, Layers
<1> QED BY <1>2, <1>3

\* Children are nodes.
LEMMA ChildrenAreNodes ==
  ASSUME NEW t \in Tree, NEW n \in Node
  PROVE  /\ t.children[n] \in Seq(Node)
         /\ ChildSet(t, n) = {t.children[n][i] : i \in 1 .. Len(t.children[n])}
         /\ ChildSet(t, n) \subseteq Node
<1>1. t.children[n] \in Seq(Node)
  BY DEF Tree
<1> QED BY <1>1, LenProperties, ElementOfSeq DEF ChildSet, Range

\* A set that holds n and the children of what it holds holds all of Subtree(t, n).
LEMMA SubtreeIsLeast ==
  ASSUME NEW t, NEW n, NEW S, n \in S, \A m \in S : ChildSet(t, m) \subseteq S
  PROVE  Subtree(t, n) \subseteq S
<1> DEFINE N == Cardinality(Node)
<1>0. N \in Nat BY FS_CardinalityType, FiniteAssumption
<1>1. PICK f : Layers(t, n, N, f) /\ Subtree(t, n) = f[N]
  BY SubtreeLayers
<1> HIDE DEF N
<1> DEFINE Bad == {i \in 0 .. N : ~(f[i] \subseteq S)}
<1> SUFFICES ASSUME Bad # {} PROVE FALSE
  BY <1>0, <1>1
<1>2. PICK i \in Bad : \A j \in Bad : i <= j
  <2>1. Bad \in SUBSET Nat
    OBVIOUS
  <2> HIDE DEF Bad
  <2> QED BY <2>1, LeastNat
<1>3. CASE i = 0
  BY <1>3, <1>2, <1>1 DEF Layers
<1>4. CASE i # 0
  <2>1. i - 1 \in 0 .. N /\ f[i - 1] \subseteq S
    BY <1>2, <1>4, <1>0
  <2>2. f[i] = f[i - 1] \cup UNION {ChildSet(t, m) : m \in f[i - 1]}
    BY <1>1, <1>4, <1>2 DEF Layers
  <2> QED BY <2>1, <2>2, <1>2
<1> QED BY <1>3, <1>4

\* Subtree(t, n) is such a set.
LEMMA SubtreeIsClosed ==
  ASSUME NEW t \in Tree, NEW n \in Node
  PROVE  /\ Subtree(t, n) \subseteq Node /\ n \in Subtree(t, n)
         /\ \A m \in Subtree(t, n) : ChildSet(t, m) \subseteq Subtree(t, n)
<1> DEFINE N == Cardinality(Node)
<1>0. N \in Nat BY FS_CardinalityType, FiniteAssumption
<1>1. PICK f : Layers(t, n, N, f) /\ Subtree(t, n) = f[N]
  BY SubtreeLayers
<1>2. Subtree(t, n) \subseteq Node
  BY SubtreeIsLeast, ChildrenAreNodes
<1>. DEFINE Under(i) == UNION {ChildSet(t, m) : m \in f[i]}
<1>3. /\ f[0] = {n}
      /\ \A i \in 1 .. N : f[i] = f[i - 1] \cup Under(i - 1)
  BY <1>0, <1>1 DEF Layers
<1> HIDE DEF N
\* The layers grow, within Node.
<1>4. \A i, j \in 0 .. N : i <= j => f[i] \subseteq f[j]
  <2> SUFFICES ASSUME NEW i \in 0 .. N
               PROVE  \A j \in i .. N : f[i] \subseteq f[j]
    BY <1>0
  <2> DEFINE Bad == {j \in i .. N : ~(f[i] \subseteq f[j])}
  <2> SUFFICES ASSUME Bad # {} PROVE FALSE
    OBVIOUS
  <2>1. PICK j \in Bad : \A k \in Bad : j <= k
    <3>1. Bad \in SUBSET Nat
      OBVIOUS
    <3> HIDE DEF Bad
    <3> QED BY <3>1, LeastNat
  <2>2. j # i
    BY <2>1
  <2>3. j - 1 \in i .. N /\ f[i] \subseteq f[j - 1] /\ j \in 1 .. N
    BY <2>1, <2>2, <1>0
  <2> QED BY <2>3, <2>1, <1>3
<1>5. \A i \in 0 .. N : f[i] \subseteq Node /\ n \in f[i]
  BY <1>1, <1>2, <1>3, <1>4, <1>0
\* Once they do not grow, they never do.
<1>6. ASSUME NEW i \in 0 .. N, Under(i) \subseteq f[i]
      PROVE  f[N] = f[i]
  <2> DEFINE Bad == {j \in i .. N : f[j] # f[i]}
  <2> SUFFICES ASSUME Bad # {} PROVE FALSE
    BY <1>0
  <2>1. PICK j \in Bad : \A k \in Bad : j <= k
    <3>1. Bad \in SUBSET Nat
      OBVIOUS
    <3> HIDE DEF Bad
    <3> QED BY <3>1, LeastNat
  <2>2. j # i
    BY <2>1
  <2>3. j - 1 \in i .. N /\ f[j - 1] = f[i] /\ j \in 1 .. N
    BY <2>1, <2>2, <1>0
  <2>4. Under(j - 1) = Under(i)
    BY <2>3
  <2> HIDE DEF Under
  <2> QED BY <2>3, <2>4, <2>1, <1>3, <1>6
\* They stop growing: otherwise the last one has more elements than Node.
<1>7. \E i \in 0 .. N : Under(i) \subseteq f[i]
  <2> SUFFICES ASSUME \A i \in 0 .. N : ~(Under(i) \subseteq f[i])
               PROVE  FALSE
    OBVIOUS
  <2> HIDE DEF Under
  <2>1. \A i \in 0 .. N : IsFiniteSet(f[i]) /\ Cardinality(f[i]) \in Nat
    BY <1>5, FiniteAssumption, FS_Subset, FS_CardinalityType
  <2> DEFINE Bad == {i \in 0 .. N : Cardinality(f[i]) < i + 1}
  <2>2. Bad = {}
    <3> SUFFICES ASSUME Bad # {} PROVE FALSE
      OBVIOUS
    <3>1. PICK i \in Bad : \A k \in Bad : i <= k
      <4>1. Bad \in SUBSET Nat
        OBVIOUS
      <4> HIDE DEF Bad
      <4> QED BY <4>1, LeastNat
    <3>2. CASE i = 0
      <4>1. Cardinality(f[0]) = 1
        BY ONLY <1>3, FS_Singleton
      <4> QED BY <4>1, <3>1, <3>2
    <3>3. CASE i # 0
      <4>1. i - 1 \in 0 .. N /\ i \in 1 .. N /\ Cardinality(f[i - 1]) >= i
        BY <3>1, <3>3, <1>0, <2>1
      <4>2. f[i - 1] \subseteq f[i] /\ f[i - 1] # f[i]
        BY <4>1, <1>3
      <4>3. Cardinality(f[i - 1]) < Cardinality(f[i])
        <5> DEFINE A == f[i - 1]
                   B == f[i]
        <5>1. IsFiniteSet(B) /\ A \in SUBSET B /\ A # B /\ Cardinality(A) \in Nat /\ Cardinality(B) \in Nat
          BY <4>1, <4>2, <2>1
        <5> HIDE DEF A, B
        <5>2. Cardinality(A) < Cardinality(B)
          BY ONLY <5>1, FS_Subset
        <5> QED BY <5>2 DEF A, B
      <4> QED BY <4>1, <4>3, <3>1, <2>1
    <3> QED BY <3>2, <3>3
  <2>3. Cardinality(f[N]) >= N + 1
    BY <2>1, <2>2, <1>0
  <2>4. Cardinality(f[N]) <= N
    BY <1>0, <1>5, FiniteAssumption, FS_Subset DEF N
  <2> QED BY <2>1, <2>3, <2>4, <1>0
<1>8. PICK i \in 0 .. N : Under(i) \subseteq f[i]
  BY <1>7
<1>9. f[N] = f[i]
  BY <1>6, <1>8
<1> QED BY <1>1, <1>2, <1>5, <1>8, <1>9, <1>0

-----------------------------------------------------------------------------
\* Trees.

\* h has n as a child in the tree.
Holds(t, h, n) ==
  IF h = Select THEN n = t.where /\ n # Nil ELSE h \in InTree(t) /\ n \in ChildSet(t, h)

\* The scopes of a tree: the SELECT and its EXISTS.
ScopesOf(t) == {Select} \cup (InTree(t) \cap Exists)

\* n is in the conjunctions and disjunctions right under the scope e.
OnSpine(t, e, n) ==
  \A S \in SUBSET InTree(t) :
    WhereOf(t, e) \in S /\ (\A m \in S \cap Binary : ChildSet(t, m) \subseteq S) => n \in S

\* What is under a node of a subtree is in the subtree.
LEMMA SubtreeOfMember ==
  ASSUME NEW t \in Tree, NEW n \in Node, NEW m \in Subtree(t, n)
  PROVE  Subtree(t, m) \subseteq Subtree(t, n)
  BY SubtreeIsClosed, SubtreeIsLeast

\* All but its root have their holder in it.
LEMMA HeldWithin ==
  ASSUME NEW t \in Tree, NEW n \in Node, NEW c \in Subtree(t, n), c # n
  PROVE  \E h \in Subtree(t, n) : c \in ChildSet(t, h)
<1> DEFINE S == {m \in Subtree(t, n) : m = n \/ \E h \in Subtree(t, n) : m \in ChildSet(t, h)}
<1>1. n \in S /\ \A m \in S : ChildSet(t, m) \subseteq S
  BY SubtreeIsClosed
<1> HIDE DEF S
<1>2. Subtree(t, n) \subseteq S
  BY <1>1, SubtreeIsLeast
<1> QED BY <1>2 DEF S

\* The nodes of a tree, and what is below each of them.
LEMMA InTreeIsClosed ==
  ASSUME NEW t \in Tree
  PROVE  /\ InTree(t) \subseteq Node
         /\ t.where = Nil => InTree(t) = {}
         /\ t.where # Nil => t.where \in InTree(t) /\ t.where \in Node /\ InTree(t) = Subtree(t, t.where)
         /\ \A m \in InTree(t) : ChildSet(t, m) \subseteq InTree(t) /\ Subtree(t, m) \subseteq InTree(t)
<1>1. t.where # Nil => t.where \in Node
  BY DEF Tree
<1> QED BY <1>1, SubtreeIsClosed, SubtreeOfMember DEF InTree

\* A set that holds the top of the tree and the children of what it holds holds
\* the whole tree.
LEMMA InTreeIsLeast ==
  ASSUME NEW t, NEW S, t.where # Nil => t.where \in S,
         \A m \in S : ChildSet(t, m) \subseteq S
  PROVE  InTree(t) \subseteq S
  BY SubtreeIsLeast DEF InTree

\* What IsATree says of each node.
LEMMA TreeFacts ==
  ASSUME NEW t \in Tree, IsATree(t)
  PROVE  /\ \A m, k \in InTree(t) : \A n \in ChildSet(t, m) : n \in ChildSet(t, k) => m = k
         /\ \A m \in InTree(t) : \A n \in ChildSet(t, m) :
              m \notin Subtree(t, n) /\ n # m /\ n # t.where /\ n \in InTree(t) /\ n \in Node
         /\ \A m \in InTree(t) \cap Relation : t.children[m] = <<>> /\ ChildSet(t, m) = {}
         /\ \A m \in InTree(t) \cap Unary :
              t.children[m] = <<t.children[m][1]>> /\ ChildSet(t, m) = {t.children[m][1]}
         /\ \A m \in InTree(t) \cap Binary :
              /\ t.children[m] = <<t.children[m][1], t.children[m][2]>>
              /\ ChildSet(t, m) = {t.children[m][1], t.children[m][2]}
              /\ t.children[m][1] # t.children[m][2]
<1>1. \A m, k \in InTree(t) : \A n \in ChildSet(t, m) : n \in ChildSet(t, k) => m = k
  BY DEF IsATree
<1>2. ASSUME NEW m \in InTree(t), NEW n \in ChildSet(t, m)
      PROVE  m \notin Subtree(t, n) /\ n # m /\ n # t.where /\ n \in InTree(t) /\ n \in Node
  <2>1. n \in InTree(t) /\ n \in Node
    BY InTreeIsClosed
  <2>2. m \notin Subtree(t, n)
    BY DEF IsATree
  <2>3. n # t.where
    BY <2>2, InTreeIsClosed
  <2> QED BY <2>1, <2>2, <2>3, SubtreeIsClosed
<1>3. ASSUME NEW m \in InTree(t)
      PROVE  /\ t.children[m] \in Seq(Node) /\ Len(t.children[m]) = Arity(m)
             /\ ChildSet(t, m) = {t.children[m][i] : i \in 1 .. Arity(m)}
             /\ \A i, j \in 1 .. Arity(m) : t.children[m][i] = t.children[m][j] => i = j
  <2>1. m \in Node
    BY InTreeIsClosed
  <2>2. Len(t.children[m]) = Arity(m) /\ IsInjective(t.children[m])
    BY DEF IsATree
  <2> QED BY <2>1, <2>2, ChildrenAreNodes, LenProperties DEF IsInjective
<1>4. ASSUME NEW m \in InTree(t) \cap Relation
      PROVE  t.children[m] = <<>> /\ ChildSet(t, m) = {}
  BY <1>3, EmptySeq DEF Arity
<1>5. ASSUME NEW m \in InTree(t) \cap Unary
      PROVE  t.children[m] = <<t.children[m][1]>> /\ ChildSet(t, m) = {t.children[m][1]}
  <2>1. Arity(m) = 1
    BY KindsAssumption DEF Arity
  <2>2. m \in InTree(t)
    OBVIOUS
  <2> DEFINE s == t.children[m]
  <2>3. s \in Seq(Node) /\ Len(s) = 1 /\ ChildSet(t, m) = {s[i] : i \in 1 .. 1}
    BY <1>3, <2>1, <2>2
  <2> HIDE DEF s
  <2>4. s = <<s[1]>> /\ ChildSet(t, m) = {s[1]}
    BY ONLY <2>3
  <2> QED BY <2>4 DEF s
<1>6. ASSUME NEW m \in InTree(t) \cap Binary
      PROVE  /\ t.children[m] = <<t.children[m][1], t.children[m][2]>>
             /\ ChildSet(t, m) = {t.children[m][1], t.children[m][2]}
             /\ t.children[m][1] # t.children[m][2]
  <2>1. Arity(m) = 2
    BY KindsAssumption DEF Arity
  <2>2. m \in InTree(t)
    OBVIOUS
  <2> DEFINE s == t.children[m]
  <2>3. /\ s \in Seq(Node) /\ Len(s) = 2 /\ ChildSet(t, m) = {s[i] : i \in 1 .. 2}
        /\ \A i, j \in 1 .. 2 : s[i] = s[j] => i = j
    BY <1>3, <2>1, <2>2
  <2> HIDE DEF s
  <2>4. s = <<s[1], s[2]>> /\ ChildSet(t, m) = {s[1], s[2]} /\ s[1] # s[2]
    BY ONLY <2>3
  <2> QED BY <2>4 DEF s
<1> QED BY <1>1, <1>2, <1>4, <1>5, <1>6

\* Every node of a tree has one holder.
LEMMA HolderIsOne ==
  ASSUME NEW t \in Tree, IsATree(t), NEW n \in InTree(t)
  PROVE  /\ Holds(t, HolderOf(t, n), n)
         /\ \A h : Holds(t, h, n) => h = HolderOf(t, n)
         /\ HolderOf(t, n) \in InTree(t) \cup {Select}
<1>1. n \in Node /\ Select \notin InTree(t) /\ n # Nil
  BY InTreeIsClosed, KindsAssumption
<1>2. CASE n = t.where
  BY <1>1, <1>2, TreeFacts DEF HolderOf, Holds
<1>3. CASE n # t.where
  <2>1. t.where # Nil /\ n \in Subtree(t, t.where)
    BY InTreeIsClosed
  <2>2. \E h \in InTree(t) : n \in ChildSet(t, h)
    BY <1>3, <2>1, InTreeIsClosed, HeldWithin
  <2>3. HolderOf(t, n) \in InTree(t) /\ n \in ChildSet(t, HolderOf(t, n))
    BY <1>3, <2>2 DEF HolderOf
  <2> QED BY <1>1, <1>3, <2>3, TreeFacts DEF Holds
<1> QED BY <1>2, <1>3

-----------------------------------------------------------------------------
\* The functions that follow the parents: Lifted and ScopeOf.

\* f follows next from each element of D to the first that is in Stop.
Follows(D, next, Stop, out, f) ==
  f = [m \in D |-> IF m \in Stop THEN out[m] ELSE f[next[m]]]

\* There is such a function, cycles or not.
LEMMA ClimbExists ==
  ASSUME NEW D, NEW next, NEW Stop \in SUBSET D, NEW out,
         \A m \in D \ Stop : next[m] \in D
  PROVE  \E f : Follows(D, next, Stop, out, f)
<1> DEFINE Closed(S) == \A k \in S \ Stop : next[k] \in S
           Met(m) == {k \in D : \A S \in SUBSET D : m \in S /\ Closed(S) => k \in S}
           Outs(m) == {out[k] : k \in Met(m) \cap Stop}
           f == [m \in D |-> IF m \in Stop THEN out[m] ELSE CHOOSE e : e \in Outs(m)]
<1>1. ASSUME NEW m \in D \ Stop
      PROVE  f[m] = f[next[m]]
  <2>1. next[m] \in D
    BY <1>1
  <2>2. m \in Met(m) /\ next[m] \in Met(m)
    OBVIOUS
  <2>3. CASE next[m] \in Stop
    <3>1. {m, next[m]} \in SUBSET D /\ Closed({m, next[m]})
      BY <2>1, <2>3
    <3>2. Met(m) \subseteq {m, next[m]}
      BY <3>1
    <3>3. Outs(m) = {out[next[m]]}
      BY <2>2, <3>2, <2>3, <1>1
    <3> QED BY <3>3, <2>1, <2>3
  <2>4. CASE next[m] \notin Stop
    <3>1. ASSUME NEW k \in Met(m), k # m
          PROVE  k \in Met(next[m])
      <4> SUFFICES ASSUME NEW S \in SUBSET D, next[m] \in S, Closed(S)
                   PROVE  k \in S
        OBVIOUS
      <4>1. S \cup {m} \in SUBSET D /\ Closed(S \cup {m})
        OBVIOUS
      <4> QED BY <4>1, <3>1
    <3>2. ASSUME NEW k \in Met(next[m])
          PROVE  k \in Met(m)
      <4> SUFFICES ASSUME NEW S \in SUBSET D, m \in S, Closed(S)
                   PROVE  k \in S
        OBVIOUS
      <4>1. next[m] \in S
        BY <1>1
      <4> QED BY <4>1, <3>2
    <3> HIDE DEF Met
    <3>3. Outs(m) = Outs(next[m])
      BY <3>1, <3>2, <1>1
    <3> HIDE DEF Outs
    <3> QED BY <3>3, <2>1, <2>4
  <2> QED BY <2>3, <2>4
<1>2. \A m \in Stop : f[m] = out[m]
  OBVIOUS
<1>3. f = [m \in D |-> f[m]]
  OBVIOUS
<1> HIDE DEF f
<1>4. Follows(D, next, Stop, out, f)
  BY <1>1, <1>2, <1>3 DEF Follows
<1> QED BY <1>4

\* Not and Exists pass the removal on to their own parent.
LEMMA LiftedIs ==
  ASSUME NEW t \in Tree, NEW n \in Node
  PROVE  Lifted(t, n) = IF t.parent[n] \in Unary THEN Lifted(t, t.parent[n]) ELSE n
<1> DEFINE Lift(f) == f = [m \in Node |-> IF t.parent[m] \in Unary THEN f[t.parent[m]] ELSE m]
           lift == CHOOSE f : Lift(f)
<1>1. \E f : Lift(f)
  <2> DEFINE next == [m \in Node |-> t.parent[m]]
             Stop == {m \in Node : t.parent[m] \notin Unary}
             out  == [m \in Node |-> m]
  <2>1. Stop \in SUBSET Node /\ \A m \in Node \ Stop : next[m] \in Node
    BY DEF Node
  <2> HIDE DEF next, Stop, out
  <2>2. PICK f : Follows(Node, next, Stop, out, f)
    BY <2>1, ClimbExists
  <2>3. Lift(f)
    <3>1. \A m \in Node : (m \in Stop <=> t.parent[m] \notin Unary) /\ out[m] = m /\ next[m] = t.parent[m]
      BY DEF next, Stop, out
    <3> QED BY <2>2, <3>1 DEF Follows
  <2> HIDE DEF Lift
  <2> QED BY <2>3
<1>2. Lift(lift)
  <2> HIDE DEF Lift
  <2> QED BY <1>1
<1>3. \A m : Lifted(t, m) = lift[m]
  BY DEF Lifted
<1> HIDE DEF lift
<1> QED BY <1>2, <1>3

\* The scope of a node is its holder, or the scope of its holder.
LEMMA ScopeIs ==
  ASSUME NEW t \in Tree, IsATree(t), NEW n \in InTree(t)
  PROVE  ScopeOf(t, n) = IF HolderOf(t, n) \in Scope THEN HolderOf(t, n)
                         ELSE ScopeOf(t, HolderOf(t, n))
<1> DEFINE Up(f) == f = [m \in InTree(t) |->
                           IF HolderOf(t, m) \in Scope THEN HolderOf(t, m) ELSE f[HolderOf(t, m)]]
           up == CHOOSE f : Up(f)
<1>1. \E f : Up(f)
  <2> DEFINE D == InTree(t)
             next == [m \in D |-> HolderOf(t, m)]
             Stop == {m \in D : HolderOf(t, m) \in Scope}
  <2>1. Stop \in SUBSET D /\ \A m \in D \ Stop : next[m] \in D
    BY HolderIsOne DEF Scope
  <2> HIDE DEF next, Stop, D
  <2>2. PICK f : Follows(D, next, Stop, next, f)
    BY <2>1, ClimbExists
  <2>3. Up(f)
    <3>1. \A m \in D : (m \in Stop <=> HolderOf(t, m) \in Scope) /\ next[m] = HolderOf(t, m)
      BY DEF next, Stop, D
    <3> QED BY <2>2, <3>1 DEF D, Follows
  <2> HIDE DEF Up
  <2> QED BY <2>3
<1>2. Up(up)
  <2> HIDE DEF Up
  <2> QED BY <1>1
<1>3. \A m : ScopeOf(t, m) = up[m]
  BY DEF ScopeOf
<1> HIDE DEF up
<1> QED BY <1>2, <1>3

-----------------------------------------------------------------------------
\* The spine of a scope: the conjunctions and disjunctions right under it.

\* A spine starts under its scope, and goes on through binary nodes.
LEMMA SpineIsClosed ==
  ASSUME NEW t \in Tree, IsATree(t), t.where # Nil, NEW e \in ScopesOf(t)
  PROVE  /\ WhereOf(t, e) \in InTree(t) /\ Holds(t, e, WhereOf(t, e)) /\ OnSpine(t, e, WhereOf(t, e))
         /\ \A h \in InTree(t) \cap Binary : \A n \in ChildSet(t, h) :
              OnSpine(t, e, h) => OnSpine(t, e, n)
<1>1. WhereOf(t, e) \in InTree(t) /\ Holds(t, e, WhereOf(t, e))
  <2>1. CASE e = Select
    BY <2>1, InTreeIsClosed DEF WhereOf, Holds
  <2>2. CASE e # Select
    <3>1. e \in InTree(t) \cap Unary
      BY <2>2 DEF ScopesOf, Unary
    <3> QED BY <2>2, <3>1, TreeFacts DEF WhereOf, Holds
  <2> QED BY <2>1, <2>2
<1> QED BY <1>1 DEF OnSpine

\* It holds nothing else.
LEMMA SpineIsLeast ==
  ASSUME NEW t \in Tree, NEW e, NEW S \in SUBSET InTree(t), WhereOf(t, e) \in S,
         \A m \in S \cap Binary : ChildSet(t, m) \subseteq S,
         NEW n, OnSpine(t, e, n)
  PROVE  n \in S
  BY DEF OnSpine

\* A node of the spine is at the top of the scope, or under a binary node of it.
LEMMA SpineHolder ==
  ASSUME NEW t \in Tree, IsATree(t), t.where # Nil, NEW e \in ScopesOf(t),
         NEW n, OnSpine(t, e, n)
  PROVE  /\ n \in InTree(t)
         /\ n = WhereOf(t, e) \/ \E h \in InTree(t) \cap Binary : n \in ChildSet(t, h) /\ OnSpine(t, e, h)
<1> DEFINE S == {k \in InTree(t) :
                   \/ k = WhereOf(t, e)
                   \/ \E h \in InTree(t) \cap Binary : k \in ChildSet(t, h) /\ OnSpine(t, e, h)}
<1>1. WhereOf(t, e) \in S /\ S \in SUBSET InTree(t)
  BY SpineIsClosed
<1>2. ASSUME NEW m \in S \cap Binary, NEW c \in ChildSet(t, m)
      PROVE  c \in S
  <2>1. m \in InTree(t) /\ OnSpine(t, e, m)
    BY SpineIsClosed
  <2>2. c \in InTree(t)
    BY <2>1, InTreeIsClosed
  <2> QED BY <2>1, <2>2
<1> HIDE DEF S
<1>3. n \in S
  BY <1>1, <1>2, SpineIsLeast
<1> QED BY <1>3 DEF S

\* The spine of an EXISTS is strictly under it.
LEMMA SpineIsUnder ==
  ASSUME NEW t \in Tree, IsATree(t), t.where # Nil, NEW e \in InTree(t) \cap Exists,
         NEW n, OnSpine(t, e, n)
  PROVE  n \in Subtree(t, e) /\ e \notin Subtree(t, n)
<1>1. e \in ScopesOf(t) /\ e # Select /\ e \in Node
  BY KindsAssumption DEF ScopesOf, Node, Unary
<1>2. WhereOf(t, e) \in ChildSet(t, e) /\ WhereOf(t, e) \in Node
  BY <1>1, SpineIsClosed, InTreeIsClosed DEF Holds
<1>3. n \in Subtree(t, WhereOf(t, e))
  <2> DEFINE S == Subtree(t, WhereOf(t, e))
  <2>1. S \in SUBSET InTree(t) /\ WhereOf(t, e) \in S /\ \A m \in S : ChildSet(t, m) \subseteq S
    BY <1>1, <1>2, SpineIsClosed, InTreeIsClosed, SubtreeIsClosed
  <2> HIDE DEF S
  <2>2. n \in S
    BY <2>1, SpineIsLeast
  <2> QED BY <2>2 DEF S
<1>4. WhereOf(t, e) \in Subtree(t, e)
  BY <1>1, <1>2, SubtreeIsClosed
<1>5. n \in Subtree(t, e)
  BY <1>1, <1>3, <1>4, SubtreeOfMember
<1>6. e \notin Subtree(t, WhereOf(t, e))
  BY <1>2, TreeFacts
<1> QED BY <1>2, <1>3, <1>5, <1>6, SubtreeOfMember

\* The scope of a node of the spine is the one whose spine it is.
LEMMA SpineScope ==
  ASSUME NEW t \in Tree, IsATree(t), t.where # Nil, NEW e \in ScopesOf(t),
         NEW n, OnSpine(t, e, n)
  PROVE  ScopeOf(t, n) = e
<1> DEFINE S == {k \in InTree(t) : ScopeOf(t, k) = e}
<1>1. WhereOf(t, e) \in S
  <2>1. HolderOf(t, WhereOf(t, e)) = e
    BY SpineIsClosed, HolderIsOne
  <2>2. e \in Scope
    BY DEF ScopesOf, Scope
  <2> QED BY <2>1, <2>2, SpineIsClosed, ScopeIs
<1>2. ASSUME NEW m \in S \cap Binary, NEW c \in ChildSet(t, m)
      PROVE  c \in S
  <2>1. m \in InTree(t) /\ c \in InTree(t)
    BY InTreeIsClosed
  <2>2. m # Select /\ m \notin Scope
    BY <2>1, KindsAssumption, InTreeIsClosed DEF Scope, Unary
  <2>3. HolderOf(t, c) = m
    BY <2>1, <2>2, HolderIsOne DEF Holds
  <2>4. ScopeOf(t, c) = ScopeOf(t, m)
    BY <2>1, <2>2, <2>3, ScopeIs
  <2> QED BY <2>1, <2>4
<1> HIDE DEF S
<1>3. S \in SUBSET InTree(t)
  BY DEF S
<1>4. n \in S
  BY <1>1, <1>2, <1>3, SpineIsLeast
<1> QED BY <1>4 DEF S

-----------------------------------------------------------------------------
\* The trees that the edits make and undo.

\* Parents are holders, but for nodes of a spine whose parent may be the scope.
Led(t) ==
  \A n \in InTree(t) :
    \/ Holds(t, t.parent[n], n)
    \/ t.parent[n] \in ScopesOf(t) /\ OnSpine(t, t.parent[n], n)

\* What the edits and the undos keep, between them and within.
Sound(t) ==
  /\ t \in Tree /\ IsATree(t) /\ Led(t)
  /\ \A r \in Relation : t.children[r] = <<>>

\* So "node.scope" is right.
LEMMA LedToScope ==
  ASSUME NEW t, Sound(t), NEW n \in InTree(t)
  PROVE  \/ t.parent[n] = HolderOf(t, n)
         \/ HolderOf(t, n) \in Binary /\ t.parent[n] = ScopeOf(t, n)
<1>1. t \in Tree /\ IsATree(t) /\ t.where # Nil /\ Select \notin InTree(t)
  BY InTreeIsClosed, KindsAssumption DEF Sound
<1>2. CASE Holds(t, t.parent[n], n)
  BY <1>1, <1>2, HolderIsOne
<1>3. CASE t.parent[n] \in ScopesOf(t) /\ OnSpine(t, t.parent[n], n)
  <2>1. ScopeOf(t, n) = t.parent[n]
    BY <1>1, <1>3, SpineScope
  <2>2. CASE n = WhereOf(t, t.parent[n])
    <3>1. Holds(t, t.parent[n], n)
      BY <1>1, <1>3, <2>2, SpineIsClosed
    <3> QED BY <1>1, <3>1, HolderIsOne
  <2>3. CASE \E h \in InTree(t) \cap Binary : n \in ChildSet(t, h)
    BY <1>1, <2>1, <2>3, HolderIsOne DEF Holds
  <2> QED BY <1>1, <1>3, <2>2, <2>3, SpineHolder
<1> QED BY <1>2, <1>3 DEF Sound, Led

\* A parent that is Not or Exists is above the node.
LEMMA UnaryParent ==
  ASSUME NEW t, Sound(t), NEW n \in InTree(t), t.parent[n] \in Unary
  PROVE  /\ t.parent[n] \in InTree(t) /\ n \in Subtree(t, t.parent[n])
         /\ t.parent[n] \notin Subtree(t, n)
<1>1. t \in Tree /\ IsATree(t) /\ t.where # Nil
  BY InTreeIsClosed DEF Sound
<1>2. t.parent[n] # Select /\ t.parent[n] \in Node
  BY KindsAssumption DEF Node
<1>3. CASE Holds(t, t.parent[n], n)
  BY <1>1, <1>2, <1>3, TreeFacts, SubtreeIsClosed DEF Holds
<1>4. CASE t.parent[n] \in ScopesOf(t) /\ OnSpine(t, t.parent[n], n)
  BY <1>1, <1>2, <1>4, SpineIsUnder DEF ScopesOf
<1> QED BY <1>3, <1>4 DEF Sound, Led

\* What is true of no node but those whose Not or Exists parent it is not true of
\* is true of none.
LEMMA UpwardInduction ==
  ASSUME NEW t, Sound(t), NEW Bad \in SUBSET InTree(t),
         \A n \in Bad : t.parent[n] \in Unary /\ t.parent[n] \in Bad
  PROVE  Bad = {}
<1> SUFFICES ASSUME Bad # {} PROVE FALSE
  OBVIOUS
<1>1. t \in Tree /\ InTree(t) \subseteq Node
  BY InTreeIsClosed DEF Sound
<1> DEFINE T == {Node \ Subtree(t, n) : n \in Bad}
<1>2. T \in SUBSET (SUBSET Node) /\ T # {}
  OBVIOUS
<1>3. PICK S \in T : \A R \in T : R \subseteq S => R = S
  <2> HIDE DEF T
  <2> QED BY <1>2, FiniteAssumption, LeastSet
<1>4. PICK n \in Bad : S = Node \ Subtree(t, n)
  BY <1>3
<1> DEFINE p == t.parent[n]
<1>5. p \in Bad /\ p \in InTree(t) /\ n \in Subtree(t, p) /\ p \notin Subtree(t, n) /\ p \in Node
  BY <1>1, UnaryParent
<1>6. Node \ Subtree(t, p) \subseteq S /\ p \in S /\ p \in Subtree(t, p)
  BY <1>1, <1>4, <1>5, SubtreeOfMember, SubtreeIsClosed
<1> QED BY <1>3, <1>5, <1>6

\* The node that leaves in the stead of n is n or above it.
LEMMA LiftedIsAbove ==
  ASSUME NEW t, Sound(t), NEW n \in InTree(t)
  PROVE  /\ Lifted(t, n) \in InTree(t) /\ n \in Subtree(t, Lifted(t, n))
         /\ t.parent[Lifted(t, n)] \notin Unary
<1>1. t \in Tree /\ InTree(t) \subseteq Node
  BY InTreeIsClosed DEF Sound
<1> DEFINE Bad == {k \in InTree(t) : ~(/\ Lifted(t, k) \in InTree(t) /\ k \in Subtree(t, Lifted(t, k))
                                       /\ t.parent[Lifted(t, k)] \notin Unary)}
<1>2. ASSUME NEW k \in Bad
      PROVE  t.parent[k] \in Unary /\ t.parent[k] \in Bad
  <2>1. k \in Node /\ k \in Subtree(t, k)
    BY <1>1, SubtreeIsClosed
  <2>2. t.parent[k] \in Unary /\ Lifted(t, k) = Lifted(t, t.parent[k])
    BY <1>1, <2>1, LiftedIs
  <2>3. t.parent[k] \in InTree(t) /\ k \in Subtree(t, t.parent[k])
    BY <2>2, UnaryParent
  <2>4. ASSUME t.parent[k] \notin Bad
        PROVE  FALSE
    <3>1. /\ Lifted(t, k) \in InTree(t) /\ t.parent[k] \in Subtree(t, Lifted(t, k))
          /\ t.parent[Lifted(t, k)] \notin Unary
      BY <2>2, <2>3, <2>4
    <3>2. k \in Subtree(t, Lifted(t, k))
      BY <1>1, <2>3, <3>1, SubtreeOfMember
    <3> QED BY <3>1, <3>2
  <2> QED BY <2>2, <2>4
<1>3. Bad \in SUBSET InTree(t)
  OBVIOUS
<1> HIDE DEF Bad
<1>4. Bad = {}
  BY <1>2, <1>3, UpwardInduction
<1> QED BY <1>4 DEF Bad

\* When the parents on the way are right, what leaves is n and Not and Exists nodes.
LEMMA LiftedRelations ==
  ASSUME NEW t, Sound(t), NEW n \in InTree(t), ~FollowsWrongParent(t, n)
  PROVE  Relations(t, Lifted(t, n)) = Relations(t, n)
<1>1. t \in Tree /\ InTree(t) \subseteq Node /\ IsATree(t)
  BY InTreeIsClosed DEF Sound
<1> DEFINE Bad == {k \in InTree(t) : /\ ~FollowsWrongParent(t, k)
                                     /\ Relations(t, Lifted(t, k)) # Relations(t, k)}
<1>2. ASSUME NEW k \in Bad
      PROVE  t.parent[k] \in Unary /\ t.parent[k] \in Bad
  <2> DEFINE p == t.parent[k]
  <2>1. k \in Node /\ k \in Subtree(t, k)
    BY <1>1, SubtreeIsClosed
  <2>2. p \in Unary /\ Lifted(t, k) = Lifted(t, p)
    BY <1>1, <2>1, LiftedIs
  <2>3. p \in InTree(t) /\ k \in Subtree(t, p)
    BY <2>2, UnaryParent
  <2>4. ~FollowsWrongParent(t, p)
    <3> SUFFICES ASSUME NEW m \in InTree(t), p \in Subtree(t, m), m \in Subtree(t, Lifted(t, p))
                 PROVE  t.parent[m] = HolderOf(t, m)
      BY DEF FollowsWrongParent
    <3>1. k \in Subtree(t, m)
      BY <1>1, <2>3, SubtreeOfMember
    <3> QED BY <3>1, <2>2 DEF FollowsWrongParent
  <2>5. p = HolderOf(t, k)
    BY <2>1, LiftedIsAbove DEF FollowsWrongParent
  <2>6. p \in InTree(t) \cap Unary /\ k \in ChildSet(t, p) /\ p \notin Relation
    BY <1>1, <2>2, <2>3, <2>5, HolderIsOne, KindsAssumption DEF Holds
  <2>7. ChildSet(t, p) = {k}
    BY <1>1, <2>6, TreeFacts
  <2>8. Subtree(t, p) \subseteq {p} \cup Subtree(t, k)
    <3> DEFINE S == {p} \cup Subtree(t, k)
    <3>1. p \in S /\ \A m \in S : ChildSet(t, m) \subseteq S
      BY <1>1, <2>1, <2>7, SubtreeIsClosed
    <3> HIDE DEF S
    <3>2. Subtree(t, p) \subseteq S
      BY <3>1, SubtreeIsLeast
    <3> QED BY <3>2 DEF S
  <2>9. Relations(t, p) = Relations(t, k)
    BY <1>1, <2>3, <2>6, <2>8, SubtreeOfMember DEF Relations
  <2> QED BY <2>2, <2>3, <2>4, <2>9
<1>3. Bad \in SUBSET InTree(t)
  OBVIOUS
<1> HIDE DEF Bad
<1>4. Bad = {}
  BY <1>2, <1>3, UpwardInduction
<1> QED BY <1>4 DEF Bad

-----------------------------------------------------------------------------
\* Trees with the same nodes in the same places.

\* u has the nodes of t, with the same children.
SameTree(t, u) == u.where = t.where /\ \A n \in InTree(t) : u.children[n] = t.children[n]

\* They have the same scopes and subtrees then.
LEMMA SameTreeNodes ==
  ASSUME NEW t \in Tree, NEW u \in Tree, SameTree(t, u)
  PROVE  /\ InTree(u) = InTree(t) /\ SameTree(u, t) /\ ScopesOf(u) = ScopesOf(t)
         /\ \A n \in InTree(t) : ChildSet(u, n) = ChildSet(t, n) /\ Subtree(u, n) = Subtree(t, n)
<1>1. \A n \in InTree(t) : ChildSet(u, n) = ChildSet(t, n)
  BY DEF SameTree, ChildSet
<1>2. InTree(u) \subseteq InTree(t)
  <2> DEFINE S == InTree(t)
  <2>1. (u.where # Nil => u.where \in S) /\ \A m \in S : ChildSet(u, m) \subseteq S
    BY <1>1, InTreeIsClosed DEF SameTree
  <2> HIDE DEF S
  <2>2. InTree(u) \subseteq S
    BY <2>1, InTreeIsLeast
  <2> QED BY <2>2 DEF S
<1>3. InTree(t) \subseteq InTree(u)
  <2> DEFINE S == InTree(t) \cap InTree(u)
  <2>1. (t.where # Nil => t.where \in S) /\ \A m \in S : ChildSet(t, m) \subseteq S
    BY <1>1, InTreeIsClosed DEF SameTree
  <2> HIDE DEF S
  <2>2. InTree(t) \subseteq S
    BY <2>1, InTreeIsLeast
  <2> QED BY <2>2 DEF S
<1>4. ASSUME NEW n \in InTree(t)
      PROVE  Subtree(u, n) \subseteq Subtree(t, n) /\ Subtree(t, n) \subseteq Subtree(u, n)
  <2>0. n \in Node /\ Subtree(t, n) \subseteq InTree(t) /\ Subtree(u, n) \subseteq InTree(t)
    BY <1>2, <1>3, InTreeIsClosed
  <2>1. Subtree(u, n) \subseteq Subtree(t, n)
    <3> DEFINE S == Subtree(t, n)
    <3>1. n \in S /\ \A m \in S : ChildSet(u, m) \subseteq S
      BY <2>0, <1>1, SubtreeIsClosed
    <3> HIDE DEF S
    <3>2. Subtree(u, n) \subseteq S
      BY <3>1, SubtreeIsLeast
    <3> QED BY <3>2 DEF S
  <2>2. Subtree(t, n) \subseteq Subtree(u, n)
    <3> DEFINE S == Subtree(u, n)
    <3>1. n \in S /\ \A m \in S : ChildSet(t, m) \subseteq S
      BY <2>0, <1>1, SubtreeIsClosed
    <3> HIDE DEF S
    <3>2. Subtree(t, n) \subseteq S
      BY <3>1, SubtreeIsLeast
    <3> QED BY <3>2 DEF S
  <2> QED BY <2>1, <2>2
<1>5. InTree(u) = InTree(t)
  BY <1>2, <1>3
<1>6. SameTree(u, t) /\ ScopesOf(u) = ScopesOf(t)
  BY <1>5 DEF SameTree, ScopesOf
<1> QED BY <1>1, <1>4, <1>5, <1>6

\* They are both trees or neither, with the same holders and spines.
LEMMA SameTreeShape ==
  ASSUME NEW t \in Tree, NEW u \in Tree, SameTree(t, u), IsATree(t)
  PROVE  /\ IsATree(u)
         /\ \A h, n : Holds(u, h, n) <=> Holds(t, h, n)
         /\ \A e \in ScopesOf(t) : \A n : OnSpine(u, e, n) <=> OnSpine(t, e, n)
<1>1. /\ InTree(u) = InTree(t)
      /\ \A n \in InTree(t) : ChildSet(u, n) = ChildSet(t, n) /\ Subtree(u, n) = Subtree(t, n)
      /\ \A n \in InTree(t) : ChildSet(t, n) \subseteq InTree(t)
  BY SameTreeNodes, InTreeIsClosed
<1>2. u.where = t.where /\ \A n \in InTree(t) : u.children[n] = t.children[n]
  BY DEF SameTree
<1>3. IsATree(u)
  <2>1. \A m, k \in InTree(t) : ChildSet(t, m) \cap ChildSet(t, k) # {} => m = k
    BY DEF IsATree
  <2>2. \A m \in InTree(t) : \A n \in ChildSet(t, m) : m \notin Subtree(t, n)
    BY DEF IsATree
  <2>3. \A m \in InTree(t) : Len(t.children[m]) = Arity(m) /\ IsInjective(t.children[m])
    BY DEF IsATree
  <2>4. \A m, k \in InTree(u) : ChildSet(u, m) \cap ChildSet(u, k) # {} => m = k
    BY <1>1, <2>1
  <2>5. \A m \in InTree(u) : \A n \in ChildSet(u, m) : m \notin Subtree(u, n)
    BY <1>1, <2>2
  <2>6. \A m \in InTree(u) : Len(u.children[m]) = Arity(m) /\ IsInjective(u.children[m])
    BY <1>1, <1>2, <2>3
  <2> QED BY <2>4, <2>5, <2>6 DEF IsATree
<1>4. \A h, n : Holds(u, h, n) <=> Holds(t, h, n)
  BY <1>1, <1>2 DEF Holds
<1>5. ASSUME NEW e \in ScopesOf(t), NEW n
      PROVE  OnSpine(u, e, n) <=> OnSpine(t, e, n)
  <2>1. WhereOf(u, e) = WhereOf(t, e)
    BY <1>2 DEF WhereOf, ScopesOf
  <2>2. \A S \in SUBSET InTree(t) :
          (\A m \in S \cap Binary : ChildSet(u, m) \subseteq S) <=>
          (\A m \in S \cap Binary : ChildSet(t, m) \subseteq S)
    BY <1>1
  <2> QED BY <1>1, <2>1, <2>2 DEF OnSpine
<1> QED BY <1>3, <1>4, <1>5

\* With the same parents, it is as sound.
LEMMA SameTreeSound ==
  ASSUME NEW t, Sound(t), NEW u \in Tree, SameTree(t, u),
         \A n \in InTree(t) : u.parent[n] = t.parent[n],
         \A r \in Relation : u.children[r] = <<>>
  PROVE  Sound(u)
<1>1. t \in Tree /\ IsATree(t) /\ Led(t)
  BY DEF Sound
<1>2. IsATree(u) /\ InTree(u) = InTree(t) /\ ScopesOf(u) = ScopesOf(t)
  BY <1>1, SameTreeNodes, SameTreeShape
<1>3. Led(u)
  <2> SUFFICES ASSUME NEW n \in InTree(t)
               PROVE  \/ Holds(u, u.parent[n], n)
                      \/ u.parent[n] \in ScopesOf(u) /\ OnSpine(u, u.parent[n], n)
    BY <1>2 DEF Led
  <2>1. \/ Holds(t, t.parent[n], n)
        \/ t.parent[n] \in ScopesOf(t) /\ OnSpine(t, t.parent[n], n)
    BY <1>1 DEF Led
  <2> QED BY <1>1, <1>2, <2>1, SameTreeShape
<1> QED BY <1>2, <1>3 DEF Sound

-----------------------------------------------------------------------------
\* add_restriction puts a conjunction of what was there and of r at the top of s.

\* From t to u, the top w of the scope s has given way to b, over w and the new r.
Wrap(t, u, s, w, b, r) ==
  /\ s \in ScopesOf(t) /\ t.where # Nil /\ w = WhereOf(t, s)
  /\ b \in Binary \ InTree(t) /\ r \in Relation \ InTree(t)
  /\ u.where = IF s = Select THEN b ELSE t.where
  /\ u.children[b] = <<w, r>> /\ u.children[r] = <<>>
  /\ \A n \in InTree(t) : u.children[n] = IF n = s THEN <<b>> ELSE t.children[n]

\* Who is where, before and after.
LEMMA WrapFacts ==
  ASSUME NEW t \in Tree, IsATree(t), NEW u \in Tree, NEW s, NEW w, NEW b, NEW r, Wrap(t, u, s, w, b, r)
  PROVE  /\ b \in Node /\ r \in Node /\ b # r /\ b # Nil /\ b # Select /\ r # Select
         /\ w \in InTree(t) /\ w \in Node /\ w # b /\ w # r /\ Holds(t, s, w)
         /\ s # Select => s \in InTree(t) /\ s \in Exists /\ ChildSet(t, s) = {w} /\ s # b /\ s # r
         /\ ChildSet(u, b) = {w, r} /\ ChildSet(u, r) = {}
         /\ \A n \in InTree(t) : /\ ChildSet(u, n) = IF n = s THEN {b} ELSE ChildSet(t, n)
                                 /\ n # s => w \notin ChildSet(t, n)
                                 /\ b \notin ChildSet(t, n) /\ r \notin ChildSet(t, n)
                                 /\ n # b /\ n # r
         /\ InTree(u) = InTree(t) \cup {b, r}
         /\ ScopesOf(u) = ScopesOf(t)
<1>1. /\ b \in Node /\ r \in Node /\ b # r /\ b # Nil /\ b # Select /\ r # Select
      /\ b \notin Exists /\ r \notin Exists /\ b \notin InTree(t) /\ r \notin InTree(t)
  BY KindsAssumption DEF Wrap, Node, Unary
<1>2. w \in InTree(t) /\ w \in Node /\ w # b /\ w # r /\ Holds(t, s, w)
  BY <1>1, SpineIsClosed, InTreeIsClosed DEF Wrap
<1>3. ASSUME s # Select
      PROVE  s \in InTree(t) /\ s \in Exists /\ ChildSet(t, s) = {w} /\ s # b /\ s # r
  <2>1. s \in InTree(t) \cap Unary /\ s \in Exists
    BY <1>3 DEF Wrap, ScopesOf, Unary
  <2> QED BY <1>1, <1>3, <2>1, TreeFacts DEF Wrap, WhereOf
<1>4. ChildSet(u, b) = {w, r} /\ ChildSet(u, r) = {}
  BY SmallRanges DEF Wrap, ChildSet
<1>5. ASSUME NEW n \in InTree(t)
      PROVE  /\ ChildSet(u, n) = IF n = s THEN {b} ELSE ChildSet(t, n)
             /\ n # s => w \notin ChildSet(t, n)
             /\ b \notin ChildSet(t, n) /\ r \notin ChildSet(t, n)
             /\ n # b /\ n # r
  <2>1. ChildSet(u, n) = IF n = s THEN {b} ELSE ChildSet(t, n)
    BY SmallRanges DEF Wrap, ChildSet
  <2>2. b \notin ChildSet(t, n) /\ r \notin ChildSet(t, n) /\ n # b /\ n # r
    BY <1>1, InTreeIsClosed
  <2>3. n # s => w \notin ChildSet(t, n)
    BY <1>2, TreeFacts DEF Holds
  <2> QED BY <2>1, <2>2, <2>3
<1>6. InTree(u) \subseteq InTree(t) \cup {b, r}
  <2> DEFINE S == InTree(t) \cup {b, r}
  <2>1. (u.where # Nil => u.where \in S) /\ \A m \in S : ChildSet(u, m) \subseteq S
    BY <1>2, <1>4, <1>5, InTreeIsClosed DEF Wrap
  <2> HIDE DEF S
  <2>2. InTree(u) \subseteq S
    BY <2>1, InTreeIsLeast
  <2> QED BY <2>2 DEF S
<1>7. s # Select => s \in InTree(u)
  <2> SUFFICES ASSUME s # Select, s \notin InTree(u) PROVE FALSE
    OBVIOUS
  <2> DEFINE S == InTree(t) \cap InTree(u)
  <2>1. (t.where # Nil => t.where \in S) /\ \A m \in S : ChildSet(t, m) \subseteq S
    BY <1>5, InTreeIsClosed DEF Wrap
  <2> HIDE DEF S
  <2>2. InTree(t) \subseteq S
    BY <2>1, InTreeIsLeast
  <2> QED BY <2>2, <1>3 DEF S
<1>8. b \in InTree(u) /\ w \in InTree(u) /\ r \in InTree(u)
  <2>1. b \in InTree(u)
    <3>1. CASE s = Select
      BY <3>1, <1>1, InTreeIsClosed DEF Wrap
    <3>2. CASE s # Select
      BY <3>2, <1>3, <1>5, <1>7, InTreeIsClosed
    <3> QED BY <3>1, <3>2
  <2> QED BY <2>1, <1>4, InTreeIsClosed
<1>9. InTree(t) \subseteq InTree(u)
  <2> DEFINE S == InTree(t) \cap InTree(u)
  <2>1. t.where \in S
    <3>1. s = Select => w = t.where
      BY DEF Wrap, WhereOf
    <3>2. s # Select => u.where = t.where
      BY DEF Wrap
    <3> QED BY <3>1, <3>2, <1>2, <1>8, InTreeIsClosed DEF Wrap
  <2>2. \A m \in S : ChildSet(t, m) \subseteq S
    <3> SUFFICES ASSUME NEW m \in S, NEW c \in ChildSet(t, m) PROVE c \in InTree(u) /\ c \in InTree(t)
      OBVIOUS
    <3>1. CASE m = s
      BY <3>1, <1>2, <1>3, <1>8, InTreeIsClosed, KindsAssumption
    <3>2. CASE m # s
      BY <3>2, <1>5, InTreeIsClosed
    <3> QED BY <3>1, <3>2
  <2> HIDE DEF S
  <2>3. InTree(t) \subseteq S
    BY <2>1, <2>2, InTreeIsLeast
  <2> QED BY <2>3 DEF S
<1>10. InTree(u) = InTree(t) \cup {b, r}
  BY <1>6, <1>8, <1>9
<1>11. ScopesOf(u) = ScopesOf(t)
  BY <1>1, <1>10 DEF ScopesOf
<1> QED BY <1>1, <1>2, <1>3, <1>4, <1>5, <1>10, <1>11

\* The result is a tree.
LEMMA WrapIsATree ==
  ASSUME NEW t \in Tree, IsATree(t), NEW u \in Tree, NEW s, NEW w, NEW b, NEW r, Wrap(t, u, s, w, b, r)
  PROVE  IsATree(u)
<1> DEFINE T == InTree(t)
<1>1. /\ b \in Node /\ r \in Node /\ b # r /\ w \in T /\ w \in Node /\ w # b /\ w # r
      /\ s # Select => s \in T /\ ChildSet(t, s) = {w} /\ s # b /\ s # r
      /\ ChildSet(u, b) = {w, r} /\ ChildSet(u, r) = {}
      /\ InTree(u) = T \cup {b, r}
  BY WrapFacts
<1>2. \A n \in T : /\ ChildSet(u, n) = IF n = s THEN {b} ELSE ChildSet(t, n)
                   /\ n # s => w \notin ChildSet(t, n)
                   /\ b \notin ChildSet(t, n) /\ r \notin ChildSet(t, n)
                   /\ n # b /\ n # r
  BY WrapFacts
<1>3. \A m, k \in T : \A n \in ChildSet(t, m) : n \in ChildSet(t, k) => m = k
  BY TreeFacts
<1>4. \A m \in T : ChildSet(t, m) \subseteq T /\ Subtree(t, m) \subseteq T /\ m \in Node
  BY InTreeIsClosed
<1>5. \A m \in T : \A n \in ChildSet(t, m) : m \notin Subtree(t, n)
  BY TreeFacts
<1>6. ASSUME NEW m \in InTree(u), NEW k \in InTree(u), NEW n \in ChildSet(u, m), n \in ChildSet(u, k)
      PROVE  m = k
  BY <1>1, <1>2, <1>3, <1>4, <1>6
\* Under the nodes that are not above s, nothing has changed.
<1>7. ASSUME NEW n \in T, s = Select \/ s \notin Subtree(t, n)
      PROVE  Subtree(u, n) \subseteq Subtree(t, n)
  <2> DEFINE S == Subtree(t, n)
  <2>1. n \in S /\ \A m \in S : m \in T /\ m # s /\ ChildSet(t, m) \subseteq S
    <3>1. Select \notin T
      BY <1>4, KindsAssumption
    <3> QED BY <1>4, <1>7, <3>1, SubtreeIsClosed
  <2>2. \A m \in S : ChildSet(u, m) \subseteq S
    BY <2>1, <1>2
  <2> HIDE DEF S
  <2>3. Subtree(u, n) \subseteq S
    BY <2>1, <2>2, SubtreeIsLeast
  <2> QED BY <2>3 DEF S
<1>8. ASSUME NEW n \in T
      PROVE  Subtree(u, n) \subseteq Subtree(t, n) \cup {b, r}
  <2>1. CASE s = Select \/ s \notin Subtree(t, n)
    BY <2>1, <1>7
  <2>2. CASE s # Select /\ s \in Subtree(t, n)
    <3> DEFINE S == Subtree(t, n) \cup {b, r}
    <3>1. w \in S /\ n \in S
      BY <2>2, <1>1, <1>4, SubtreeIsClosed
    <3>2. \A m \in S : ChildSet(u, m) \subseteq S
      BY <3>1, <1>1, <1>2, <1>4, SubtreeIsClosed
    <3> HIDE DEF S
    <3>3. Subtree(u, n) \subseteq S
      BY <3>1, <3>2, SubtreeIsLeast
    <3> QED BY <3>3 DEF S
  <2> QED BY <2>1, <2>2
<1>9. s = Select \/ s \notin Subtree(t, w)
  BY <1>1, <1>5
<1>10. Subtree(u, r) \subseteq {r}
  <2> DEFINE S == {r}
  <2>1. r \in S /\ \A m \in S : ChildSet(u, m) \subseteq S
    BY <1>1
  <2> HIDE DEF S
  <2>2. Subtree(u, r) \subseteq S
    BY <2>1, SubtreeIsLeast
  <2> QED BY <2>2 DEF S
<1>11. Subtree(u, b) \subseteq {b, r} \cup Subtree(t, w)
  <2> DEFINE S == {b, r} \cup Subtree(u, w)
  <2>1. b \in S /\ \A m \in S : ChildSet(u, m) \subseteq S
    BY <1>1, SubtreeIsClosed
  <2> HIDE DEF S
  <2>2. Subtree(u, b) \subseteq S
    BY <2>1, SubtreeIsLeast
  <2> QED BY <2>2, <1>1, <1>7, <1>9 DEF S
<1>12. ASSUME NEW m \in InTree(u), NEW n \in ChildSet(u, m)
       PROVE  m \notin Subtree(u, n)
  <2>1. CASE m = b /\ n = r
    BY <2>1, <1>1, <1>10
  <2>2. CASE m = b /\ n = w
    <3>1. b \notin T
      BY <1>2
    <3> QED BY <3>1, <2>2, <1>1, <1>4, <1>7, <1>9
  <2>3. CASE m \in T /\ m = s
    BY <2>3, <1>1, <1>2, <1>4, <1>5, <1>11, KindsAssumption
  <2>4. CASE m \in T /\ m # s
    BY <2>4, <1>2, <1>4, <1>5, <1>8
  <2> QED BY <1>1, <2>1, <2>2, <2>3, <2>4
<1>13. ASSUME NEW m \in InTree(u)
       PROVE  Len(u.children[m]) = Arity(m) /\ IsInjective(u.children[m])
  <2>1. CASE m = b
    <3>1. Arity(b) = 2
      BY KindsAssumption DEF Arity, Wrap
    <3>2. u.children[m] = <<w, r>>
      BY <2>1 DEF Wrap
    <3>3. Len(<<w, r>>) = 2 /\ IsInjective(<<w, r>>)
      BY <1>1 DEF IsInjective
    <3> QED BY <2>1, <3>1, <3>2, <3>3
  <2>2. CASE m = r
    <3>1. Arity(r) = 0
      BY DEF Arity, Wrap
    <3>2. u.children[m] = <<>>
      BY <2>2 DEF Wrap
    <3>3. Len(<<>>) = 0 /\ IsInjective(<<>>)
      BY DEF IsInjective
    <3> QED BY <2>2, <3>1, <3>2, <3>3
  <2>3. CASE m \in T /\ m = s
    <3>1. Arity(m) = 1
      <4>1. m \in Exists
        BY <2>3, <1>4, WrapFacts, KindsAssumption
      <4> QED BY <4>1, KindsAssumption DEF Arity, Unary
    <3>2. u.children[m] = <<b>>
      BY <2>3 DEF Wrap
    <3>3. Len(<<b>>) = 1 /\ IsInjective(<<b>>)
      BY DEF IsInjective
    <3> QED BY <3>1, <3>2, <3>3
  <2>4. CASE m \in T /\ m # s
    BY <2>4 DEF IsATree, Wrap
  <2> QED BY <1>1, <2>1, <2>2, <2>3, <2>4
<1> QED BY <1>6, <1>12, <1>13 DEF IsATree

\* All but w are held by who held them, and are on the spines they were on.
LEMMA WrapHolders ==
  ASSUME NEW t \in Tree, IsATree(t), NEW u \in Tree, NEW s, NEW w, NEW b, NEW r, Wrap(t, u, s, w, b, r)
  PROVE  /\ \A n \in InTree(t) \ {w} : \A h : Holds(t, h, n) <=> Holds(u, h, n)
         /\ Holds(t, s, w) /\ Holds(u, b, w) /\ Holds(u, s, b) /\ Holds(u, b, r)
         /\ \A n \in InTree(t), e \in ScopesOf(t) : OnSpine(t, e, n) <=> OnSpine(u, e, n)
<1> DEFINE T == InTree(t)
<1>1. /\ b \in Node /\ r \in Node /\ b # r /\ b # Nil /\ b # Select /\ r # Select
      /\ w \in T /\ w \in Node /\ w # b /\ w # r /\ Holds(t, s, w)
      /\ s # Select => s \in T /\ ChildSet(t, s) = {w} /\ s # b /\ s # r /\ s \in Exists
      /\ ChildSet(u, b) = {w, r} /\ ChildSet(u, r) = {}
      /\ InTree(u) = T \cup {b, r} /\ ScopesOf(u) = ScopesOf(t)
  BY WrapFacts
<1>2. \A n \in T : /\ ChildSet(u, n) = IF n = s THEN {b} ELSE ChildSet(t, n)
                   /\ n # s => w \notin ChildSet(t, n)
                   /\ b \notin ChildSet(t, n) /\ r \notin ChildSet(t, n)
                   /\ n # b /\ n # r
  BY WrapFacts
<1>3. /\ u.where = IF s = Select THEN b ELSE t.where
      /\ s = Select => w = t.where
      /\ t.where # Nil /\ Select \notin T /\ t.where \in T
  BY InTreeIsClosed, KindsAssumption DEF Wrap, WhereOf
<1>4. ASSUME NEW n \in T \ {w}, NEW h
      PROVE  Holds(t, h, n) <=> Holds(u, h, n)
  BY <1>1, <1>2, <1>3 DEF Holds
<1>5. Holds(u, b, w) /\ Holds(u, s, b) /\ Holds(u, b, r)
  BY <1>1, <1>2, <1>3 DEF Holds
<1>6. ASSUME NEW n \in T, NEW e \in ScopesOf(t)
      PROVE  OnSpine(t, e, n) <=> OnSpine(u, e, n)
  <2>1. IF e = s THEN WhereOf(t, e) = w /\ WhereOf(u, e) = b
        ELSE WhereOf(u, e) = WhereOf(t, e)
    BY <1>3 DEF Wrap, WhereOf, ScopesOf
  <2>2. WhereOf(t, e) \in T
    BY <1>3, SpineIsClosed
  <2>3. \A m \in T \cap Binary : ChildSet(u, m) = ChildSet(t, m) /\ ChildSet(t, m) \subseteq T
    BY <1>1, <1>2, <1>3, InTreeIsClosed, KindsAssumption DEF Unary
  <2>4. ASSUME OnSpine(t, e, n)
        PROVE  OnSpine(u, e, n)
    <3> SUFFICES ASSUME NEW S \in SUBSET InTree(u), WhereOf(u, e) \in S,
                        \A m \in S \cap Binary : ChildSet(u, m) \subseteq S
                 PROVE  n \in S
      BY DEF OnSpine
    <3> DEFINE R == S \cap T
    <3>1. R \in SUBSET InTree(t) /\ WhereOf(t, e) \in R
      BY <2>1, <2>2, <1>1 DEF Wrap
    <3>2. \A m \in R \cap Binary : ChildSet(t, m) \subseteq R
      BY <2>3
    <3> HIDE DEF R
    <3>3. n \in R
      BY <3>1, <3>2, <2>4, SpineIsLeast
    <3> QED BY <3>3 DEF R
  <2>5. ASSUME OnSpine(u, e, n)
        PROVE  OnSpine(t, e, n)
    <3> SUFFICES ASSUME NEW S \in SUBSET InTree(t), WhereOf(t, e) \in S,
                        \A m \in S \cap Binary : ChildSet(t, m) \subseteq S
                 PROVE  n \in S
      BY DEF OnSpine
    <3> DEFINE R == S \cup {r} \cup {m \in {b} : w \in S}
    <3>1. R \in SUBSET InTree(u) /\ WhereOf(u, e) \in R
      BY <2>1, <2>2, <1>1
    <3>2. \A m \in R \cap Binary : ChildSet(u, m) \subseteq R
      BY <2>3, <1>1
    <3>3. n # b /\ n # r
      BY <1>2
    <3>4. n \in R
      <4> HIDE DEF R
      <4> QED BY <3>1, <3>2, <2>5, SpineIsLeast
    <3> QED BY <3>3, <3>4
  <2> QED BY <2>4, <2>5
<1> QED BY <1>1, <1>4, <1>5, <1>6

\* The parents that add_restriction sets are right.
LEMMA WrapLeads ==
  ASSUME NEW t \in Tree, IsATree(t), Led(t), NEW u \in Tree, NEW s, NEW w, NEW b, NEW r,
         Wrap(t, u, s, w, b, r), u.parent[w] = b, u.parent[r] = b, u.parent[b] = s,
         \A n \in InTree(t) \ {w} : u.parent[n] = t.parent[n]
  PROVE  Led(u)
<1>1. InTree(u) = InTree(t) \cup {b, r} /\ ScopesOf(u) = ScopesOf(t)
  BY WrapFacts
<1> SUFFICES ASSUME NEW n \in InTree(u)
             PROVE  \/ Holds(u, u.parent[n], n)
                    \/ u.parent[n] \in ScopesOf(u) /\ OnSpine(u, u.parent[n], n)
  BY DEF Led
<1>2. CASE n \in {w, b, r}
  BY <1>2, WrapHolders
<1>3. CASE n \in InTree(t) \ {w}
  <2>1. \/ Holds(t, t.parent[n], n)
        \/ t.parent[n] \in ScopesOf(t) /\ OnSpine(t, t.parent[n], n)
    BY <1>3 DEF Led
  <2> QED BY <1>1, <1>3, <2>1, WrapHolders
<1> QED BY <1>1, <1>2, <1>3

\* So are those that the undo finds and the one that it sets.
LEMMA UnwrapLeads ==
  ASSUME NEW t \in Tree, IsATree(t), NEW u \in Tree, Led(u), NEW s, NEW w, NEW b, NEW r,
         Wrap(t, u, s, w, b, r), NEW y \in Tree, SameTree(t, y), y.parent[w] = s,
         \A n \in InTree(t) \ {w} : y.parent[n] = u.parent[n]
  PROVE  Led(y)
<1>1. InTree(y) = InTree(t) /\ ScopesOf(y) = ScopesOf(t)
  BY SameTreeNodes
<1>2. InTree(u) = InTree(t) \cup {b, r} /\ ScopesOf(u) = ScopesOf(t)
  BY WrapFacts
<1> SUFFICES ASSUME NEW n \in InTree(t)
             PROVE  \/ Holds(y, y.parent[n], n)
                    \/ y.parent[n] \in ScopesOf(y) /\ OnSpine(y, y.parent[n], n)
  BY <1>1 DEF Led
<1>3. \/ Holds(t, y.parent[n], n)
      \/ y.parent[n] \in ScopesOf(t) /\ OnSpine(t, y.parent[n], n)
  <2>1. CASE n = w
    BY <2>1, WrapHolders
  <2>2. CASE n # w
    <3>1. \/ Holds(u, u.parent[n], n)
          \/ u.parent[n] \in ScopesOf(u) /\ OnSpine(u, u.parent[n], n)
      BY <1>2 DEF Led
    <3> QED BY <1>2, <2>2, <3>1, WrapHolders
  <2> QED BY <2>1, <2>2
<1> QED BY <1>1, <1>3, SameTreeShape

-----------------------------------------------------------------------------
\* remove_node takes a binary node p out with its child m; the other child, s, takes
\* its place under q.

\* From t to u, p has gone from under q, with m.
Cut(t, u, q, p, m, s) ==
  /\ p \in InTree(t) \cap Binary /\ Holds(t, q, p)
  /\ m # s /\ ChildSet(t, p) = {m, s}
  /\ u.where = IF q = Select THEN s ELSE t.where
  /\ \A n \in InTree(t) \ ({p} \cup Subtree(t, m)) :
       IF n = q
       THEN u.children[n] = [i \in DOMAIN t.children[n] |->
                               IF t.children[n][i] = p THEN s ELSE t.children[n][i]]
       ELSE u.children[n] = t.children[n]

\* Who is where, before and after.
LEMMA CutFacts ==
  ASSUME NEW t \in Tree, IsATree(t), NEW u \in Tree, NEW q, NEW p, NEW m, NEW s, Cut(t, u, q, p, m, s)
  PROVE  /\ p \in InTree(t) /\ p \in Binary /\ p # m /\ p # s /\ p \in Node
         /\ m \in InTree(t) /\ s \in InTree(t) /\ m \in Node /\ s \in Node
         /\ q = Select \/ q \in InTree(t)
         /\ q = Select => t.where = p
         /\ q # Select => p \in ChildSet(t, q) /\ q # p /\ q \notin Subtree(t, p)
         /\ InTree(u) = InTree(t) \ ({p} \cup Subtree(t, m))
         /\ q # Select => q \in InTree(u)
         /\ s \in InTree(u) /\ Subtree(t, m) \subseteq Subtree(t, p)
         /\ \A n \in InTree(u) :
              /\ ChildSet(u, n) = IF n = q THEN (ChildSet(t, n) \ {p}) \cup {s} ELSE ChildSet(t, n)
              /\ n # q => p \notin ChildSet(t, n)
              /\ m \notin ChildSet(t, n) /\ s \notin ChildSet(t, n)
              /\ n # p /\ n # m
<1> DEFINE T == InTree(t)
           U == T \ ({p} \cup Subtree(t, m))
<1>1. p \in T /\ p \in Binary /\ m # s /\ ChildSet(t, p) = {m, s} /\ Holds(t, q, p)
  BY DEF Cut
<1>2. /\ p # m /\ p # s /\ p \in Node /\ m \in T /\ s \in T /\ m \in Node /\ s \in Node
      /\ p \notin Subtree(t, m) /\ p \notin Subtree(t, s) /\ m # t.where /\ s # t.where
  BY <1>1, TreeFacts, InTreeIsClosed
<1>3. /\ q = Select \/ q \in T
      /\ q = Select => t.where = p
      /\ q # Select => p \in ChildSet(t, q) /\ q # p /\ q \notin Subtree(t, p)
  BY <1>1, TreeFacts DEF Holds
<1>4. Subtree(t, m) \subseteq Subtree(t, p) /\ p \in Subtree(t, p) /\ Subtree(t, m) \subseteq T
  BY <1>1, <1>2, SubtreeIsClosed, SubtreeOfMember, InTreeIsClosed
<1>5. ASSUME NEW n \in T
      PROVE  /\ n # q => p \notin ChildSet(t, n)
             /\ n # p => m \notin ChildSet(t, n) /\ s \notin ChildSet(t, n)
  BY <1>1, <1>3, TreeFacts DEF Holds
<1>6. ASSUME NEW n \in U
      PROVE  ChildSet(u, n) = IF n = q THEN (ChildSet(t, n) \ {p}) \cup {s} ELSE ChildSet(t, n)
  <2>1. CASE n = q
    <3>1. u.children[n] = [i \in DOMAIN t.children[n] |->
                             IF t.children[n][i] = p THEN s ELSE t.children[n][i]]
      BY <2>1 DEF Cut
    <3>2. n # Select /\ n \in Node
      BY InTreeIsClosed, KindsAssumption
    <3>3. p \in Range(t.children[n])
      BY <2>1, <3>2, <1>3 DEF ChildSet
    <3>4. Range(u.children[n]) = (Range(t.children[n]) \ {p}) \cup {s}
      BY ONLY <3>1, <3>3, <1>2 DEF Range
    <3> QED BY <2>1, <3>4 DEF ChildSet
  <2>2. CASE n # q
    BY <2>2 DEF Cut, ChildSet
  <2> QED BY <2>1, <2>2
\* s is not under m: its only holder would be there.
<1>7. s \notin Subtree(t, m)
  <2> SUFFICES ASSUME s \in Subtree(t, m) PROVE FALSE
    OBVIOUS
  <2>1. PICK h \in Subtree(t, m) : s \in ChildSet(t, h)
    BY <1>1, <1>2, HeldWithin
  <2>2. h = p
    BY <2>1, <1>4, <1>5
  <2> QED BY <2>1, <2>2, <1>2
<1>8. ASSUME NEW n \in U, NEW c \in ChildSet(t, n), c # p
      PROVE  c \in U
  <2>1. c \in T
    BY InTreeIsClosed
  <2>2. c \notin Subtree(t, m)
    <3> SUFFICES ASSUME c \in Subtree(t, m) PROVE FALSE
      OBVIOUS
    <3>1. c # m
      BY <1>5
    <3>2. PICK h \in Subtree(t, m) : c \in ChildSet(t, h)
      BY <3>1, <1>2, HeldWithin
    <3>3. h = n
      BY <3>2, <1>4, TreeFacts
    <3> QED BY <3>2, <3>3
  <2> QED BY <1>8, <2>1, <2>2
<1>9. s \in U
  BY <1>2, <1>7
<1>10. u.where \in U /\ u.where # Nil
  <2>1. CASE q = Select
    <3>1. u.where = s
      BY <2>1 DEF Cut
    <3> QED BY <3>1, <1>9, <1>2, KindsAssumption
  <2>2. CASE q # Select
    <3>1. u.where = t.where /\ t.where # Nil /\ t.where \in T
      BY <2>2, <1>1, InTreeIsClosed DEF Cut
    <3>2. t.where # p
      BY <2>2, <1>3, TreeFacts
    <3>3. t.where \notin Subtree(t, m)
      <4> SUFFICES ASSUME t.where \in Subtree(t, m) PROVE FALSE
        OBVIOUS
      <4>1. PICK h \in Subtree(t, m) : t.where \in ChildSet(t, h)
        BY <1>2, HeldWithin
      <4> QED BY <4>1, <1>4, TreeFacts
    <3> QED BY <3>1, <3>2, <3>3
  <2> QED BY <2>1, <2>2
<1>11. InTree(u) \subseteq U
  <2> DEFINE S == U
  <2>1. \A n \in S : ChildSet(u, n) \subseteq S
    BY <1>6, <1>8, <1>9, <1>5
  <2>2. u.where \in S
    BY <1>10
  <2> HIDE DEF S
  <2>3. InTree(u) \subseteq S
    BY <2>1, <2>2, InTreeIsLeast
  <2> QED BY <2>3 DEF S
<1>12. q # Select => q \in InTree(u)
  <2> SUFFICES ASSUME q # Select, q \notin InTree(u) PROVE FALSE
    OBVIOUS
  <2> DEFINE S == InTree(u)
  <2>1. t.where \in S
    BY <1>10, InTreeIsClosed DEF Cut
  <2>2. \A n \in S : ChildSet(t, n) \subseteq S
    BY <1>6, <1>11, InTreeIsClosed
  <2> HIDE DEF S
  <2>3. InTree(t) \subseteq S
    BY <2>1, <2>2, InTreeIsLeast
  <2> QED BY <2>3, <1>3 DEF S
<1>13. s \in InTree(u)
  <2>1. CASE q = Select
    <3>1. u.where = s
      BY <2>1 DEF Cut
    <3> QED BY <3>1, <1>10, InTreeIsClosed
  <2>2. CASE q # Select
    <3>1. s \in ChildSet(u, q)
      BY <2>2, <1>6, <1>11, <1>12
    <3> QED BY <2>2, <3>1, <1>12, InTreeIsClosed
  <2> QED BY <2>1, <2>2
<1>14. U \subseteq InTree(u)
  <2> DEFINE S == InTree(u) \cup {p} \cup Subtree(t, m)
  <2>1. t.where \in S
    BY <1>10, <1>3, InTreeIsClosed DEF Cut
  <2>2. \A n \in S : ChildSet(t, n) \subseteq S
    <3> SUFFICES ASSUME NEW n \in S, NEW c \in ChildSet(t, n) PROVE c \in S
      OBVIOUS
    <3>1. CASE n \in InTree(u)
      BY <3>1, <1>6, <1>11, InTreeIsClosed
    <3>2. CASE n = p
      BY <3>2, <1>1, <1>2, <1>13, SubtreeIsClosed
    <3>3. CASE n \in Subtree(t, m)
      BY <3>3, <1>2, SubtreeIsClosed
    <3> QED BY <3>1, <3>2, <3>3
  <2> HIDE DEF S
  <2>3. InTree(t) \subseteq S
    BY <2>1, <2>2, InTreeIsLeast
  <2> QED BY <2>3 DEF S
<1>15. InTree(u) = U
  BY <1>11, <1>14
<1>16. m \in Subtree(t, m)
  BY <1>2, SubtreeIsClosed
<1> HIDE DEF Cut
<1>17. \A n \in InTree(u) :
         /\ ChildSet(u, n) = IF n = q THEN (ChildSet(t, n) \ {p}) \cup {s} ELSE ChildSet(t, n)
         /\ n # q => p \notin ChildSet(t, n)
         /\ m \notin ChildSet(t, n) /\ s \notin ChildSet(t, n)
         /\ n # p /\ n # m
  BY <1>5, <1>6, <1>15, <1>16
<1> QED BY <1>1, <1>2, <1>3, <1>4, <1>12, <1>13, <1>15, <1>17

\* The result is a tree.
LEMMA CutIsATree ==
  ASSUME NEW t \in Tree, IsATree(t), NEW u \in Tree, NEW q, NEW p, NEW m, NEW s, Cut(t, u, q, p, m, s)
  PROVE  IsATree(u)
<1> DEFINE T == InTree(t)
           U == InTree(u)
<1>1. /\ p \in T /\ p # m /\ p # s /\ p \in Node /\ s \in T /\ s \in Node /\ s \in U
      /\ q # Select => q \in U /\ p \in ChildSet(t, q) /\ q \notin Subtree(t, p)
      /\ U = T \ ({p} \cup Subtree(t, m)) /\ ChildSet(t, p) = {m, s}
  <2>1. ChildSet(t, p) = {m, s}
    BY DEF Cut
  <2> QED BY <2>1, CutFacts
<1>2. \A n \in U : /\ ChildSet(u, n) = IF n = q THEN (ChildSet(t, n) \ {p}) \cup {s} ELSE ChildSet(t, n)
                   /\ n # q => p \notin ChildSet(t, n)
                   /\ m \notin ChildSet(t, n) /\ s \notin ChildSet(t, n)
                   /\ n # p /\ n # m /\ n \in T
  BY CutFacts
<1>3. \A k \in T : ChildSet(t, k) \subseteq T /\ Subtree(t, k) \subseteq T /\ k \in Node
  BY InTreeIsClosed
<1>4. \A k \in U : ChildSet(u, k) \subseteq U
  BY InTreeIsClosed
<1>5. \A n, k \in T : \A c \in ChildSet(t, n) : c \in ChildSet(t, k) => n = k
  BY TreeFacts
<1>6. \A k \in T : \A n \in ChildSet(t, k) : k \notin Subtree(t, n)
  BY TreeFacts
<1>7. ASSUME NEW n \in U, NEW k \in U, NEW c \in ChildSet(u, n), c \in ChildSet(u, k)
      PROVE  n = k
  BY <1>2, <1>5, <1>7
<1>8. ASSUME NEW n \in U
      PROVE  Subtree(u, n) \subseteq Subtree(t, n)
  <2> DEFINE S == Subtree(t, n) \cap U
  <2>1. n \in S /\ \A k \in S : ChildSet(t, k) \subseteq Subtree(t, n)
    BY <1>2, <1>3, SubtreeIsClosed
  <2>2. ASSUME NEW k \in S, NEW c \in ChildSet(u, k)
        PROVE  c \in S
    <3>1. CASE k = q /\ c = s
      <4>1. k # Select
        BY <1>2, <1>3, KindsAssumption
      <4>2. p \in Subtree(t, n)
        BY <3>1, <4>1, <1>1, <2>1
      <4>3. s \in Subtree(t, n)
        BY <4>2, <1>1, <1>2, <1>3, SubtreeIsClosed
      <4> QED BY <4>3, <3>1, <1>1
    <3>2. CASE ~(k = q /\ c = s)
      BY <3>2, <2>1, <1>2, <1>4
    <3> QED BY <3>1, <3>2
  <2> HIDE DEF S
  <2>3. Subtree(u, n) \subseteq S
    BY <2>1, <2>2, SubtreeIsLeast
  <2> QED BY <2>3 DEF S
<1>9. ASSUME NEW k \in U, NEW n \in ChildSet(u, k)
      PROVE  k \notin Subtree(u, n)
  <2>1. n \in U
    BY <1>4
  <2>2. CASE k = q /\ n = s
    <3>1. k # Select
      BY <1>2, <1>3, KindsAssumption
    <3>2. Subtree(t, s) \subseteq Subtree(t, p)
      BY <1>1, SubtreeIsClosed, SubtreeOfMember
    <3> QED BY <3>1, <3>2, <2>1, <2>2, <1>1, <1>8
  <2>3. CASE ~(k = q /\ n = s)
    BY <2>1, <2>3, <1>2, <1>6, <1>8
  <2> QED BY <2>2, <2>3
<1>10. ASSUME NEW n \in U
       PROVE  Len(u.children[n]) = Arity(n) /\ IsInjective(u.children[n])
  <2> DEFINE c == t.children[n]
             d == u.children[n]
  <2>1. Len(c) = Arity(n) /\ IsInjective(c) /\ c \in Seq(Node) /\ d \in Seq(Node)
    BY <1>2, <1>3, ChildrenAreNodes DEF IsATree, Tree
  <2>2. CASE n = q
    <3>1. d = [i \in DOMAIN c |-> IF c[i] = p THEN s ELSE c[i]]
      BY <2>2, <1>1 DEF Cut
    <3>2. s \notin Range(c)
      BY <1>2 DEF ChildSet
    <3> HIDE DEF c, d
    <3>3. IsInjective(d) /\ DOMAIN d = DOMAIN c
      BY ONLY <3>1, <3>2, <2>1 DEF IsInjective, Range
    <3>4. Len(d) = Len(c)
      BY ONLY <2>1, <3>3, LenProperties
    <3> QED BY <2>1, <3>3, <3>4 DEF d
  <2>3. CASE n # q
    <3>1. d = c
      BY <2>3, <1>1 DEF Cut
    <3> QED BY <3>1, <2>1
  <2> QED BY <2>2, <2>3
<1> QED BY <1>7, <1>9, <1>10 DEF IsATree

\* All that stay, but s, are held by who held them, and are on the spines they were on.
LEMMA CutHolders ==
  ASSUME NEW t \in Tree, IsATree(t), NEW u \in Tree, NEW q, NEW p, NEW m, NEW s, Cut(t, u, q, p, m, s)
  PROVE  /\ \A n \in InTree(u) \ {s} : \A h : Holds(t, h, n) <=> Holds(u, h, n)
         /\ Holds(t, p, m) /\ Holds(t, p, s) /\ Holds(t, q, p) /\ Holds(u, q, s)
         /\ ScopesOf(u) \subseteq ScopesOf(t)
         /\ \A n \in InTree(u), e \in ScopesOf(t) : OnSpine(t, e, n) => e \in ScopesOf(u)
         /\ \A n \in InTree(u), e \in ScopesOf(u) : OnSpine(t, e, n) <=> OnSpine(u, e, n)
<1> DEFINE T == InTree(t)
           U == InTree(u)
<1>1. /\ p \in T /\ p \in Binary /\ p # m /\ p # s /\ p \in Node /\ s \in T /\ s \in Node /\ s \in U
      /\ m \in Node
      /\ q = Select => t.where = p
      /\ q # Select => q \in U /\ p \in ChildSet(t, q) /\ q \notin Subtree(t, p)
      /\ U = T \ ({p} \cup Subtree(t, m)) /\ ChildSet(t, p) = {m, s} /\ Holds(t, q, p)
  <2>1. ChildSet(t, p) = {m, s} /\ Holds(t, q, p)
    BY DEF Cut
  <2> QED BY <2>1, CutFacts
<1>2. \A n \in U : /\ ChildSet(u, n) = IF n = q THEN (ChildSet(t, n) \ {p}) \cup {s} ELSE ChildSet(t, n)
                   /\ n # q => p \notin ChildSet(t, n)
                   /\ m \notin ChildSet(t, n) /\ s \notin ChildSet(t, n)
                   /\ n # p /\ n # m /\ n \in T
  BY CutFacts
<1>3. \A k \in T : ChildSet(t, k) \subseteq T /\ Subtree(t, k) \subseteq T /\ k \in Node /\ k # Select
  BY InTreeIsClosed, KindsAssumption
<1>4. /\ u.where = IF q = Select THEN s ELSE t.where
      /\ t.where # Nil /\ t.where \in T /\ s # Nil /\ p # Select
  BY <1>1, <1>3, InTreeIsClosed, KindsAssumption DEF Cut
<1>5. Holds(t, p, m) /\ Holds(t, p, s) /\ Holds(u, q, s)
  BY <1>1, <1>2, <1>3, <1>4 DEF Holds
<1>6. ASSUME NEW n \in U \ {s}, NEW h
      PROVE  Holds(t, h, n) <=> Holds(u, h, n)
  <2>1. CASE h = Select
    <3>1. q = Select => t.where # n /\ u.where # n
      BY <1>1, <1>2, <1>4
    <3> QED BY <2>1, <3>1, <1>4 DEF Holds
  <2>2. CASE h # Select
    <3>1. ASSUME h \in U
          PROVE  n \in ChildSet(t, h) <=> n \in ChildSet(u, h)
      BY <3>1, <1>2
    <3>2. ASSUME h \in T \ U, n \in ChildSet(t, h)
          PROVE  FALSE
      <4>1. CASE h = p
        <5>1. m \in Subtree(t, m)
          BY <1>1, SubtreeIsClosed
        <5> QED BY <5>1, <4>1, <3>2, <1>1
      <4>2. CASE h \in Subtree(t, m)
        BY <4>2, <3>2, <1>1, SubtreeIsClosed
      <4> QED BY <3>2, <4>1, <4>2, <1>1
    <3> QED BY <2>2, <3>1, <3>2, <1>1 DEF Holds
  <2> QED BY <2>1, <2>2
<1>7. ScopesOf(u) \subseteq ScopesOf(t)
  BY <1>1 DEF ScopesOf
<1>8. ASSUME NEW n \in U, NEW e \in ScopesOf(t), OnSpine(t, e, n), e \notin ScopesOf(u)
      PROVE  FALSE
  <2>1. e \in T \cap Exists /\ e \notin U /\ e \notin Binary
    BY <1>8, KindsAssumption DEF ScopesOf, Unary
  <2>2. e \in Subtree(t, m)
    BY <2>1, <1>1
  <2>3. n \in Subtree(t, e)
    BY <1>4, <1>8, <2>1, SpineIsUnder
  <2>4. n \in Subtree(t, m)
    BY <2>2, <2>3, <1>1, SubtreeOfMember
  <2> QED BY <2>4, <1>1
<1>9. ASSUME NEW n \in U, NEW e \in ScopesOf(u)
      PROVE  OnSpine(t, e, n) <=> OnSpine(u, e, n)
  <2>1. /\ e = q => WhereOf(t, e) = p /\ WhereOf(u, e) = s
        /\ e # q => WhereOf(u, e) = WhereOf(t, e) /\ WhereOf(t, e) # p
    <3>1. CASE e = Select
      <4>1. e # q => t.where # p
        BY <3>1, <1>1, TreeFacts
      <4> QED BY <3>1, <4>1, <1>1, <1>4 DEF WhereOf
    <3>2. CASE e # Select
      <4>1. e \in U /\ e \in T \cap Unary /\ e \in Exists
        BY <3>2, <1>2 DEF ScopesOf, Unary
      <4>2. ChildSet(t, e) = {t.children[e][1]} /\ t.children[e] = <<t.children[e][1]>>
        BY <4>1, TreeFacts
      <4>3. CASE e = q
        <5>1. t.children[e][1] = p /\ t.children[e] = <<p>>
          BY <4>2, <4>3, <3>2, <1>1
        <5>2. u.children[e] = [i \in DOMAIN t.children[e] |->
                                 IF t.children[e][i] = p THEN s ELSE t.children[e][i]]
          BY <4>1, <4>3, <1>1 DEF Cut
        <5>3. u.children[e][1] = s
          BY ONLY <5>1, <5>2
        <5> QED BY <3>2, <4>3, <5>1, <5>3 DEF WhereOf
      <4>4. CASE e # q
        <5>1. u.children[e] = t.children[e]
          BY <4>1, <4>4, <1>1 DEF Cut
        <5>2. t.children[e][1] # p
          BY <4>1, <4>2, <4>4, <1>2
        <5> QED BY <3>2, <4>4, <5>1, <5>2 DEF WhereOf
      <4> QED BY <4>3, <4>4
    <3> QED BY <3>1, <3>2
  <2>2. WhereOf(t, e) \in T /\ WhereOf(u, e) \in U
    <3>1. e \in ScopesOf(t) /\ u.where # Nil
      BY <1>1, <1>4, <1>7, InTreeIsClosed
    <3>2. IsATree(u)
      BY CutIsATree
    <3> QED BY <3>1, <3>2, <1>4, SpineIsClosed
  <2>3. ASSUME OnSpine(t, e, n)
        PROVE  OnSpine(u, e, n)
    <3> SUFFICES ASSUME NEW S \in SUBSET InTree(u), WhereOf(u, e) \in S,
                        \A k \in S \cap Binary : ChildSet(u, k) \subseteq S
                 PROVE  n \in S
      BY DEF OnSpine
    <3> DEFINE R == S \cup Subtree(t, m) \cup {k \in {p} : s \in S}
    <3>1. R \in SUBSET InTree(t)
      BY <1>1, CutFacts, InTreeIsClosed
    <3>2. WhereOf(t, e) \in R
      BY <2>1
    <3>3. ASSUME NEW k \in R \cap Binary, NEW c \in ChildSet(t, k)
          PROVE  c \in R
      <4>1. CASE k \in S
        <5>1. ChildSet(u, k) \subseteq S /\ k \in U
          BY <4>1
        <5> QED BY <5>1, <1>2
      <4>2. CASE k \in Subtree(t, m)
        BY <4>2, <1>1, SubtreeIsClosed
      <4>3. CASE k = p /\ s \in S
        <5>1. m \in Subtree(t, m)
          BY <1>1, SubtreeIsClosed
        <5> QED BY <5>1, <4>3, <1>1
      <4> QED BY <4>1, <4>2, <4>3
    <3>4. n \in R
      <4> HIDE DEF R
      <4> QED BY <3>1, <3>2, <3>3, <2>3, SpineIsLeast
    <3> QED BY <3>4, <1>1
  <2>4. ASSUME OnSpine(u, e, n)
        PROVE  OnSpine(t, e, n)
    <3> SUFFICES ASSUME NEW S \in SUBSET InTree(t), WhereOf(t, e) \in S,
                        \A k \in S \cap Binary : ChildSet(t, k) \subseteq S
                 PROVE  n \in S
      BY DEF OnSpine
    <3> DEFINE R == S \cap U
    <3>1. p \in S => s \in S
      BY <1>1
    <3>2. WhereOf(u, e) \in R
      BY <2>1, <2>2, <3>1
    <3>3. \A k \in R \cap Binary : ChildSet(u, k) \subseteq R
      BY <3>1, <1>2, InTreeIsClosed
    <3>4. n \in R
      <4>1. R \in SUBSET InTree(u)
        OBVIOUS
      <4> HIDE DEF R
      <4> QED BY <4>1, <3>2, <3>3, <2>4, SpineIsLeast
    <3> QED BY <3>4
  <2> QED BY <2>3, <2>4
<1> QED BY <1>1, <1>5, <1>6, <1>7, <1>8, <1>9

\* The parent that remove_node sets is right.
LEMMA CutLeads ==
  ASSUME NEW t \in Tree, IsATree(t), Led(t), NEW u \in Tree, NEW q, NEW p, NEW m, NEW s,
         Cut(t, u, q, p, m, s), u.parent[s] = q,
         \A n \in InTree(u) \ {s} : u.parent[n] = t.parent[n]
  PROVE  Led(u)
<1> SUFFICES ASSUME NEW n \in InTree(u)
             PROVE  \/ Holds(u, u.parent[n], n)
                    \/ u.parent[n] \in ScopesOf(u) /\ OnSpine(u, u.parent[n], n)
  BY DEF Led
<1>1. CASE n = s
  BY <1>1, CutHolders
<1>2. CASE n # s
  <2>1. n \in InTree(t)
    BY CutFacts
  <2>2. \/ Holds(t, t.parent[n], n)
        \/ t.parent[n] \in ScopesOf(t) /\ OnSpine(t, t.parent[n], n)
    BY <2>1 DEF Led
  <2> QED BY <1>2, <2>2, CutHolders
<1> QED BY <1>1, <1>2

\* Those that the undo finds and sets are holders; the one of s, which the undo
\* leaves when p is right under a scope, is this scope.
LEMMA UncutLeads ==
  ASSUME NEW t \in Tree, IsATree(t), Led(t), NEW u \in Tree, Led(u), NEW q, NEW p, NEW m, NEW s,
         Cut(t, u, q, p, m, s), NEW y \in Tree, SameTree(t, y),
         y.parent[p] = q, y.parent[m] = p,
         y.parent[s] = (IF q \in Scope THEN u.parent[s] ELSE p),
         \A n \in Subtree(t, m) \ {m} : y.parent[n] = t.parent[n],
         \A n \in InTree(u) \ {s} : y.parent[n] = u.parent[n]
  PROVE  Led(y)
<1>1. InTree(y) = InTree(t) /\ ScopesOf(y) = ScopesOf(t)
  BY SameTreeNodes
<1>2. /\ InTree(u) = InTree(t) \ ({p} \cup Subtree(t, m)) /\ p \in InTree(t) /\ p \in Binary
      /\ s \in InTree(u) /\ t.where # Nil /\ u.where # Nil /\ IsATree(u)
      /\ ChildSet(t, p) = {m, s}
      /\ q = Select \/ q \in InTree(t)
  <2>1. ChildSet(t, p) = {m, s}
    BY DEF Cut
  <2>2. p \in InTree(t) /\ s \in InTree(u) /\ IsATree(u)
    BY CutFacts, CutIsATree
  <2> QED BY <2>1, <2>2, CutFacts, InTreeIsClosed
<1>3. ASSUME q \in Scope
      PROVE  u.parent[s] = q /\ q \in ScopesOf(t) /\ OnSpine(t, q, s)
  <2>1. q \in ScopesOf(t) /\ q \notin Binary
    <3>1. q = Select \/ q \in Exists
      BY <1>3 DEF Scope
    <3>2. Select \notin InTree(t) /\ Select \notin Binary /\ Exists \cap Binary = {}
      BY InTreeIsClosed, KindsAssumption DEF Node, Unary
    <3> QED BY <3>1, <3>2, <1>2 DEF ScopesOf
  <2>2. Holds(u, q, s) /\ Holds(t, q, p)
    BY CutHolders
  <2>3. \A h : Holds(u, h, s) => h = q
    BY <2>2, <1>2, HolderIsOne
  <2>4. ASSUME Holds(u, u.parent[s], s)
        PROVE  u.parent[s] = q
    BY <2>3, <2>4
  <2>5. ASSUME u.parent[s] \in ScopesOf(u), OnSpine(u, u.parent[s], s)
        PROVE  u.parent[s] = q
    <3>1. CASE s = WhereOf(u, u.parent[s])
      BY <3>1, <2>5, <2>3, <1>2, SpineIsClosed
    <3>2. CASE \E h \in InTree(u) \cap Binary : s \in ChildSet(u, h)
      <4>1. PICK h \in InTree(u) \cap Binary : s \in ChildSet(u, h)
        BY <3>2
      <4>2. Holds(u, h, s)
        BY <4>1, InTreeIsClosed, KindsAssumption DEF Holds
      <4> QED BY <4>1, <4>2, <2>1, <2>3
    <3> QED BY <3>1, <3>2, <2>5, <1>2, SpineHolder
  <2>6. u.parent[s] = q
    BY <2>4, <2>5, <1>2 DEF Led
  <2>7. Holds(t, q, WhereOf(t, q)) /\ OnSpine(t, q, WhereOf(t, q))
    BY <2>1, <1>2, SpineIsClosed
  <2>8. WhereOf(t, q) = p
    <3>1. CASE q = Select
      BY <3>1, <2>2 DEF Holds, WhereOf
    <3>2. CASE q # Select
      <4>1. q \in InTree(t) \cap Unary
        BY <3>2, <2>1 DEF ScopesOf, Unary
      <4> QED BY <3>2, <4>1, <2>2, TreeFacts DEF Holds, WhereOf
    <3> QED BY <3>1, <3>2
  <2>9. OnSpine(t, q, s)
    BY <2>1, <2>7, <2>8, <1>2, SpineIsClosed
  <2> QED BY <2>1, <2>6, <2>9
<1> SUFFICES ASSUME NEW n \in InTree(t)
             PROVE  \/ Holds(y, y.parent[n], n)
                    \/ y.parent[n] \in ScopesOf(y) /\ OnSpine(y, y.parent[n], n)
  BY <1>1 DEF Led
<1>4. \/ Holds(t, y.parent[n], n)
      \/ y.parent[n] \in ScopesOf(t) /\ OnSpine(t, y.parent[n], n)
  <2>1. CASE n \in {p, m}
    BY <2>1, CutHolders
  <2>2. CASE n = s
    BY <2>2, <1>3, CutHolders
  <2>3. CASE n \in Subtree(t, m) \ {m}
    BY <2>3 DEF Led
  <2>4. CASE n \in InTree(u) \ {s}
    <3>1. \/ Holds(u, u.parent[n], n)
          \/ u.parent[n] \in ScopesOf(u) /\ OnSpine(u, u.parent[n], n)
      BY <2>4 DEF Led
    <3> QED BY <2>4, <3>1, CutHolders
  <2> QED BY <2>1, <2>2, <2>3, <2>4, <1>2
<1> QED BY <1>1, <1>4, SameTreeShape

-----------------------------------------------------------------------------
\* The objects that are still referred to.

\* A relation has no children here, whether it is in the tree or not.
Leaves(t) == \A r \in Relation : t.children[r] = <<>>

\* Objects that are still referred to keep their children and their parent.
LEMMA CollectedFacts ==
  ASSUME NEW t \in Tree, NEW ops, NEW v, v = Collected(t, ops)
  PROVE  /\ v \in Tree /\ v.where = t.where /\ v.references = t.references
         /\ SameTree(t, v)
         /\ \A n \in Live(t, ops) \cap Node : v.children[n] = t.children[n] /\ v.parent[n] = t.parent[n]
         /\ Leaves(t) => Leaves(v)
         /\ InTree(t) \subseteq Live(t, ops) \cap Node
<1> DEFINE live == Live(t, ops)
<1>1. InTree(t) \subseteq live \cap Node
  BY InTreeIsClosed DEF Live
<1>2. v = [t EXCEPT !.children = [n \in Node |-> IF n \in live THEN @[n] ELSE <<>>],
                    !.parent   = [n \in Node |-> IF n \in live THEN @[n] ELSE Nil]]
  BY DEF Collected
<1> HIDE DEF live
<1>3. <<>> \in Seq(Node)
  BY EmptySeq
<1>4. /\ v \in Tree /\ v.where = t.where /\ v.references = t.references
      /\ \A n \in Node : v.children[n] = IF n \in live THEN t.children[n] ELSE <<>>
      /\ \A n \in live \cap Node : v.parent[n] = t.parent[n]
  BY ONLY <1>2, <1>3, t \in Tree DEF Tree
<1>5. Relation \subseteq Node
  BY DEF Node
<1> QED BY <1>1, <1>4, <1>5 DEF SameTree, Leaves, live

\* So the tree is as sound once the other objects are collected.
LEMMA CollectedSound ==
  ASSUME NEW t, Sound(t), NEW ops, NEW v, v = Collected(t, ops)
  PROVE  Sound(v) /\ SameTree(t, v) /\ v.references = t.references /\ InTree(v) = InTree(t)
<1>1. t \in Tree /\ Leaves(t)
  BY DEF Sound, Leaves
<1>2. /\ v \in Tree /\ SameTree(t, v) /\ Leaves(v) /\ v.references = t.references
      /\ \A n \in InTree(t) : v.parent[n] = t.parent[n]
  BY <1>1, CollectedFacts
<1>3. Sound(v)
  BY <1>2, SameTreeSound DEF Leaves
<1> QED BY <1>1, <1>2, <1>3, SameTreeNodes

\* Under anything but a binary node, the parent is the holder.
LEMMA HolderIsParent ==
  ASSUME NEW t, Sound(t), NEW n \in InTree(t), NEW h, Holds(t, h, n), h \notin Binary
  PROVE  t.parent[n] = h
<1>1. HolderOf(t, n) = h
  BY HolderIsOne DEF Sound
<1> QED BY <1>1, LedToScope

\* Unregistering leaves the shape and the parents alone.
LEMMA UnregisterFacts ==
  ASSUME NEW t \in Tree, NEW n, NEW x, x = Unregister(t, n) \/ x = Register(t, n), NEW k \in Node
  PROVE  /\ x \in Tree /\ x.where = t.where /\ x.children = t.children /\ x.parent = t.parent
         /\ SameTree(t, x) /\ Lifted(x, k) = Lifted(t, k)
<1>1. /\ x \in Tree /\ x.where = t.where /\ x.children = t.children /\ x.parent = t.parent
  BY DEF Unregister, Register, Relations, Tree
<1> DEFINE Lift(P) == CHOOSE f : f = [m \in Node |-> IF P[m] \in Unary THEN f[P[m]] ELSE m]
<1>2. Lifted(x, k) = Lift(x.parent)[k] /\ Lifted(t, k) = Lift(t.parent)[k]
  BY DEF Lifted
<1> HIDE DEF Lift
<1> QED BY <1>1, <1>2 DEF SameTree

-----------------------------------------------------------------------------
\* The entries of the log.

\* What an operation of the log says of the trees before and after its edit.
Added(op, t, u) == op.type = "AddNode" /\ t.where = Nil /\ u.where = op.node

\* A restriction added to others: they are wrapped with it.
Wrapped(op, t, u) ==
  /\ op.type = "ReplaceNode"
  /\ \E s, r : Wrap(t, u, s, op.old_node, op.new_node, r)

\* The whole restriction removed.
Emptied(op, t, u) ==
  /\ op.type = "RemoveNode" /\ op.parent = Select /\ op.index = 0
  /\ t.where # Nil /\ op.node = t.where /\ u.where = Nil

\* A part of it removed, with the binary node over it: the recorded node is this
\* binary node, the parent the one that held it.
CutOut(op, t, u) ==
  /\ op.type = "RemoveNode"
  /\ \E m, s : Cut(t, u, op.parent, op.node, m, s) /\ t.parent[m] = op.node
  /\ op.parent \in Scope => op.index = 0
  /\ op.parent \notin Scope => /\ op.index # 0 /\ op.index \in DOMAIN t.children[op.parent]
                               /\ t.children[op.parent][op.index] = op.node

\* op says how the tree t has become u.
Entry(op, t, u) == Added(op, t, u) \/ Wrapped(op, t, u) \/ Emptied(op, t, u) \/ CutOut(op, t, u)

\* The nodes that an edit has taken out.
Gone(t, u) == InTree(t) \ InTree(u)

\* x remembers the nodes that went with op: their children, and their parents but
\* the one of the node of the operation.
Remembers(x, op, t, u) ==
  \A y \in Gone(t, u) :
    /\ x.children[y] = t.children[y]
    /\ op.type = "RemoveNode" /\ y # op.node => x.parent[y] = t.parent[y]

\* It is the shape of the later tree that matters.
LEMMA EntryOfShape ==
  ASSUME NEW op, NEW t \in Tree, IsATree(t), NEW u \in Tree, NEW v \in Tree, SameTree(u, v), Entry(op, t, u)
  PROVE  Entry(op, t, v) /\ InTree(v) = InTree(u)
<1>1. v.where = u.where /\ InTree(v) = InTree(u) /\ \A n \in InTree(u) : v.children[n] = u.children[n]
  BY SameTreeNodes DEF SameTree
<1>2. ASSUME NEW s, NEW r, Wrap(t, u, s, op.old_node, op.new_node, r)
      PROVE  Wrap(t, v, s, op.old_node, op.new_node, r)
  <2>1. InTree(u) = InTree(t) \cup {op.new_node, r}
    BY <1>2, WrapFacts
  <2> QED BY <1>1, <1>2, <2>1 DEF Wrap
<1>3. ASSUME NEW m, NEW s, Cut(t, u, op.parent, op.node, m, s)
      PROVE  Cut(t, v, op.parent, op.node, m, s)
  <2>1. InTree(u) = InTree(t) \ ({op.node} \cup Subtree(t, m))
    BY <1>3, CutFacts
  <2> QED BY <1>1, <1>3, <2>1 DEF Cut
<1>4. Wrapped(op, t, u) => Wrapped(op, t, v)
  BY <1>2 DEF Wrapped
<1>5. CutOut(op, t, u) => CutOut(op, t, v)
  BY <1>3 DEF CutOut
<1> QED BY <1>1, <1>4, <1>5 DEF Entry, Added, Emptied

\* What an edit takes out was under the node of its operation, and is in any tree
\* that remembers it.
LEMMA GoneIsUnder ==
  ASSUME NEW op, NEW t \in Tree, IsATree(t), NEW u \in Tree, Entry(op, t, u),
         NEW x \in Tree, \A y \in Gone(t, u) : x.children[y] = t.children[y]
  PROVE  /\ Gone(t, u) # {} => op.type = "RemoveNode"
         /\ Gone(t, u) # {} => op.node \in Gone(t, u)
         /\ Gone(t, u) \subseteq Subtree(x, op.node)
<1>0. \A y \in Gone(t, u) : ChildSet(x, y) = ChildSet(t, y) /\ y \in Node
  BY InTreeIsClosed DEF ChildSet, Gone
<1>1. CASE Added(op, t, u)
  BY <1>1, InTreeIsClosed DEF Added, Gone
<1>2. CASE Wrapped(op, t, u)
  <2>1. PICK s, r : Wrap(t, u, s, op.old_node, op.new_node, r)
    BY <1>2 DEF Wrapped
  <2>2. InTree(u) = InTree(t) \cup {op.new_node, r}
    BY <2>1, WrapFacts
  <2> QED BY <2>2 DEF Gone
<1>3. CASE Emptied(op, t, u)
  <2>1. /\ InTree(u) = {} /\ InTree(t) = Subtree(t, op.node) /\ op.node \in InTree(t) /\ op.node \in Node
        /\ Gone(t, u) = InTree(t)
    BY <1>3, InTreeIsClosed DEF Emptied, Gone
  <2> DEFINE S == InTree(t) \cap Subtree(x, op.node)
  <2>2. op.node \in S /\ \A k \in S : ChildSet(t, k) \subseteq S
    BY <1>0, <2>1, SubtreeIsClosed, InTreeIsClosed
  <2> HIDE DEF S
  <2>3. Subtree(t, op.node) \subseteq S
    BY <2>2, SubtreeIsLeast
  <2> QED BY <1>3, <2>1, <2>3 DEF S, Emptied
<1>4. CASE CutOut(op, t, u)
  <2>1. PICK m, s : Cut(t, u, op.parent, op.node, m, s)
    BY <1>4 DEF CutOut
  <2>2. /\ InTree(u) = InTree(t) \ ({op.node} \cup Subtree(t, m))
        /\ op.node \in InTree(t) /\ op.node \in Node /\ m \in InTree(t) /\ m \in Node
    BY <2>1, CutFacts
  <2>3. m \in ChildSet(t, op.node)
    BY <2>1 DEF Cut
  <2>4. Subtree(t, m) \subseteq InTree(t)
    BY <2>2, InTreeIsClosed
  <2>5. Gone(t, u) = {op.node} \cup Subtree(t, m)
    BY <2>2, <2>4 DEF Gone
  <2> DEFINE S == Subtree(t, m) \cap Subtree(x, op.node)
  <2>6. m \in S /\ \A k \in S : ChildSet(t, k) \subseteq S
    BY <1>0, <2>2, <2>3, <2>5, SubtreeIsClosed
  <2> HIDE DEF S
  <2>7. Subtree(t, m) \subseteq S
    BY <2>6, SubtreeIsLeast
  <2> QED BY <1>4, <2>2, <2>5, <2>7, SubtreeIsClosed DEF S, CutOut
<1> QED BY <1>1, <1>2, <1>3, <1>4 DEF Entry

-----------------------------------------------------------------------------
\* What an edit that turns t into u, and has op to record, must do for the log.

\* A node outside of the tree stays out, and as it is.
Keeps(t, u, y) == y \notin InTree(u) /\ u.children[y] = t.children[y] /\ u.parent[y] = t.parent[y]

\* u is sound, op says how t has become u and can still give back what is gone, and
\* the nodes that other operations refer to are left alone.
EditsWell(t, ops, u, op) ==
  /\ Sound(u) /\ op \in Op /\ Entry(op, t, u)
  /\ Remembers(u, op, t, u)
  /\ \A y \in (Live(t, ops) \cap Node) \ InTree(t) : Keeps(t, u, y)

\* The index that is recorded is the one of the node.
LEMMA IndexFacts ==
  ASSUME NEW t \in Tree, IsATree(t), NEW q, NEW p, Holds(t, q, p), q = Select \/ q \in InTree(t)
  PROVE  /\ IndexIn(t, q, p) \in 0 .. 2
         /\ q \in Scope => IndexIn(t, q, p) = 0
         /\ q \notin Scope => /\ IndexIn(t, q, p) # 0 /\ IndexIn(t, q, p) \in DOMAIN t.children[q]
                              /\ t.children[q][IndexIn(t, q, p)] = p
<1>1. CASE q \in Scope
  BY <1>1 DEF IndexIn
<1>2. CASE q \notin Scope
  <2>1. q # Select /\ q \in InTree(t) /\ p \in ChildSet(t, q) /\ q \in Node
    BY <1>2, InTreeIsClosed DEF Scope, Holds
  <2>2. \E i \in DOMAIN t.children[q] : t.children[q][i] = p
    BY <2>1 DEF ChildSet, Range
  <2>3. IndexIn(t, q, p) \in DOMAIN t.children[q] /\ t.children[q][IndexIn(t, q, p)] = p
    BY <1>2, <2>2 DEF IndexIn
  <2>4. DOMAIN t.children[q] \subseteq 1 .. 2
    <3>1. Len(t.children[q]) = Arity(q) /\ t.children[q] \in Seq(Node)
      BY <2>1, ChildrenAreNodes DEF IsATree
    <3>2. Arity(q) \in 0 .. 2
      BY DEF Arity
    <3> QED BY <3>1, <3>2, LenProperties
  <2> QED BY <1>2, <2>3, <2>4
<1> QED BY <1>1, <1>2

-----------------------------------------------------------------------------
\* remove_node.

\* What takes the place of a binary node.
LEMMA SiblingIs ==
  ASSUME NEW t \in Tree, IsATree(t), NEW p \in InTree(t) \cap Binary, NEW m \in ChildSet(t, p)
  PROVE  Sibling(t, p, m) # m /\ ChildSet(t, p) = {m, Sibling(t, p, m)}
<1>1. ChildSet(t, p) = {t.children[p][1], t.children[p][2]} /\ t.children[p][1] # t.children[p][2]
  BY TreeFacts
<1>2. \E c \in ChildSet(t, p) : c # m
  BY <1>1
<1>3. Sibling(t, p, m) \in ChildSet(t, p) /\ Sibling(t, p, m) # m
  BY <1>2 DEF Sibling
<1> QED BY <1>1, <1>3

\* remove_node finds the node that leaves and, when its parent is a binary node, the
\* one that holds this parent.
LEMMA RemovableFacts ==
  ASSUME NEW t, Sound(t), NEW n \in InTree(t), CanRemove(t, n), NEW m, m = Lifted(t, n),
         NEW p, p = t.parent[m]
  PROVE  /\ m \in InTree(t) /\ m \in Node /\ n \in Subtree(t, m)
         /\ p \in Binary => /\ p \in InTree(t) /\ p \in Node /\ m \in ChildSet(t, p) /\ Holds(t, t.parent[p], p)
                            /\ t.parent[p] = Select \/ t.parent[p] \in InTree(t)
         /\ p \notin Binary => p = Select /\ m = t.where
<1>1. m \in InTree(t) /\ m \in Node /\ n \in Subtree(t, m) /\ t \in Tree /\ IsATree(t) /\ t.where # Nil
  BY LiftedIsAbove, InTreeIsClosed DEF Sound
<1>2. ASSUME p \in Binary
      PROVE  /\ p \in InTree(t) /\ p \in Node /\ m \in ChildSet(t, p) /\ Holds(t, t.parent[p], p)
             /\ t.parent[p] = Select \/ t.parent[p] \in InTree(t)
  <2>1. p \in Node /\ p \notin ScopesOf(t) /\ p # Select
    BY <1>2, KindsAssumption DEF Node, ScopesOf, Unary
  <2>2. Holds(t, p, m)
    BY <1>1, <2>1 DEF Sound, Led
  <2>3. p \in InTree(t) /\ m \in ChildSet(t, p)
    BY <2>1, <2>2 DEF Holds
  <2>4. CanReplace(t, t.parent[p], p)
    BY <1>2 DEF CanRemove
  <2>5. \/ Holds(t, t.parent[p], p)
        \/ t.parent[p] \in ScopesOf(t)
    BY <2>3 DEF Sound, Led
  <2>6. t.parent[p] = Select \/ t.parent[p] \in InTree(t)
    BY <2>5 DEF Holds, ScopesOf
  <2>7. Holds(t, t.parent[p], p)
    <3>1. CASE t.parent[p] = Select
      BY <3>1, <2>1, <2>4, KindsAssumption DEF CanReplace, Holds
    <3>2. CASE t.parent[p] # Select
      <4>1. t.parent[p] \in InTree(t) /\ t.parent[p] \in Node
        BY <1>1, <2>6, <3>2, InTreeIsClosed
      <4> QED BY <2>4, <3>2, <4>1 DEF CanReplace, Holds
    <3> QED BY <3>1, <3>2
  <2> QED BY <2>1, <2>3, <2>6, <2>7
<1>3. p \notin Binary => p = Select /\ m = t.where
  BY DEF CanRemove
<1> QED BY <1>1, <1>2, <1>3

\* A node with other children, and one with another parent.
LEMMA SetChildren ==
  ASSUME NEW x \in Tree, NEW q \in Node, NEW s \in Node, NEW d \in Seq(Node), NEW u,
         u = [where |-> x.where, children |-> [x.children EXCEPT ![q] = d],
              parent |-> [x.parent EXCEPT ![s] = q], references |-> x.references]
  PROVE  /\ u.children = [x.children EXCEPT ![q] = d] /\ u.references = x.references /\ u.where = x.where
         /\ u.parent = [x.parent EXCEPT ![s] = q] /\ u \in Tree
<1>1. u \in Tree
  BY DEF Tree
<1> QED BY <1>1 DEF Tree

\* A binary node that goes with its child.
IsReplaced(x, u, q, p, s) ==
  /\ u \in Tree /\ u.references = x.references /\ u.parent[s] = q
  /\ u.where = IF q = Select THEN s ELSE x.where
  /\ \A n \in Node : u.children[n] = IF n = q
                                     THEN [i \in DOMAIN x.children[n] |->
                                             IF x.children[n][i] = p THEN s ELSE x.children[n][i]]
                                     ELSE x.children[n]
  /\ \A n \in Node \ {p, s} : u.parent[n] = x.parent[n]

\* What Replaced gives, as Select, Exists and Node define replace().
LEMMA ReplacedFacts ==
  ASSUME NEW x \in Tree, NEW q, NEW p \in Node, NEW s \in Node, p # s,
         q = Select \/ q \in Node, NEW u, u = Replaced(x, q, p, s)
  PROVE  IsReplaced(x, u, q, p, s)
<1>0. x \in Tree /\ p \in Node /\ s \in Node /\ p # s /\ u = Replaced(x, q, p, s)
  OBVIOUS
<1>1. CASE q = Select
  <2>1. q \notin Node /\ {Select, Nil} \cap Node = {}
    BY <1>1, KindsAssumption
  <2>2. u = [x EXCEPT !.where = s, !.parent = [@ EXCEPT ![p] = Nil, ![s] = Select]]
    BY ONLY <1>0, <1>1, <2>1 DEF Replaced
  <2>3. /\ u.children = x.children /\ u.references = x.references /\ u.where = s
        /\ u.parent = [x.parent EXCEPT ![p] = Nil, ![s] = Select] /\ u \in Tree
    BY ONLY <1>0, <2>2 DEF Tree
  <2>4. u.parent[s] = Select /\ \A n \in Node \ {p, s} : u.parent[n] = x.parent[n]
    BY ONLY <1>0, <2>3 DEF Tree
  <2>5. \A n \in Node : n # q
    BY <2>1
  <2> QED BY <1>1, <2>3, <2>4, <2>5 DEF IsReplaced
<1>2. CASE q \in Node
  <2>1. q # Select
    BY <1>2, KindsAssumption
  <2> DEFINE c == x.children[q]
             d == [i \in DOMAIN c |-> IF c[i] = p THEN s ELSE c[i]]
  <2>2. u = [x EXCEPT !.children[q] = [i \in DOMAIN @ |-> IF @[i] = p THEN s ELSE @[i]], !.parent[s] = q]
    BY ONLY <1>0, <1>2, <2>1 DEF Replaced
  <2>3. u = [where |-> x.where, children |-> [x.children EXCEPT ![q] = d],
             parent |-> [x.parent EXCEPT ![s] = q], references |-> x.references]
    <3>1. x = [where |-> x.where, children |-> x.children, parent |-> x.parent, references |-> x.references]
      BY ONLY <1>0 DEF Tree
    <3> QED BY ONLY <2>2, <3>1
  <2>4. d \in Seq(Node)
    <3>1. c \in Seq(Node)
      BY <1>2 DEF Tree
    <3> HIDE DEF c
    <3>2. DOMAIN c = 1 .. Len(c) /\ Len(c) \in Nat /\ \A i \in 1 .. Len(c) : c[i] \in Node
      BY <3>1, LenProperties, ElementOfSeq
    <3>3. d \in [1 .. Len(c) -> Node]
      BY <3>2
    <3> QED BY <3>2, <3>3
  <2> HIDE DEF d
  <2>5. /\ u.children = [x.children EXCEPT ![q] = d] /\ u.references = x.references /\ u.where = x.where
        /\ u.parent = [x.parent EXCEPT ![s] = q] /\ u \in Tree
    <3>1. x \in Tree /\ q \in Node /\ s \in Node
      BY <1>2
    <3> QED BY ONLY <3>1, <2>3, <2>4, SetChildren
  <2>6. /\ u.parent[s] = q /\ \A n \in Node \ {p, s} : u.parent[n] = x.parent[n]
        /\ \A n \in Node : u.children[n] = IF n = q THEN d ELSE x.children[n]
    BY ONLY <1>0, <1>2, <2>5 DEF Tree
  <2> QED BY <2>1, <2>5, <2>6 DEF d, IsReplaced
<1> QED BY <1>1, <1>2

\* remove_node records an operation that says what it did, unregisters what it was
\* given, and takes out the node that leaves in its stead.
LEMMA RemoveEdits ==
  ASSUME NEW t, Sound(t), NEW n \in InTree(t), CanRemove(t, n),
         NEW u, u = Removed(Unregister(t, n), n), NEW op, op = RemoveOp(t, n), NEW ops
  PROVE  /\ EditsWell(t, ops, u, op)
         /\ u.references = t.references \ Relations(t, n)
         /\ InTree(u) \cap Relation = (InTree(t) \cap Relation) \ Relations(t, Lifted(t, n))
<1> DEFINE x == Unregister(t, n)
           m == Lifted(t, n)
           p == t.parent[m]
           q == t.parent[p]
           s == Sibling(t, p, m)
<1>1. /\ t \in Tree /\ IsATree(t) /\ Led(t) /\ Leaves(t) /\ t.where # Nil /\ n \in Node
      /\ InTree(t) \subseteq Node /\ InTree(t) = Subtree(t, t.where) /\ Select \notin InTree(t)
  BY InTreeIsClosed, KindsAssumption DEF Sound, Leaves
<1>2. /\ x \in Tree /\ x.where = t.where /\ x.children = t.children /\ x.parent = t.parent
      /\ Lifted(x, n) = m /\ x.references = t.references \ Relations(t, n)
  <2>1. x.references = t.references \ Relations(t, n)
    BY <1>1 DEF Unregister, Tree
  <2> QED BY <1>1, <2>1, UnregisterFacts
<1>3. /\ m \in InTree(t) /\ m \in Node
      /\ p \in Binary => /\ p \in InTree(t) /\ p \in Node /\ m \in ChildSet(t, p) /\ Holds(t, q, p)
                         /\ q = Select \/ q \in InTree(t)
      /\ p \notin Binary => p = Select /\ m = t.where
  BY RemovableFacts
<1>4. u = IF p \in Binary THEN Replaced(x, q, p, Sibling(x, p, m)) ELSE [x EXCEPT !.where = Nil, !.parent[m] = Nil]
  <2>1. u = Removed(x, n)
    OBVIOUS
  <2> HIDE DEF x, m
  <2> QED BY <2>1, <1>2 DEF Removed
<1>5. op = IF p \in Binary
           THEN [type |-> "RemoveNode", node |-> p, parent |-> q, index |-> IndexIn(t, q, p)]
           ELSE [type |-> "RemoveNode", node |-> m, parent |-> p, index |-> 0]
  BY DEF RemoveOp
<1>6. s = Sibling(x, p, m)
  BY <1>2 DEF Sibling, ChildSet
<1> HIDE DEF x, m, s
<1>7. CASE p \in Binary
  <2>1. u = Replaced(x, q, p, s)
    BY <1>4, <1>6, <1>7
  <2>2. m # s /\ ChildSet(t, p) = {m, s}
    <3>1. p \in InTree(t) \cap Binary /\ m \in ChildSet(t, p)
      BY <1>3, <1>7
    <3> QED BY <1>1, <3>1, SiblingIs DEF s
  <2>3. s \in InTree(t) /\ s \in Node /\ p # s /\ p # m
    BY <1>1, <1>3, <1>7, <2>2, TreeFacts
  <2> DEFINE qq == q
             pp == p
  <2>4. /\ x \in Tree
        /\ qq = Select \/ qq \in Node
        /\ pp \in Node /\ s \in Node /\ pp # s /\ u = Replaced(x, qq, pp, s)
    BY <1>1, <1>2, <1>3, <1>7, <2>1, <2>3
  <2>5. qq = Select => pp = t.where
    BY <1>3, <1>7 DEF Holds
  <2>6. pp \in InTree(t) \cap Binary /\ Holds(t, qq, pp)
        /\ ChildSet(t, pp) = {m, s} /\ t.parent[m] = pp
    BY <1>3, <1>7, <2>2
  <2>7. qq = Select \/ qq \in InTree(t)
    BY <1>3, <1>7
  <2>8. op = [type |-> "RemoveNode", node |-> pp, parent |-> qq, index |-> IndexIn(t, qq, pp)]
    BY <1>5, <1>7
  <2> HIDE DEF pp, qq
  <2>9. /\ u \in Tree /\ u.references = x.references /\ u.parent[s] = qq
        /\ u.where = IF qq = Select THEN s ELSE x.where
        /\ \A k \in Node : u.children[k] = IF k = qq
                                           THEN [i \in DOMAIN x.children[k] |->
                                                   IF x.children[k][i] = pp THEN s ELSE x.children[k][i]]
                                           ELSE x.children[k]
        /\ \A k \in Node \ {pp, s} : u.parent[k] = x.parent[k]
    <3>1. IsReplaced(x, u, qq, pp, s)
      BY ONLY <2>4, ReplacedFacts
    <3> QED BY <3>1 DEF IsReplaced
  <2>10. Cut(t, u, qq, pp, m, s)
    BY <1>1, <1>2, <2>2, <2>6, <2>9 DEF Cut
  <2>11. /\ InTree(u) = InTree(t) \ ({pp} \cup Subtree(t, m))
         /\ qq # Select => qq \in InTree(u) /\ pp \in ChildSet(t, qq)
         /\ s \in InTree(u) /\ Subtree(t, m) \subseteq InTree(t)
    BY <1>1, <1>3, <2>9, <2>10, CutFacts, InTreeIsClosed
  <2>12. Led(u)
    <3>1. \A k \in InTree(u) \ {s} : u.parent[k] = t.parent[k]
      BY <1>1, <1>2, <2>9, <2>11
    <3> QED BY <1>1, <2>9, <2>10, <3>1, CutLeads
  <2>13. Leaves(u)
    <3> SUFFICES ASSUME NEW r \in Relation PROVE u.children[r] = <<>>
      BY DEF Leaves
    <3>1. t.children[r] = <<>> /\ r \in Node
      BY <1>1 DEF Leaves, Node
    <3>2. ASSUME r = qq PROVE FALSE
      <4>1. pp \in ChildSet(t, r)
        BY <2>11, <3>1, <3>2, KindsAssumption
      <4> QED BY <4>1, <3>1, SmallRanges DEF ChildSet
    <3> QED BY <1>2, <2>9, <3>1, <3>2
  <2>14. Sound(u)
    BY <1>1, <2>9, <2>10, <2>12, <2>13, CutIsATree DEF Sound, Leaves
  <2>15. IndexIn(t, qq, pp) \in 0 .. 2
         /\ (qq \in Scope => IndexIn(t, qq, pp) = 0)
         /\ (qq \notin Scope => /\ IndexIn(t, qq, pp) # 0 /\ IndexIn(t, qq, pp) \in DOMAIN t.children[qq]
                                /\ t.children[qq][IndexIn(t, qq, pp)] = pp)
    BY <1>1, <2>6, <2>7, IndexFacts
  <2>16. op \in Op
    <3>1. qq \in Node \cup {Select} /\ pp \in Node
      BY <1>1, <2>4, <2>7
    <3> QED BY <2>8, <2>15, <3>1 DEF Op
  <2>17. CutOut(op, t, u)
    BY <2>6, <2>8, <2>10, <2>15 DEF CutOut
  <2>18. Remembers(u, op, t, u)
    <3> SUFFICES ASSUME NEW y \in InTree(t), y \notin InTree(u)
                 PROVE  u.children[y] = t.children[y] /\ (y # op.node => u.parent[y] = t.parent[y])
      BY DEF Remembers, Gone
    <3>1. y \in Node /\ y # qq /\ y # s
      BY <1>1, <2>11
    <3>2. op.node = pp
      BY <2>8
    <3> QED BY <1>2, <2>9, <3>1, <3>2
  <2>19. ASSUME NEW y \in (Live(t, ops) \cap Node) \ InTree(t)
         PROVE  Keeps(t, u, y)
    <3>1. y \in Node /\ y # pp /\ y # qq /\ y # s /\ y \notin InTree(u)
      BY <1>1, <2>3, <2>6, <2>7, <2>11, KindsAssumption
    <3> QED BY <1>2, <2>9, <3>1 DEF Keeps
  <2>20. InTree(u) \cap Relation = (InTree(t) \cap Relation) \ Relations(t, m)
    <3>1. pp \notin Relation
      BY <2>6, KindsAssumption
    <3> QED BY <2>11, <3>1 DEF Relations
  <2> QED BY <1>2, <2>9, <2>14, <2>16, <2>17, <2>18, <2>19, <2>20 DEF EditsWell, Entry, m
<1>8. CASE p \notin Binary
  <2>1. p = Select /\ m = t.where /\ u = [x EXCEPT !.where = Nil, !.parent[m] = Nil]
        /\ op = [type |-> "RemoveNode", node |-> m, parent |-> Select, index |-> 0]
    BY <1>3, <1>4, <1>5, <1>8
  <2>2. /\ u \in Tree /\ u.references = x.references /\ u.where = Nil /\ u.children = x.children
        /\ \A k \in Node \ {m} : u.parent[k] = x.parent[k]
    <3>1. x = [where |-> x.where, children |-> x.children, parent |-> x.parent, references |-> x.references]
      BY <1>2 DEF Tree
    <3>2. u = [where |-> Nil, children |-> x.children, parent |-> [x.parent EXCEPT ![m] = Nil],
               references |-> x.references]
      BY ONLY <2>1, <3>1
    <3> QED BY <1>2, <1>3, <3>2 DEF Tree
  <2>3. InTree(u) = {}
    BY <2>2 DEF InTree
  <2>4. Sound(u)
    BY <1>1, <1>2, <2>2, <2>3 DEF Sound, IsATree, Led, Leaves
  <2>5. op \in Op
    BY <1>3, <2>1 DEF Op
  <2>6. Emptied(op, t, u)
    BY <1>1, <2>1, <2>2 DEF Emptied
  <2>7. Remembers(u, op, t, u)
    BY <1>1, <1>2, <2>1, <2>2 DEF Remembers, Gone
  <2>8. ASSUME NEW y \in (Live(t, ops) \cap Node) \ InTree(t)
        PROVE  Keeps(t, u, y)
    BY <1>2, <1>3, <2>2, <2>3 DEF Keeps
  <2>9. (InTree(t) \cap Relation) \ Relations(t, m) = {}
    BY <1>1, <2>1 DEF Relations
  <2> QED BY <1>2, <2>2, <2>3, <2>4, <2>5, <2>6, <2>7, <2>8, <2>9 DEF EditsWell, Entry, m
<1> QED BY <1>7, <1>8

-----------------------------------------------------------------------------
\* add_restriction.

\* What SetWhere gives.
IsPut(x, v, s, n) ==
  /\ v \in Tree /\ v.references = x.references /\ v.parent[n] = s
  /\ v.where = IF s = Select THEN n ELSE x.where
  /\ \A k \in Node : v.children[k] = IF k = s THEN <<n>> ELSE x.children[k]
  /\ \A k \in Node \ {n} : v.parent[k] = x.parent[k]

\* That is: n at the top of the scope s, with s as its parent.
LEMMA SetWhereFacts ==
  ASSUME NEW x \in Tree, NEW s, s = Select \/ s \in Node, NEW n \in Node, NEW v, v = SetWhere(x, s, n)
  PROVE  IsPut(x, v, s, n)
<1>1. x = [where |-> x.where, children |-> x.children, parent |-> x.parent, references |-> x.references]
  BY DEF Tree
<1>2. CASE s = Select
  <2>1. s \notin Node
    BY <1>2, KindsAssumption
  <2>2. v = [[x EXCEPT !.where = n] EXCEPT !.parent[n] = s]
    BY <1>2 DEF SetWhere
  <2>3. v = [where |-> n, children |-> x.children, parent |-> [x.parent EXCEPT ![n] = s],
             references |-> x.references]
    BY ONLY <1>1, <2>2
  <2>4. /\ v.where = n /\ v.references = x.references
        /\ v.children = x.children /\ v.parent = [x.parent EXCEPT ![n] = s]
    BY ONLY <2>3
  <2>5. v \in Tree
    BY <1>2, <2>3 DEF Tree
  <2>6. v.parent[n] = s /\ \A k \in Node \ {n} : v.parent[k] = x.parent[k]
    BY <2>4 DEF Tree
  <2>7. \A k \in Node : k # s
    BY <2>1
  <2> QED BY <1>2, <2>4, <2>5, <2>6, <2>7 DEF IsPut
<1>3. CASE s # Select
  <2>1. v = [[x EXCEPT !.children[s] = <<n>>] EXCEPT !.parent[n] = s]
    BY <1>3 DEF SetWhere
  <2>2. v = [where |-> x.where, children |-> [x.children EXCEPT ![s] = <<n>>],
             parent |-> [x.parent EXCEPT ![n] = s], references |-> x.references]
    BY ONLY <1>1, <2>1
  <2>3. s \in Node /\ <<n>> \in Seq(Node)
    BY <1>3
  <2>4. s \in Node /\ s # Select
    BY <1>3
  <2>5. /\ v.where = x.where /\ v.references = x.references
        /\ v.children = [x.children EXCEPT ![s] = <<n>>] /\ v.parent = [x.parent EXCEPT ![n] = s]
    BY ONLY <2>2
  <2>6. v \in Tree
    BY <2>2, <2>3, <2>4 DEF Tree
  <2>7. /\ \A k \in Node : v.children[k] = IF k = s THEN <<n>> ELSE x.children[k]
        /\ \A k \in Node \ {n} : v.parent[k] = x.parent[k]
        /\ v.parent[n] = s
    BY <2>4, <2>5 DEF Tree
  <2> QED BY <2>4, <2>5, <2>6, <2>7 DEF IsPut
<1> QED BY <1>2, <1>3

\* The first restriction of a SELECT.
LEMMA FirstEdits ==
  ASSUME NEW t, Sound(t), t.where = Nil, NEW ops, NEW r \in Relation, r \notin Live(t, ops),
         NEW u, u = SetWhere([t EXCEPT !.references = @ \cup {r}], Select, r),
         NEW op, op = [type |-> "AddNode", node |-> r]
  PROVE  /\ EditsWell(t, ops, u, op)
         /\ u.references = t.references \cup {r}
         /\ InTree(u) \cap Relation = (InTree(t) \cap Relation) \cup {r}
<1> DEFINE x == [t EXCEPT !.references = @ \cup {r}]
<1>1. t \in Tree /\ Leaves(t) /\ r \in Node /\ InTree(t) = {} /\ Select \notin Node /\ r # Nil
  BY KindsAssumption DEF Sound, Leaves, Node, InTree
<1>2. x \in Tree /\ x.references = t.references \cup {r} /\ x.children = t.children /\ x.parent = t.parent
  BY <1>1 DEF Tree
<1>3. u = SetWhere(x, Select, r)
  OBVIOUS
<1> HIDE DEF x
<1>4. IsPut(x, u, Select, r)
  BY <1>1, <1>2, <1>3, SetWhereFacts
<1>5. /\ u \in Tree /\ u.references = x.references /\ u.parent[r] = Select /\ u.where = r
      /\ \A k \in Node : u.children[k] = t.children[k]
      /\ \A k \in Node \ {r} : u.parent[k] = t.parent[k]
  BY <1>1, <1>2, <1>4 DEF IsPut
<1>6. u.children[r] = <<>> /\ ChildSet(u, r) = {}
  BY <1>1, <1>5, SmallRanges DEF Leaves, ChildSet
<1>7. InTree(u) = {r}
  <2> DEFINE S == {r}
  <2>1. (u.where # Nil => u.where \in S) /\ \A k \in S : ChildSet(u, k) \subseteq S
    BY <1>5, <1>6
  <2> HIDE DEF S
  <2>2. InTree(u) \subseteq S
    BY <2>1, InTreeIsLeast
  <2>3. r \in InTree(u)
    BY <1>1, <1>5, InTreeIsClosed
  <2> QED BY <2>2, <2>3 DEF S
<1>8. IsATree(u)
  <2>1. Len(u.children[r]) = Arity(r)
    BY <1>6 DEF Arity
  <2>2. IsInjective(u.children[r])
    BY <1>6 DEF IsInjective
  <2> QED BY <1>6, <1>7, <2>1, <2>2 DEF IsATree
<1>9. Led(u)
  BY <1>1, <1>5, <1>7 DEF Led, Holds
<1>10. Leaves(u)
  BY <1>1, <1>5 DEF Leaves, Node
<1>11. Sound(u)
  BY <1>5, <1>8, <1>9, <1>10 DEF Sound, Leaves
<1>12. op \in Op /\ Added(op, t, u)
  BY <1>5 DEF Op, Added
<1>13. Remembers(u, op, t, u)
  BY <1>1 DEF Remembers, Gone
<1>14. ASSUME NEW y \in (Live(t, ops) \cap Node) \ InTree(t)
       PROVE  Keeps(t, u, y)
  BY <1>5, <1>7 DEF Keeps
<1> QED BY <1>1, <1>2, <1>5, <1>7, <1>11, <1>12, <1>13, <1>14 DEF EditsWell, Entry

\* The others: a conjunction with what was there.
WrappedIn(t, s, w, b, r) ==
  LET x == [t EXCEPT !.references = @ \cup {r}]
  IN  SetWhere([x EXCEPT !.children[b] = <<w, r>>, !.parent = [@ EXCEPT ![w] = b, ![r] = b]], s, b)

\* It is an edit that the log can undo.
LEMMA WrapEdits ==
  ASSUME NEW t, Sound(t), NEW s \in ScopesOf(t), t.where # Nil, NEW w, w = WhereOf(t, s),
         NEW ops, NEW r \in Relation, r \notin Live(t, ops), NEW b \in Binary, b \notin Live(t, ops),
         NEW u, u = WrappedIn(t, s, w, b, r),
         NEW op, op = [type |-> "ReplaceNode", old_node |-> w, new_node |-> b]
  PROVE  /\ EditsWell(t, ops, u, op)
         /\ u.references = t.references \cup {r}
         /\ InTree(u) \cap Relation = (InTree(t) \cap Relation) \cup {r}
<1> DEFINE x == [t EXCEPT !.references = @ \cup {r}]
           z == [x EXCEPT !.children[b] = <<w, r>>, !.parent = [@ EXCEPT ![w] = b, ![r] = b]]
<1>1. /\ t \in Tree /\ IsATree(t) /\ Led(t) /\ Leaves(t) /\ InTree(t) \subseteq Node
      /\ r \in Node /\ b \in Node /\ r # b /\ r \notin InTree(t) /\ b \notin InTree(t)
      /\ Select \notin Node /\ b \notin Relation
  BY KindsAssumption, InTreeIsClosed DEF Sound, Leaves, Node, Live
<1>2. w \in InTree(t) /\ w \in Node /\ w # r /\ w # b
  BY <1>1, SpineIsClosed
<1>3. s = Select \/ s \in InTree(t)
  BY DEF ScopesOf
<1>4. x = [where |-> t.where, children |-> t.children, parent |-> t.parent,
           references |-> t.references \cup {r}]
  <2>1. t = [where |-> t.where, children |-> t.children, parent |-> t.parent, references |-> t.references]
    BY ONLY <1>1 DEF Tree
  <2> QED BY ONLY <2>1
<1> HIDE DEF x
<1>5. z = [where |-> t.where, children |-> [t.children EXCEPT ![b] = <<w, r>>],
           parent |-> [t.parent EXCEPT ![w] = b, ![r] = b], references |-> t.references \cup {r}]
  <2>1. z = [x EXCEPT !.children[b] = <<w, r>>, !.parent = [@ EXCEPT ![w] = b, ![r] = b]]
    BY DEF z
  <2> HIDE DEF z
  <2> QED BY ONLY <1>4, <2>1
<1>6. u = SetWhere(z, s, b)
  BY DEF WrappedIn, x, z
<1> HIDE DEF z
<1>7. <<w, r>> \in Seq(Node)
  BY <1>1, <1>2
<1>8. z \in Tree
  BY <1>1, <1>2, <1>5, <1>7 DEF Tree
<1>9. /\ z.where = t.where /\ z.references = t.references \cup {r} /\ z.parent[w] = b /\ z.parent[r] = b
      /\ \A k \in Node \ {w, r} : z.parent[k] = t.parent[k]
      /\ \A k \in Node : z.children[k] = IF k = b THEN <<w, r>> ELSE t.children[k]
  BY <1>1, <1>2, <1>5 DEF Tree
<1>10. IsPut(z, u, s, b)
  <2>1. s = Select \/ s \in Node
    BY <1>1, <1>3
  <2> QED BY <1>1, <1>6, <1>8, <2>1, SetWhereFacts
<1>11. /\ u \in Tree /\ u.references = t.references \cup {r} /\ u.parent[b] = s
       /\ u.parent[w] = b /\ u.parent[r] = b
       /\ u.where = IF s = Select THEN b ELSE t.where
       /\ \A k \in Node \ {w, r, b} : u.parent[k] = t.parent[k]
       /\ \A k \in Node : u.children[k] = IF k = s THEN <<b>> ELSE IF k = b THEN <<w, r>> ELSE t.children[k]
  BY <1>1, <1>2, <1>9, <1>10 DEF IsPut
<1>12. b # s /\ r # s /\ s \notin Relation
  <2>1. s = Select \/ s \in Exists
    BY DEF ScopesOf
  <2>2. Exists \cap (Relation \cup Binary) = {} /\ Select \notin Relation \cup Binary
    BY KindsAssumption DEF Node, Unary
  <2> QED BY <1>1, <2>1, <2>2
<1>13. Wrap(t, u, s, w, b, r)
  BY <1>1, <1>11, <1>12 DEF Wrap, Leaves
<1>14. InTree(u) = InTree(t) \cup {b, r}
  BY <1>1, <1>11, <1>13, WrapFacts
<1>15. Led(u)
  <2>1. \A n \in InTree(t) \ {w} : u.parent[n] = t.parent[n]
    BY <1>1, <1>11
  <2>2. Sound(t) /\ t \in Tree /\ IsATree(t) /\ Led(t) /\ u \in Tree /\ u.parent[b] = s /\ u.parent[w] = b /\ u.parent[r] = b
    BY <1>1, <1>11
  <2> QED BY ONLY <1>13, <2>1, <2>2, WrapLeads
<1>16. Leaves(u)
  BY <1>1, <1>11, <1>12 DEF Leaves, Node
<1>17. Sound(u)
  BY <1>1, <1>11, <1>13, <1>15, <1>16, WrapIsATree DEF Sound, Leaves
<1>18. op \in Op
  BY <1>2 DEF Op
<1>19. Wrapped(op, t, u)
  BY <1>13 DEF Wrapped
<1>20. Remembers(u, op, t, u)
  BY <1>14 DEF Remembers, Gone
<1>21. ASSUME NEW y \in (Live(t, ops) \cap Node) \ InTree(t)
       PROVE  Keeps(t, u, y)
  <2>1. y # r /\ y # b /\ y # w /\ y # s
    BY <1>1, <1>2, <1>3
  <2> QED BY <1>11, <1>14, <2>1 DEF Keeps
<1> QED BY <1>1, <1>11, <1>14, <1>17, <1>18, <1>19, <1>20, <1>21 DEF EditsWell, Entry

-----------------------------------------------------------------------------
\* The undo() of the operations.

\* What the undo() of op gives, when it is called on x: the shape of t, another sound
\* tree with the references of its relations, and nothing new about the other nodes.
UndoesWell(op, t, x, y) ==
  /\ ~Raises(op, x) /\ y = Undone(op, x)
  /\ Sound(y) /\ SameTree(t, y)
  /\ x.references = InTree(x) \cap Relation => y.references = InTree(t) \cap Relation
  /\ \A z \in Node \ (InTree(t) \cup InTree(x)) :
       y.children[z] = x.children[z] /\ y.parent[z] = x.parent[z]

\* The undo of a first restriction leaves the tree empty again.
LEMMA AddNodeIsUndone ==
  ASSUME NEW t, Sound(t), NEW x, Sound(x), NEW op \in Op, Added(op, t, x)
  PROVE  UndoesWell(op, t, x, Undone(op, x))
<1> DEFINE n == op.node
           v == Unregister(x, n)
           y == Undone(op, x)
<1>1. op.type = "AddNode" /\ n \in Relation /\ n \in Node /\ t.where = Nil /\ x.where = n
  BY DEF Added, Op, Node
<1>2. /\ t \in Tree /\ x \in Tree /\ IsATree(x) /\ Leaves(x) /\ InTree(t) = {} /\ n # Nil
      /\ n \in InTree(x) /\ InTree(x) = Subtree(x, n)
  BY <1>1, KindsAssumption, InTreeIsClosed DEF Sound, Leaves, InTree
<1>3. x.parent[n] = Select
  <2>1. Holds(x, Select, n) /\ Select \notin Binary
    BY <1>1, <1>2, KindsAssumption DEF Holds, Node
  <2> QED BY <1>2, <2>1, HolderIsParent
<1>4. Select \notin Unary /\ Select \notin Binary
  BY KindsAssumption DEF Node
<1>5. Lifted(x, n) = n
  BY <1>1, <1>2, <1>3, <1>4, LiftedIs
<1>6. CanRemove(x, n)
  BY <1>1, <1>3, <1>4, <1>5 DEF CanRemove
<1>7. v \in Tree /\ v.where = x.where /\ v.children = x.children /\ v.parent = x.parent /\ Lifted(v, n) = n
  BY <1>1, <1>2, <1>5, UnregisterFacts
<1>8. v.references = x.references \ Relations(x, n)
  BY <1>2 DEF Unregister, Tree
<1>9. y = Removed(v, n)
  BY <1>1, <1>6 DEF Undone, UndoAddNode
<1> HIDE DEF v
<1>10. y = [v EXCEPT !.where = Nil, !.parent[n] = Nil]
  BY <1>3, <1>4, <1>7, <1>9 DEF Removed
<1>11. v = [where |-> v.where, children |-> v.children, parent |-> v.parent, references |-> v.references]
  BY <1>7 DEF Tree
<1> HIDE DEF y, n
<1>12. y = [where |-> Nil, children |-> v.children, parent |-> [v.parent EXCEPT ![n] = Nil],
            references |-> v.references]
  BY ONLY <1>10, <1>11
<1>13. y \in Tree
  BY <1>1, <1>7, <1>12 DEF Tree
<1>14. /\ y.where = Nil /\ y.children = x.children /\ y.references = x.references \ Relations(x, n)
       /\ \A z \in Node \ {n} : y.parent[z] = x.parent[z]
  BY <1>1, <1>7, <1>8, <1>12 DEF Tree
<1>15. InTree(y) = {}
  BY <1>14 DEF InTree
<1>16. Sound(y) /\ SameTree(t, y)
  BY <1>1, <1>2, <1>13, <1>14, <1>15 DEF Sound, IsATree, Led, Leaves, SameTree
<1>17. x.references = InTree(x) \cap Relation => y.references = InTree(t) \cap Relation
  BY <1>2, <1>14 DEF Relations
<1>18. ~Raises(op, x)
  BY <1>1, <1>6 DEF Raises, n
<1> QED BY <1>2, <1>14, <1>16, <1>17, <1>18 DEF UndoesWell, y

\* The undo of a wrap puts the former restriction back at the top of its scope.
LEMMA ReplaceNodeIsUndone ==
  ASSUME NEW t, Sound(t), NEW x, Sound(x), NEW op \in Op, Wrapped(op, t, x)
  PROVE  UndoesWell(op, t, x, Undone(op, x))
<1> DEFINE b == op.new_node
           w == op.old_node
           a == Unregister(x, b)
           v == Register(a, w)
           y == Undone(op, x)
<1>1. PICK s, r : Wrap(t, x, s, w, b, r)
  BY DEF Wrapped
<1>2. op.type = "ReplaceNode"
  BY DEF Wrapped
<1>3. /\ t \in Tree /\ x \in Tree /\ IsATree(t) /\ IsATree(x) /\ Led(x) /\ Leaves(x)
  BY DEF Sound, Leaves
<1> HIDE DEF w, b
<1>4. /\ b \in Node /\ r \in Node /\ b # r /\ b # Select
      /\ w \in InTree(t) /\ w \in Node /\ w # b /\ w # r /\ Holds(t, s, w)
      /\ s # Select => s \in InTree(t) /\ s \in Exists /\ s # b
      /\ ChildSet(x, b) = {w, r}
      /\ InTree(x) = InTree(t) \cup {b, r} /\ Holds(x, s, b)
  BY <1>1, <1>3, WrapFacts, WrapHolders
<1>5. /\ b \in Binary /\ b \notin InTree(t) /\ r \in Relation /\ r \notin InTree(t)
      /\ s \in ScopesOf(t) /\ w = WhereOf(t, s) /\ t.where # Nil
      /\ x.where = IF s = Select THEN b ELSE t.where
      /\ \A k \in InTree(t) : x.children[k] = IF k = s THEN <<b>> ELSE t.children[k]
  BY <1>1 DEF Wrap
<1>6. x.parent[b] = s /\ s \notin Binary
  <2>1. s \notin Binary
    BY <1>4, KindsAssumption DEF Node, Unary
  <2> QED BY <1>3, <1>4, <2>1, HolderIsParent
<1>7. s = Select \/ s \in Node
  BY <1>3, <1>4, InTreeIsClosed
<1>8. CanReplace(x, s, b)
  <2>1. CASE s = Select
    <3>1. x.where = b /\ s \notin Node
      BY <2>1, <1>5, KindsAssumption
    <3> QED BY ONLY <2>1, <3>1 DEF CanReplace
  <2>2. CASE s # Select
    <3>1. s \in Node /\ b \in ChildSet(x, s)
      BY <2>2, <1>4, <1>7 DEF Holds
    <3> QED BY ONLY <2>2, <3>1 DEF CanReplace
  <2> QED BY <2>1, <2>2
<1>9. /\ a \in Tree /\ a.where = x.where /\ a.children = x.children /\ a.parent = x.parent /\ SameTree(x, a)
  BY <1>3, <1>4, UnregisterFacts
<1>10. a.references = x.references \ Relations(x, b)
  BY <1>3 DEF Unregister, Tree
<1> HIDE DEF a
<1>11. v \in Tree /\ v.where = x.where /\ v.children = x.children /\ v.parent = x.parent
  BY <1>9, <1>4, UnregisterFacts
<1>12. v.references = a.references \cup Relations(a, w)
  BY <1>9 DEF Register, Tree
<1>13. Relations(a, w) = Relations(x, w)
  BY <1>3, <1>4, <1>9, SameTreeNodes DEF Relations
<1>14. y = Replaced(v, s, b, w)
  BY <1>2, <1>6, <1>8 DEF Undone, UndoReplaceNode, a, b, w
<1> HIDE DEF v, y
<1>15. IsReplaced(v, y, s, b, w)
  BY <1>4, <1>7, <1>11, <1>14, ReplacedFacts
<1>16. /\ y \in Tree /\ y.references = v.references /\ y.parent[w] = s
       /\ y.where = IF s = Select THEN w ELSE x.where
       /\ \A k \in Node : y.children[k] = IF k = s
                                          THEN [i \in DOMAIN x.children[k] |->
                                                  IF x.children[k][i] = b THEN w ELSE x.children[k][i]]
                                          ELSE x.children[k]
       /\ \A k \in Node \ {b, w} : y.parent[k] = x.parent[k]
  BY <1>11, <1>15 DEF IsReplaced
<1>17. SameTree(t, y)
  <2>1. y.where = t.where
    <3>1. s = Select => w = t.where
      BY <1>5 DEF WhereOf
    <3> QED BY <3>1, <1>5, <1>16
  <2>2. ASSUME NEW k \in InTree(t)
        PROVE  y.children[k] = t.children[k]
    <3>1. k \in Node
      BY <1>3, InTreeIsClosed
    <3>2. CASE k = s
      <4>1. s \in InTree(t) \cap Unary /\ s # Select
        BY <3>1, <3>2, <1>4, KindsAssumption DEF Unary
      <4>2. t.children[s] = <<w>>
        BY <4>1, <1>3, <1>5, TreeFacts DEF WhereOf
      <4>3. y.children[s] = [i \in DOMAIN <<b>> |-> IF <<b>>[i] = b THEN w ELSE <<b>>[i]]
        BY <3>1, <3>2, <1>5, <1>16
      <4>4. y.children[s] = <<w>>
        BY ONLY <4>3
      <4> QED BY <3>2, <4>2, <4>4
    <3>3. CASE k # s
      BY <3>1, <3>3, <1>5, <1>16
    <3> QED BY <3>2, <3>3
  <2> QED BY <2>1, <2>2 DEF SameTree
<1>18. Led(y)
  <2>1. \A k \in InTree(t) \ {w} : y.parent[k] = x.parent[k]
    BY <1>3, <1>5, <1>16, InTreeIsClosed
  <2> QED BY <1>1, <1>3, <1>16, <1>17, <2>1, UnwrapLeads
<1>19. Leaves(y)
  <2>1. \A k \in Relation : k \in Node /\ k # s
    BY <1>4, KindsAssumption DEF Node, Unary
  <2> QED BY <1>3, <1>16, <2>1 DEF Leaves
<1>20. Sound(y)
  BY <1>3, <1>16, <1>17, <1>18, <1>19, SameTreeShape DEF Sound, Leaves
<1>21. ASSUME x.references = InTree(x) \cap Relation
       PROVE  y.references = InTree(t) \cap Relation
  <2>1. y.references = ((InTree(x) \cap Relation) \ Relations(x, b)) \cup Relations(x, w)
    BY <1>10, <1>12, <1>13, <1>16, <1>21
  <2>2. b \in Subtree(x, b) /\ r \in Subtree(x, b) /\ w \in Subtree(x, b)
    BY <1>3, <1>4, SubtreeIsClosed
  <2>3. Subtree(x, b) \subseteq {b, r} \cup Subtree(x, w)
    <3> DEFINE S == {b, r} \cup Subtree(x, w)
    <3>1. ChildSet(x, r) = {}
      BY <1>3, <1>5, SmallRanges DEF Leaves, ChildSet
    <3>2. b \in S /\ \A k \in S : ChildSet(x, k) \subseteq S
      BY <1>3, <1>4, <3>1, SubtreeIsClosed
    <3> HIDE DEF S
    <3>3. Subtree(x, b) \subseteq S
      BY <3>2, SubtreeIsLeast
    <3> QED BY <3>3 DEF S
  <2>4. b \notin Subtree(x, w) /\ Subtree(x, w) \subseteq InTree(x)
    BY <1>3, <1>4, TreeFacts, InTreeIsClosed
  <2>5. r \notin Subtree(x, w)
    <3> SUFFICES ASSUME r \in Subtree(x, w) PROVE FALSE
      OBVIOUS
    <3>1. PICK h \in Subtree(x, w) : r \in ChildSet(x, h)
      BY <1>3, <1>4, HeldWithin
    <3>2. h = b
      BY <1>3, <1>4, <2>4, <3>1, TreeFacts
    <3> QED BY <2>4, <3>1, <3>2
  <2>6. b \notin Relation
    BY <1>5, KindsAssumption
  <2> QED BY <1>4, <1>5, <2>1, <2>2, <2>3, <2>4, <2>5, <2>6 DEF Relations
<1>22. ~Raises(op, x)
  BY <1>2, <1>6, <1>8 DEF Raises, b
<1>23. ASSUME NEW z \in Node \ (InTree(t) \cup InTree(x))
       PROVE  y.children[z] = x.children[z] /\ y.parent[z] = x.parent[z]
  <2>1. z # s /\ z # b /\ z # w
    BY <1>4, <1>7, KindsAssumption
  <2> QED BY <1>16, <2>1
<1> QED BY <1>17, <1>20, <1>21, <1>22, <1>23 DEF UndoesWell, y

\* The undo of a removal ends with the references of what comes back.
LEMMA ComesBack ==
  ASSUME NEW t \in Tree, IsATree(t), NEW x \in Tree, NEW op \in Op, Entry(op, t, x), op.type = "RemoveNode",
         InTree(x) \subseteq InTree(t), op.node \in InTree(t),
         NEW u \in Tree, SameTree(t, u), Led(u), Leaves(u), u.references = x.references,
         Undone(op, x) = Register(u, op.node),
         \A z \in Node \ (InTree(t) \cup InTree(x)) :
           u.children[z] = x.children[z] /\ u.parent[z] = x.parent[z]
  PROVE  UndoesWell(op, t, x, Undone(op, x))
<1> DEFINE y == Undone(op, x)
<1>1. op.node \in Node
  BY InTreeIsClosed
<1>0. y = Register(u, op.node)
  OBVIOUS
<1> HIDE DEF y
<1>2. /\ y \in Tree /\ y.where = u.where /\ y.children = u.children /\ y.parent = u.parent /\ SameTree(u, y)
  BY <1>0, <1>1, UnregisterFacts
<1>3. y.references = x.references \cup Relations(u, op.node)
  BY <1>0 DEF Register, Tree
<1>4. IsATree(u) /\ Sound(u)
  BY SameTreeShape DEF Sound, Leaves
<1>5. Sound(y)
  BY <1>2, <1>4, SameTreeSound DEF Leaves
<1>6. SameTree(t, y)
  BY <1>2 DEF SameTree
<1>7. x.references = InTree(x) \cap Relation => y.references = InTree(t) \cap Relation
  <2>1. Relations(u, op.node) = Relations(t, op.node)
    BY SameTreeNodes DEF Relations
  <2>2. Gone(t, x) \subseteq Subtree(t, op.node)
    BY GoneIsUnder
  <2>3. Subtree(t, op.node) \subseteq InTree(t)
    BY InTreeIsClosed
  <2> QED BY <1>3, <2>1, <2>2, <2>3 DEF Relations, Gone
<1>8. ~Raises(op, x)
  BY DEF Raises
<1> QED BY <1>2, <1>5, <1>6, <1>7, <1>8 DEF UndoesWell, y

\* The undo of the removal of everything puts it all back.
LEMMA EmptiedIsUndone ==
  ASSUME NEW t, Sound(t), NEW x, Sound(x), NEW op \in Op, Emptied(op, t, x), Remembers(x, op, t, x)
  PROVE  UndoesWell(op, t, x, Undone(op, x))
<1> DEFINE p == op.node
           u == SetWhere(x, Select, p)
<1>1. /\ t \in Tree /\ IsATree(t) /\ Led(t) /\ x \in Tree /\ Leaves(x)
      /\ op.type = "RemoveNode" /\ op.parent = Select /\ op.index = 0 /\ t.where # Nil /\ p = t.where
      /\ x.where = Nil
  BY DEF Sound, Leaves, Emptied
<1>2. p \in InTree(t) /\ p \in Node /\ InTree(x) = {} /\ Select \notin Node
  BY <1>1, InTreeIsClosed, KindsAssumption
<1>3. Undone(op, x) = Register(u, p)
  BY <1>1 DEF Undone, UndoRemoveNode
<1> HIDE DEF u, p
<1>4. IsPut(x, u, Select, p)
  BY <1>1, <1>2, SetWhereFacts DEF u
<1>5. /\ u \in Tree /\ u.references = x.references /\ u.parent[p] = Select /\ u.where = p
      /\ \A k \in Node : u.children[k] = x.children[k]
      /\ \A k \in Node \ {p} : u.parent[k] = x.parent[k]
  BY <1>2, <1>4 DEF IsPut
<1>6. \A k \in InTree(t) : x.children[k] = t.children[k] /\ (k # p => x.parent[k] = t.parent[k]) /\ k \in Node
  BY <1>1, <1>2, InTreeIsClosed DEF Remembers, Gone, p
<1>7. SameTree(t, u)
  BY <1>1, <1>5, <1>6 DEF SameTree
<1>8. Led(u)
  <2> SUFFICES ASSUME NEW k \in InTree(t)
               PROVE  \/ Holds(u, u.parent[k], k)
                      \/ u.parent[k] \in ScopesOf(u) /\ OnSpine(u, u.parent[k], k)
    BY <1>1, <1>5, <1>7, SameTreeNodes DEF Led
  <2>1. CASE k = p
    BY <2>1, <1>1, <1>5 DEF Holds
  <2>2. CASE k # p
    <3>1. u.parent[k] = t.parent[k]
      BY <2>2, <1>5, <1>6
    <3>2. \/ Holds(t, t.parent[k], k)
          \/ t.parent[k] \in ScopesOf(t) /\ OnSpine(t, t.parent[k], k)
      BY <1>1 DEF Led
    <3>3. ScopesOf(u) = ScopesOf(t)
      BY <1>1, <1>5, <1>7, SameTreeNodes
    <3> QED BY <3>1, <3>2, <3>3, <1>1, <1>5, <1>7, SameTreeShape
  <2> QED BY <2>1, <2>2
<1>9. Leaves(u)
  BY <1>1, <1>5 DEF Leaves, Node
<1>10. \A z \in Node \ (InTree(t) \cup InTree(x)) :
         u.children[z] = x.children[z] /\ u.parent[z] = x.parent[z]
  BY <1>2, <1>5
<1>11. Entry(op, t, x)
  BY DEF Entry
<1> QED BY <1>1, <1>2, <1>3, <1>5, <1>7, <1>8, <1>9, <1>10, <1>11, ComesBack DEF p

\* One element of a list replaced, and put back.
LEMMA PutBack ==
  ASSUME NEW c \in Seq(Node), IsInjective(c), NEW i \in DOMAIN c, NEW p, p = c[i], NEW s,
         NEW d \in Seq(Node), DOMAIN d = DOMAIN c,
         \A j \in DOMAIN c : d[j] = IF c[j] = p THEN s ELSE c[j]
  PROVE  d[i] = s /\ [d EXCEPT ![i] = p] = c
<1>1. \A j \in DOMAIN c : j # i => c[j] # p
  BY DEF IsInjective
<1> DEFINE e == [d EXCEPT ![i] = p]
<1>2. e = [j \in DOMAIN c |-> IF j = i THEN p ELSE d[j]]
  OBVIOUS
<1>3. c = [j \in DOMAIN c |-> c[j]]
  OBVIOUS
<1>4. \A j \in DOMAIN c : (IF j = i THEN p ELSE d[j]) = c[j]
  BY <1>1
<1> HIDE DEF e
<1>5. e = c
  BY <1>2, <1>3, <1>4
<1> QED BY <1>5 DEF e

\* The undo of a partial removal puts the binary node back where its other child
\* had taken its place.
LEMMA CutOutIsUndone ==
  ASSUME NEW t, Sound(t), NEW x, Sound(x), NEW op \in Op, CutOut(op, t, x), Remembers(x, op, t, x)
  PROVE  UndoesWell(op, t, x, Undone(op, x))
<1> DEFINE p == op.node
           q == op.parent
           i == op.index
           u == IF i = 0 THEN SetWhere(x, q, p)
                ELSE [x EXCEPT !.children[q][i] = p,
                               !.parent = [@ EXCEPT ![x.children[q][i]] = p, ![p] = q]]
<1>1. /\ t \in Tree /\ IsATree(t) /\ Led(t) /\ x \in Tree /\ IsATree(x) /\ Led(x) /\ Leaves(x) /\ Leaves(t)
      /\ op.type = "RemoveNode"
      /\ q \in Scope => i = 0
      /\ q \notin Scope => i # 0 /\ i \in DOMAIN t.children[q] /\ t.children[q][i] = p
  BY DEF Sound, Leaves, CutOut
<1>2. PICK m, s : Cut(t, x, q, p, m, s) /\ t.parent[m] = p
  BY DEF CutOut
<1>3. Undone(op, x) = Register(u, p)
  BY <1>1 DEF Undone, UndoRemoveNode
<1>4. \A y \in InTree(t) \ InTree(x) :
        /\ x.children[y] = t.children[y]
        /\ y # p => x.parent[y] = t.parent[y]
  BY <1>1 DEF Remembers, Gone
<1>5. Entry(op, t, x)
  BY DEF Entry
<1> HIDE DEF p, q, i
<1>6. /\ p \in InTree(t) /\ p \in Binary /\ p # m /\ p # s /\ p \in Node
      /\ m \in InTree(t) /\ s \in InTree(t) /\ m \in Node /\ s \in Node
      /\ q = Select => t.where = p
      /\ q # Select => p \in ChildSet(t, q) /\ q # p /\ q \notin Subtree(t, p)
      /\ InTree(x) = InTree(t) \ ({p} \cup Subtree(t, m))
      /\ q # Select => q \in InTree(x)
      /\ s \in InTree(x) /\ Subtree(t, m) \subseteq Subtree(t, p)
  BY <1>1, <1>2, CutFacts
<1>7. /\ x.where = IF q = Select THEN s ELSE t.where
      /\ \A k \in InTree(x) :
           IF k = q
           THEN x.children[k] = [j \in DOMAIN t.children[k] |->
                                   IF t.children[k][j] = p THEN s ELSE t.children[k][j]]
           ELSE x.children[k] = t.children[k]
      /\ m # s
  BY <1>2, <1>6 DEF Cut
<1>8. q = Select \/ q \in Node
  BY <1>1, <1>6, InTreeIsClosed
<1>9. /\ u \in Tree /\ u.references = x.references /\ u.parent[p] = q
      /\ u.where = IF q = Select THEN p ELSE x.where
      /\ \A k \in Node : u.children[k] = IF k = q THEN t.children[q] ELSE x.children[k]
      /\ u.parent[s] = IF q \in Scope THEN x.parent[s] ELSE p
      /\ \A k \in Node \ {p, s} : u.parent[k] = x.parent[k]
  <2>1. CASE q \in Scope
    <3>1. u = SetWhere(x, q, p)
      BY <2>1, <1>1
    <3> HIDE DEF u
    <3>2. IsPut(x, u, q, p)
      BY <3>1, <1>1, <1>6, <1>8, SetWhereFacts
    <3>3. \A k \in Node : k = q => t.children[q] = <<p>>
      <4> SUFFICES ASSUME q \in Node PROVE t.children[q] = <<p>>
        OBVIOUS
      <4>1. q # Select /\ q \in Exists
        BY <2>1, KindsAssumption DEF Scope
      <4>2. q \in InTree(t) \cap Unary /\ p \in ChildSet(t, q)
        BY <4>1, <1>6 DEF Unary
      <4> QED BY <1>1, <4>2, TreeFacts
    <3>4. u.parent[s] = x.parent[s]
      BY <3>2, <1>6 DEF IsPut
    <3> QED BY <2>1, <3>2, <3>3, <3>4, <1>6 DEF IsPut
  <2>2. CASE q \notin Scope
    <3>1. q # Select /\ q \in Node /\ q \in InTree(x) /\ q \in InTree(t)
      BY <2>2, <1>6, <1>8 DEF Scope
    <3> DEFINE c == t.children[q]
               d == x.children[q]
    <3>2. c \in Seq(Node) /\ IsInjective(c) /\ i \in DOMAIN c /\ p = c[i]
      BY <1>1, <2>2, <3>1, ChildrenAreNodes DEF IsATree
    <3>3. d = [j \in DOMAIN c |-> IF c[j] = p THEN s ELSE c[j]]
      BY <1>7, <3>1
    <3> HIDE DEF c, d
    <3>4. d[i] = s /\ [d EXCEPT ![i] = p] = c
      <4>1. DOMAIN d = DOMAIN c /\ \A j \in DOMAIN c : d[j] = IF c[j] = p THEN s ELSE c[j]
        BY ONLY <3>3
      <4>2. d \in Seq(Node)
        BY <1>1, <3>1, ChildrenAreNodes DEF d
      <4> QED BY ONLY <3>2, <4>1, <4>2, PutBack
    <3>5. x = [where |-> x.where, children |-> x.children, parent |-> x.parent, references |-> x.references]
      BY <1>1 DEF Tree
    <3>6. u = [x EXCEPT !.children[q][i] = p,
                        !.parent = [@ EXCEPT ![x.children[q][i]] = p, ![p] = q]]
      BY <1>1, <2>2
    <3> HIDE DEF u
    <3>7. u = [where |-> x.where, children |-> [x.children EXCEPT ![q] = [x.children[q] EXCEPT ![i] = p]],
               parent |-> [x.parent EXCEPT ![x.children[q][i]] = p, ![p] = q], references |-> x.references]
      BY ONLY <3>5, <3>6
    <3>8. u = [where |-> x.where, children |-> [x.children EXCEPT ![q] = c],
               parent |-> [x.parent EXCEPT ![s] = p, ![p] = q], references |-> x.references]
      BY <3>4, <3>7 DEF d
    <3>9. u \in Tree
      BY <1>1, <1>6, <3>1, <3>2, <3>8 DEF Tree
    <3>10. /\ u.where = x.where /\ u.references = x.references /\ u.children = [x.children EXCEPT ![q] = c]
           /\ u.parent = [x.parent EXCEPT ![s] = p, ![p] = q]
      BY ONLY <3>8
    <3>11. /\ u.parent[p] = q /\ u.parent[s] = p /\ \A k \in Node \ {p, s} : u.parent[k] = x.parent[k]
      BY <1>1, <1>6, <3>10 DEF Tree
    <3>12. \A k \in Node : u.children[k] = IF k = q THEN c ELSE x.children[k]
      BY <1>1, <3>1, <3>10 DEF Tree
    <3> QED BY <2>2, <3>1, <3>9, <3>10, <3>11, <3>12 DEF c
  <2> QED BY <2>1, <2>2
<1> HIDE DEF u
<1>10. SameTree(t, u)
  <2>1. u.where = t.where
    BY <1>6, <1>7, <1>9
  <2>2. ASSUME NEW k \in InTree(t)
        PROVE  u.children[k] = t.children[k]
    <3>1. k \in Node
      BY <1>1, InTreeIsClosed
    <3>2. k # q => x.children[k] = t.children[k]
      BY <1>4, <1>7
    <3> QED BY <1>9, <3>1, <3>2
  <2> QED BY <2>1, <2>2 DEF SameTree
<1>11. Led(u)
  <2>1. m \in InTree(t) \ InTree(x) /\ Subtree(t, m) \subseteq InTree(t) \ InTree(x) /\ InTree(t) \subseteq Node
    BY <1>1, <1>6, SubtreeIsClosed, InTreeIsClosed
  <2>2. u.parent[m] = p
    BY <1>2, <1>4, <1>6, <1>7, <1>9, <2>1
  <2>3. p \notin Subtree(t, m)
    BY <1>1, <1>2, <1>6, TreeFacts DEF Cut
  <2>4. \A n \in Subtree(t, m) \ {m} : u.parent[n] = t.parent[n]
    BY <1>4, <1>6, <1>9, <2>1, <2>3
  <2>5. \A n \in InTree(x) \ {s} : u.parent[n] = x.parent[n]
    BY <1>6, <1>9, <2>1
  <2> QED BY <1>1, <1>2, <1>9, <1>10, <2>2, <2>4, <2>5, UncutLeads
<1>12. Leaves(u)
  <2>1. ASSUME q \in Relation
        PROVE  FALSE
    <3>1. q # Select /\ t.children[q] = <<>>
      BY <1>1, <2>1, KindsAssumption DEF Leaves, Node
    <3> QED BY <1>6, <3>1, SmallRanges DEF ChildSet
  <2> QED BY <1>1, <1>9, <2>1 DEF Leaves, Node
<1>13. \A z \in Node \ (InTree(t) \cup InTree(x)) :
         u.children[z] = x.children[z] /\ u.parent[z] = x.parent[z]
  BY <1>6, <1>8, <1>9, KindsAssumption
<1> QED BY <1>1, <1>3, <1>5, <1>6, <1>9, <1>10, <1>11, <1>12, <1>13, ComesBack DEF p

\* Every operation of the log undoes its edit.
LEMMA EntryIsUndone ==
  ASSUME NEW t, Sound(t), NEW x, Sound(x), NEW op \in Op, Entry(op, t, x), Remembers(x, op, t, x)
  PROVE  UndoesWell(op, t, x, Undone(op, x))
  BY AddNodeIsUndone, ReplaceNodeIsUndone, EmptiedIsUndone, CutOutIsUndone DEF Entry

-----------------------------------------------------------------------------
\* The shapes of the trees, which the undo log gives back.

\* The nodes of the tree and their children, without the parents.
Shape(t) == [where |-> t.where, children |-> [n \in InTree(t) |-> t.children[n]]]

\* All of them.
TreeShapes == {Shape(t) : t \in Tree}

\* No shape to give back.
NoShape == CHOOSE x : x \notin TreeShapes

\* The shape of the target of a recover().
ShapeOf(t) == IF t = NoTree THEN NoShape ELSE Shape(t)

\* The shapes of a list of trees.
Shapes(s) == [i \in DOMAIN s |-> Shape(s[i])]

\* Trees with the same nodes in the same places have the same shape.
LEMMA SameShape ==
  ASSUME NEW t \in Tree, NEW u \in Tree, SameTree(t, u)
  PROVE  Shape(t) = Shape(u)
<1>1. u.where = t.where /\ InTree(u) = InTree(t) /\ \A n \in InTree(t) : u.children[n] = t.children[n]
  BY SameTreeNodes DEF SameTree
<1> QED BY <1>1 DEF Shape

\* The shapes of a list, edited as the log edits it.
LEMMA ShapesOf ==
  ASSUME NEW s \in Seq(Tree)
  PROVE  /\ Shapes(s) \in Seq(TreeShapes) /\ Len(Shapes(s)) = Len(s)
         /\ \A i \in 1 .. Len(s) : Shapes(s)[i] = Shape(s[i])
         /\ Shapes(s) = <<>> <=> s = <<>>
<1>1. Len(s) \in Nat /\ DOMAIN s = 1 .. Len(s) /\ \A i \in 1 .. Len(s) : Shape(s[i]) \in TreeShapes
  BY LenProperties, ElementOfSeq DEF TreeShapes
<1> DEFINE z == Shapes(s)
<1>2. z \in [1 .. Len(s) -> TreeShapes] /\ \A i \in 1 .. Len(s) : z[i] = Shape(s[i])
  BY <1>1 DEF Shapes
<1> HIDE DEF z
<1>3. z \in Seq(TreeShapes) /\ Len(z) = Len(s)
  BY <1>1, <1>2
<1>4. z = <<>> <=> s = <<>>
  BY <1>1, <1>3, EmptySeq
<1> QED BY <1>2, <1>3, <1>4 DEF z

\* A tree more, at the head or at the end.
LEMMA ShapesPush ==
  ASSUME NEW s \in Seq(Tree), NEW t \in Tree
  PROVE  /\ Shapes(<<t>> \o s) = <<Shape(t)>> \o Shapes(s)
         /\ Shapes(Append(s, t)) = Append(Shapes(s), Shape(t))
<1> DEFINE m == <<t>>
           a == m \o s
           b == <<Shape(t)>> \o Shapes(s)
           c == Append(s, t)
           d == Append(Shapes(s), Shape(t))
<1>0. /\ Shapes(s) \in Seq(TreeShapes) /\ Len(Shapes(s)) = Len(s) /\ Shape(t) \in TreeShapes
      /\ \A i \in 1 .. Len(s) : Shapes(s)[i] = Shape(s[i])
      /\ Len(s) \in Nat
  BY ShapesOf, LenProperties DEF TreeShapes
<1>1. /\ a \in Seq(Tree) /\ Len(a) = Len(s) + 1 /\ a[1] = t
      /\ \A i \in 2 .. Len(s) + 1 : a[i] = s[i - 1]
  OBVIOUS
<1>2. /\ b \in Seq(TreeShapes) /\ Len(b) = Len(s) + 1 /\ b[1] = Shape(t)
      /\ \A i \in 2 .. Len(s) + 1 : b[i] = Shapes(s)[i - 1]
  <2> DEFINE z == Shapes(s)
             e == Shape(t)
  <2>1. z \in Seq(TreeShapes) /\ e \in TreeShapes /\ Len(z) = Len(s)
    BY <1>0
  <2> HIDE DEF z, e
  <2>2. /\ <<e>> \o z \in Seq(TreeShapes) /\ Len(<<e>> \o z) = Len(z) + 1 /\ (<<e>> \o z)[1] = e
        /\ \A i \in 2 .. Len(z) + 1 : (<<e>> \o z)[i] = z[i - 1]
    BY ONLY <2>1
  <2> QED BY <2>1, <2>2 DEF z, e
<1>3. /\ c \in Seq(Tree) /\ Len(c) = Len(s) + 1
      /\ \A i \in 1 .. Len(s) + 1 : c[i] = IF i <= Len(s) THEN s[i] ELSE t
  BY AppendProperties, <1>0
<1>4. /\ d \in Seq(TreeShapes) /\ Len(d) = Len(s) + 1
      /\ \A i \in 1 .. Len(s) + 1 : d[i] = IF i <= Len(s) THEN Shapes(s)[i] ELSE Shape(t)
  <2> DEFINE z == Shapes(s)
             e == Shape(t)
  <2>1. z \in Seq(TreeShapes) /\ e \in TreeShapes /\ Len(z) = Len(s) /\ Len(s) \in Nat
    BY <1>0
  <2> HIDE DEF z, e
  <2>2. /\ Append(z, e) \in Seq(TreeShapes) /\ Len(Append(z, e)) = Len(z) + 1
        /\ \A i \in 1 .. Len(z) + 1 : Append(z, e)[i] = IF i <= Len(z) THEN z[i] ELSE e
    BY ONLY <2>1, AppendProperties
  <2> QED BY <2>1, <2>2 DEF z, e
<1> HIDE DEF a, b, c, d
<1>5. Shapes(a) = b
  <2>1. /\ Shapes(a) \in Seq(TreeShapes) /\ Len(Shapes(a)) = Len(s) + 1
        /\ \A i \in 1 .. Len(s) + 1 : Shapes(a)[i] = Shape(a[i])
    BY <1>1, ShapesOf
  <2>2. ASSUME NEW i \in 1 .. Len(s) + 1 PROVE Shapes(a)[i] = b[i]
    <3>1. CASE i = 1
      BY <1>1, <1>2, <2>1, <3>1
    <3>2. CASE i # 1
      <4>1. i \in 2 .. Len(s) + 1 /\ i - 1 \in 1 .. Len(s)
        BY <1>0, <3>2
      <4> QED BY <1>0, <1>1, <1>2, <2>1, <4>1
    <3> QED BY <3>1, <3>2
  <2> DEFINE z == Shapes(a)
  <2>3. z \in Seq(TreeShapes) /\ Len(z) = Len(b) /\ \A i \in 1 .. Len(z) : z[i] = b[i]
    BY <1>2, <2>1, <2>2
  <2> HIDE DEF z
  <2>4. z = b
    BY <1>2, <2>3, SeqEqual
  <2> QED BY <2>4 DEF z
<1>6. Shapes(c) = d
  <2>1. /\ Shapes(c) \in Seq(TreeShapes) /\ Len(Shapes(c)) = Len(s) + 1
        /\ \A i \in 1 .. Len(s) + 1 : Shapes(c)[i] = Shape(c[i])
    BY <1>3, ShapesOf
  <2>2. ASSUME NEW i \in 1 .. Len(s) + 1 PROVE Shapes(c)[i] = d[i]
    BY <1>0, <1>3, <1>4, <2>1
  <2> DEFINE z == Shapes(c)
  <2>3. z \in Seq(TreeShapes) /\ Len(z) = Len(d) /\ \A i \in 1 .. Len(z) : z[i] = d[i]
    BY <1>4, <2>1, <2>2
  <2> HIDE DEF z
  <2>4. z = d
    BY <1>4, <2>3, SeqEqual
  <2> QED BY <2>4 DEF z
<1> QED BY <1>5, <1>6 DEF a, b, c, d

\* A tree less, at the head or at the end.
LEMMA ShapesPop ==
  ASSUME NEW s \in Seq(Tree), s # <<>>
  PROVE  /\ Shapes(Tail(s)) = Tail(Shapes(s)) /\ Head(Shapes(s)) = Shape(s[1])
         /\ Shapes(Front(s)) = Front(Shapes(s)) /\ Last(Shapes(s)) = Shape(Last(s))
         /\ Last(s) \in Tree
<1> DEFINE z == Shapes(s)
<1>0. /\ z \in Seq(TreeShapes) /\ Len(z) = Len(s) /\ z # <<>>
      /\ \A i \in 1 .. Len(s) : z[i] = Shape(s[i])
  BY ShapesOf
<1> HIDE DEF z
<1>1. /\ Last(s) = s[Len(s)] /\ Len(s) \in Nat \ {0}
      /\ Front(s) \in Seq(Tree) /\ Len(Front(s)) = Len(s) - 1
      /\ \A i \in 1 .. Len(s) - 1 : Front(s)[i] = s[i]
  BY EndOf
<1>2. /\ Last(z) = z[Len(s)] /\ Front(z) \in Seq(TreeShapes) /\ Len(Front(z)) = Len(s) - 1
      /\ \A i \in 1 .. Len(s) - 1 : Front(z)[i] = z[i]
  BY <1>0, EndOf
<1>3. /\ Tail(s) \in Seq(Tree) /\ Len(Tail(s)) = Len(s) - 1
      /\ \A i \in 1 .. Len(s) - 1 : Tail(s)[i] = s[i + 1]
  BY <1>1
<1>4. /\ Tail(z) \in Seq(TreeShapes) /\ Len(Tail(z)) = Len(s) - 1 /\ Head(z) = z[1]
      /\ \A i \in 1 .. Len(s) - 1 : Tail(z)[i] = z[i + 1]
  BY <1>0, <1>1
<1> DEFINE f == Front(s)
           g == Front(z)
           h == Tail(s)
           k == Tail(z)
<1>5. Shapes(f) = g
  <2>1. f \in Seq(Tree) /\ Len(f) = Len(s) - 1 /\ \A i \in 1 .. Len(s) - 1 : f[i] = s[i]
    BY <1>1
  <2>2. g \in Seq(TreeShapes) /\ Len(g) = Len(s) - 1 /\ \A i \in 1 .. Len(s) - 1 : g[i] = z[i]
    BY <1>2
  <2> HIDE DEF f, g
  <2> DEFINE x == Shapes(f)
  <2>3. x \in Seq(TreeShapes) /\ Len(x) = Len(s) - 1 /\ \A i \in 1 .. Len(s) - 1 : x[i] = Shape(f[i])
    BY <2>1, ShapesOf
  <2> HIDE DEF x
  <2>4. \A i \in 1 .. Len(s) - 1 : x[i] = g[i]
    BY <1>0, <1>1, <2>1, <2>2, <2>3
  <2>5. x = g
    BY <2>2, <2>3, <2>4, SeqEqual
  <2> QED BY <2>5 DEF x
<1>6. Shapes(h) = k
  <2>1. h \in Seq(Tree) /\ Len(h) = Len(s) - 1 /\ \A i \in 1 .. Len(s) - 1 : h[i] = s[i + 1]
    BY <1>3
  <2>2. k \in Seq(TreeShapes) /\ Len(k) = Len(s) - 1 /\ \A i \in 1 .. Len(s) - 1 : k[i] = z[i + 1]
    BY <1>4
  <2> HIDE DEF h, k
  <2> DEFINE x == Shapes(h)
  <2>3. x \in Seq(TreeShapes) /\ Len(x) = Len(s) - 1 /\ \A i \in 1 .. Len(s) - 1 : x[i] = Shape(h[i])
    BY <2>1, ShapesOf
  <2> HIDE DEF x
  <2>4. \A i \in 1 .. Len(s) - 1 : x[i] = k[i]
    <3> SUFFICES ASSUME NEW i \in 1 .. Len(s) - 1 PROVE x[i] = k[i]
      OBVIOUS
    <3>1. i + 1 \in 1 .. Len(s)
      BY <1>1
    <3> QED BY <1>0, <3>1, <2>1, <2>2, <2>3
  <2>5. x = k
    BY <2>2, <2>3, <2>4, SeqEqual
  <2> QED BY <2>5 DEF x
<1>7. z[1] = Shape(s[1]) /\ z[Len(s)] = Shape(s[Len(s)]) /\ s[Len(s)] \in Tree
  BY <1>0, <1>1, ElementOfSeq
<1> QED BY <1>1, <1>2, <1>4, <1>5, <1>6, <1>7 DEF z

-----------------------------------------------------------------------------
\* The chain.

\* To the chain, an operation is the shape to give back.
Was(t, op, u) == op = t
\* Its undo gives this shape.
GivesBack(op, t) == op
\* It does not raise.
Never(op, t) == FALSE

\* The log with the shapes of the trail for its operations.
Chain == INSTANCE UndoHistory_proofs
           WITH Tree <- TreeShapes, Op <- TreeShapes, NoTree <- NoShape,
                Edits <- Was, Undone <- GivesBack, Raises <- Never,
                tree <- Shape(tree), op_list <- Shapes(trail), trail <- Shapes(trail),
                saved <- Shapes(saved), target <- ShapeOf(target)

\* The tree that the edit recorded in op_list[i] has led to.
After(i) == IF i = 1 THEN tree ELSE trail[i - 1]

\* The variables, but for the trees that the log goes through.
LogInv ==
  /\ Log!HTypeOK /\ astray \in BOOLEAN
  /\ Len(trail) = Len(op_list) /\ Len(saved) = Len(state_stack)

\* The inductive invariant of the undo log, for this chain.
ChainInv == Chain!HTypeOK /\ Chain!LogInv

\* The chain satisfies what the undo log assumes of its parameters.
LEMMA ChainAssumptions ==
  /\ Chain!BoundsAssumption
  /\ Chain!NoTreeAssumption
  /\ Chain!EditsAreUndoable
  /\ Chain!UndoneIsATree
<1>1. Chain!BoundsAssumption
  BY BoundsAssumption DEF Chain!BoundsAssumption
<1>2. Chain!NoTreeAssumption
  BY NoSetContainsEverything DEF Chain!NoTreeAssumption, NoShape
<1>3. Chain!EditsAreUndoable
  BY DEF Chain!EditsAreUndoable, Was, GivesBack, Never
<1>4. Chain!UndoneIsATree
  BY DEF Chain!UndoneIsATree, GivesBack
<1> QED BY <1>1, <1>2, <1>3, <1>4

\* A step of the chain keeps its invariant.
LEMMA ChainStep ==
  ASSUME ChainInv, [Chain!HNext]_(Chain!hvars)
  PROVE  ChainInv'
<1> USE ChainAssumptions
<1>1. Chain!LengthsAgree
  BY DEF ChainInv, Chain!LogInv
<1> QED BY <1>1, Chain!TypeStep, Chain!LogStep DEF ChainInv

\* An edit that is recorded, and one that is not.
LEMMA ChainEdit ==
  ASSUME LogInv, tree' \in Tree, NEW u, NEW op, op \in Op, Log!HChange(u, op)
  PROVE  Chain!HEdit
<1>1. Shape(tree) \in TreeShapes /\ Shape(tree') \in TreeShapes
  BY DEF LogInv, Log!HTypeOK, Log!TypeOK, TreeShapes
<1>2. ShapeOf(target') = NoShape
  BY DEF Log!HChange, ShapeOf
<1>3. /\ Shapes(<<tree>> \o trail) = <<Shape(tree)>> \o Shapes(trail)
      /\ Len(Shapes(trail)) = Len(op_list)
  BY ShapesPush, ShapesOf DEF LogInv, Log!HTypeOK, Log!TypeOK
<1>4. Chain!HChange(Shape(tree'), Shape(tree))
  BY <1>1, <1>2, <1>3
     DEF Log!HChange, Log!Change, Log!ShouldRegisterOp, Log!AddOperation, Log!Idle, Log!mgr,
         Chain!HChange, Chain!Change, Chain!ShouldRegisterOp, Chain!AddOperation, Chain!Idle,
         Chain!mgr
<1> QED BY <1>1, <1>4 DEF Chain!HEdit, Was

\* The manager does to the chain what it does to the log.
LEMMA ChainManager ==
  ASSUME LogInv, Log!HManager, Log!HUndo => Shape(tree') = Shape(trail[1]), ~Log!HUndoRaises
  PROVE  Chain!HManager
<1> USE DEF Log!Idle, Log!mgr, Chain!Idle, Chain!mgr
<1>0. /\ tree \in Tree /\ trail \in Seq(Tree) /\ saved \in Seq(Tree)
      /\ Len(Shapes(trail)) = Len(op_list) /\ Len(Shapes(saved)) = Len(state_stack)
  BY ShapesOf DEF LogInv, Log!HTypeOK, Log!TypeOK
<1>1. CASE Log!HSaveState
  <2>1. Shapes(Append(saved, tree)) = Append(Shapes(saved), Shape(tree))
    BY <1>0, ShapesPush
  <2>2. ShapeOf(target') = NoShape
    BY <1>1 DEF Log!HSaveState, ShapeOf
  <2> QED BY <1>0, <1>1, <2>1, <2>2 DEF Chain!HManager, Log!HSaveState, Log!SaveState, Chain!HSaveState, Chain!SaveState
<1>2. CASE Log!HRecover
  <2>1. state_stack # <<>> /\ saved' = Log!Front(saved) /\ target' = Log!Last(saved)
    BY <1>2 DEF Log!HRecover, Log!Recover
  <2>2. saved # <<>>
    BY <1>0, <2>1, EmptySeq DEF LogInv, Log!HTypeOK, Log!TypeOK
  <2>3. saved' = Front(saved) /\ target' = Last(saved)
    BY <2>1 DEF Log!Front, Log!Last, Front, Last
  <2>4. /\ Shapes(saved') = Front(Shapes(saved)) /\ Last(Shapes(saved)) = Shape(target')
        /\ target' \in Tree
    BY <1>0, <2>2, <2>3, ShapesPop
  <2>5. ShapeOf(target') = Shape(target')
    BY <2>4, NoTreeAssumption DEF ShapeOf
  <2>6. Shapes(saved') = Chain!Front(Shapes(saved)) /\ ShapeOf(target') = Chain!Last(Shapes(saved))
    BY <2>4, <2>5 DEF Chain!Front, Chain!Last, Front, Last
  <2> QED BY <1>0, <1>2, <2>6 DEF Chain!HManager,
       Log!HRecover, Log!Recover, Log!Overshoots, Log!LastStateIndex, Log!RecoverCount, Log!Last, Log!Front,
       Chain!HRecover, Chain!Recover, Chain!Overshoots, Chain!LastStateIndex, Chain!RecoverCount,
       Chain!Last, Chain!Front
<1>3. CASE Log!HRecoverRefused
  <2>1. ShapeOf(target') = NoShape
    BY <1>3 DEF Log!HRecoverRefused, ShapeOf
  <2> QED BY <1>3, <2>1 DEF Chain!HManager, Log!HRecoverRefused, Log!RecoverRefused,
       Chain!HRecoverRefused, Chain!RecoverRefused
<1>4. CASE Log!HUndo
  <2>1. remaining > 0 /\ remaining \in 0 .. Len(op_list) /\ Len(op_list) = Len(trail) /\ Len(trail) \in Nat
    BY <1>0, <1>4, LenProperties DEF Log!HUndo, Log!Undo, LogInv, Log!HTypeOK, Log!TypeOK
  <2>2. trail # <<>>
    BY <1>0, <2>1, EmptySeq
  <2>3. /\ Shapes(trail') = Tail(Shapes(trail)) /\ Shape(tree') = Head(Shapes(trail))
    BY <1>0, <1>4, <2>2, ShapesPop DEF Log!HUndo
  <2> QED BY <1>4, <2>3 DEF Chain!HManager, Log!HUndo, Log!Undo, Chain!HUndo, Chain!Undo, GivesBack, Never
<1>5. CASE Log!HFlush
  <2>1. Shapes(<<>>) = <<>> /\ ShapeOf(target') = NoShape
    BY <1>5, ShapesOf, EmptySeq DEF Log!HFlush, ShapeOf
  <2>2. op_list = <<>> <=> Shapes(trail) = <<>>
    BY <1>0, EmptySeq, ShapesOf DEF LogInv, Log!HTypeOK, Log!TypeOK
  <2> QED BY <1>5, <2>1, <2>2 DEF Chain!HManager, Log!HFlush, Log!Flush, Chain!HFlush, Chain!Flush
<1> QED BY <1>1, <1>2, <1>3, <1>4, <1>5 DEF Log!HManager

-----------------------------------------------------------------------------
\* The types of the log.

\* An edit that the log is told of.
LEMMA TypeOfChange ==
  ASSUME LogInv, NEW u \in Tree, NEW op \in Op, Log!HChange(u, op), astray' \in BOOLEAN
  PROVE  LogInv'
<1>1. /\ tree' = u /\ target' = NoTree /\ remaining = 0
      /\ UNCHANGED <<state_stack, memorizing, undoing, remaining, saved, intact>>
      /\ IF Log!ShouldRegisterOp
         THEN op_list' = <<op>> \o op_list /\ trail' = <<tree>> \o trail
         ELSE UNCHANGED <<op_list, trail>>
  BY DEF Log!HChange, Log!Change, Log!AddOperation, Log!Idle, Log!mgr
<1>2. /\ <<op>> \o op_list \in Seq(Op) /\ <<tree>> \o trail \in Seq(Tree)
      /\ Len(<<op>> \o op_list) = Len(op_list) + 1 /\ Len(<<tree>> \o trail) = Len(trail) + 1
      /\ Len(op_list) \in Nat
  BY PushHead DEF LogInv, Log!HTypeOK, Log!TypeOK
<1>0. op_list \in Seq(Op) /\ trail \in Seq(Tree) /\ Len(trail) = Len(op_list)
  BY DEF LogInv, Log!HTypeOK, Log!TypeOK
<1>3. /\ op_list' \in Seq(Op) /\ trail' \in Seq(Tree) /\ Len(trail') = Len(op_list') /\ Len(op_list') \in Nat
  <2>1. CASE Log!ShouldRegisterOp
    <3>1. op_list' = <<op>> \o op_list /\ trail' = <<tree>> \o trail
      BY <1>1, <2>1
    <3> QED BY ONLY <1>0, <1>2, <3>1
  <2>2. CASE ~Log!ShouldRegisterOp
    BY <1>0, <1>1, <1>2, <2>2
  <2> QED BY <2>1, <2>2
<1> QED BY <1>1, <1>3 DEF LogInv, Log!HTypeOK, Log!TypeOK

\* recover() undoes no more than what is recorded.
LEMMA RecoverCountBounds ==
  ASSUME NEW last \in Nat, NEW len \in Nat
  PROVE  Log!RecoverCount(last, len) \in 0 .. len
  BY DEF Log!RecoverCount

\* The steps of the manager, when no undo raises.
LEMMA TypeOfManager ==
  ASSUME LogInv, Log!HManager, tree' \in Tree, ~Log!HUndoRaises, UNCHANGED astray
  PROVE  LogInv'
<1> USE DEF LogInv, Log!HTypeOK, Log!TypeOK, Log!Idle, Log!mgr
<1>0. Len(op_list) \in Nat /\ Len(trail) \in Nat
  BY LenProperties
<1>1. CASE Log!HSaveState
  <2>1. /\ Append(state_stack, Len(op_list)) \in Seq(Nat) /\ Append(saved, tree) \in Seq(Tree)
        /\ Len(Append(state_stack, Len(op_list))) = Len(state_stack) + 1
        /\ Len(Append(saved, tree)) = Len(saved) + 1
    BY <1>0, AppendProperties
  <2> QED BY <1>1, <2>1 DEF Log!HSaveState, Log!SaveState
<1>2. CASE Log!HRecover
  <2>1. /\ state_stack # <<>> /\ saved' = Log!Front(saved) /\ target' = Log!Last(saved)
        /\ state_stack' = Log!Front(state_stack)
        /\ remaining' = Log!RecoverCount(Log!Last(state_stack), Len(op_list))
        /\ memorizing' = memorizing - 1 /\ intact' \in BOOLEAN
        /\ UNCHANGED <<tree, op_list, undoing, trail>>
    BY <1>2 DEF Log!HRecover, Log!Recover, Log!LastStateIndex
  <2>2. saved # <<>>
    BY <2>1, EmptySeq
  <2>3. /\ saved' = Front(saved) /\ target' = Last(saved) /\ state_stack' = Front(state_stack)
        /\ Log!Last(state_stack) = Last(state_stack)
    BY <2>1 DEF Log!Front, Log!Last, Front, Last
  <2>4. /\ Front(saved) \in Seq(Tree) /\ Len(Front(saved)) = Len(saved) - 1 /\ Last(saved) \in Tree
        /\ Front(state_stack) \in Seq(Nat) /\ Len(Front(state_stack)) = Len(state_stack) - 1
        /\ Last(state_stack) \in Nat
    <3>1. /\ Last(saved) = saved[Len(saved)] /\ Len(saved) \in Nat \ {0}
          /\ Front(saved) \in Seq(Tree) /\ Len(Front(saved)) = Len(saved) - 1
      BY <2>2, EndOf
    <3>2. /\ Last(state_stack) = state_stack[Len(state_stack)] /\ Len(state_stack) \in Nat \ {0}
          /\ Front(state_stack) \in Seq(Nat) /\ Len(Front(state_stack)) = Len(state_stack) - 1
      BY <2>1, EndOf
    <3> QED BY <3>1, <3>2, ElementOfSeq
  <2>5. remaining' \in 0 .. Len(op_list)
    BY <1>0, <2>1, <2>3, <2>4, RecoverCountBounds
  <2> QED BY <2>1, <2>3, <2>4, <2>5
<1>3. CASE Log!HRecoverRefused
  <2>1. /\ memorizing' = memorizing - 1 /\ intact' = FALSE /\ target' = NoTree
        /\ UNCHANGED <<tree, op_list, state_stack, undoing, remaining, saved, trail>>
    BY <1>3 DEF Log!HRecoverRefused, Log!RecoverRefused
  <2>2. memorizing' \in Int
    BY <2>1
  <2> QED BY <2>1, <2>2
<1>4. CASE Log!HUndo
  <2>1. /\ remaining > 0 /\ op_list' = Tail(op_list) /\ trail' = Tail(trail) /\ undoing' = FALSE
        /\ remaining' = remaining - 1 /\ UNCHANGED <<state_stack, memorizing, saved, target, intact>>
    BY <1>4 DEF Log!HUndo, Log!Undo
  <2>2. Len(op_list) > 0 /\ Len(trail) > 0
    BY <2>1, <1>0
  <2>3. /\ Tail(op_list) \in Seq(Op) /\ Len(Tail(op_list)) = Len(op_list) - 1
        /\ Tail(trail) \in Seq(Tree) /\ Len(Tail(trail)) = Len(trail) - 1
    BY <2>2, PopHead
  <2>4. remaining' \in 0 .. Len(op_list')
    BY <1>0, <2>1, <2>3
  <2> QED BY <2>1, <2>3, <2>4
<1>5. CASE Log!HFlush
  <2>1. /\ op_list' = <<>> /\ trail' = <<>> /\ target' = NoTree /\ intact' \in BOOLEAN /\ remaining = 0
        /\ UNCHANGED <<tree, state_stack, memorizing, undoing, remaining, saved>>
    BY <1>5 DEF Log!HFlush, Log!Flush
  <2>2. op_list' \in Seq(Op) /\ trail' \in Seq(Tree) /\ Len(op_list') = 0 /\ Len(trail') = 0
    BY <2>1, EmptySeq
  <2> QED BY <2>1, <2>2
<1> QED BY <1>1, <1>2, <1>3, <1>4, <1>5 DEF Log!HManager

-----------------------------------------------------------------------------
\* The trees that the log goes through.

\* The tree is sound, and so is every tree that an undo may give back.
SoundInv == Sound(tree) /\ \A i \in 1 .. Len(trail) : Sound(trail[i])

\* Each recorded operation says how one tree became the next.
EntriesInv == \A i \in 1 .. Len(op_list) : Entry(op_list[i], trail[i], After(i))

\* Nothing is forgotten of the nodes that an operation may give back.
GoneInv ==
  \A i \in 1 .. Len(op_list) : \A y \in Gone(trail[i], After(i)) :
    /\ y \notin InTree(tree)
    /\ \A j \in 1 .. i - 1 : y \notin InTree(trail[j])
    /\ tree.children[y] = trail[i].children[y]
    /\ y # op_list[i].node => tree.parent[y] = trail[i].parent[y]

\* The three together.
TreesInv == SoundInv /\ EntriesInv /\ GoneInv

\* The registered references are those of the tree.
Matches(t) == t.references = InTree(t) \cap Relation

\* As long as no wrong parent was followed, so they are in the tree and in those that
\* recover() promises.
RefsInv ==
  ~astray =>
    /\ Matches(tree)
    /\ \A i \in 1 .. Len(saved) : Matches(saved[i])
    /\ target # NoTree => Matches(target)

\* Without a save_state(), nothing is recorded.
LEMMA NothingRecorded ==
  ASSUME LogInv, ChainInv, intact, ~Log!ShouldRegisterOp, Log!Idle
  PROVE  op_list = <<>> /\ trail = <<>>
<1>1. Chain!Recording /\ Chain!MarksInOrder
  BY DEF ChainInv, Chain!LogInv
<1>2. Len(state_stack) = 0
  BY <1>1 DEF Chain!Recording, Log!ShouldRegisterOp
<1>3. Len(Shapes(trail)) = 0
  BY <1>1, <1>2 DEF Chain!MarksInOrder, Log!Idle
<1>4. Len(trail) = 0 /\ Len(op_list) = 0
  BY <1>3, ShapesOf DEF LogInv, Log!HTypeOK, Log!TypeOK
<1> QED BY <1>4, EmptySeq DEF LogInv, Log!HTypeOK, Log!TypeOK

\* What the log remembers stays as it was through an edit.
LEMMA OldEntriesKept ==
  ASSUME LogInv, TreesInv, NEW u, NEW op, EditsWell(tree, Recorded, u, op),
         NEW ops, Recorded \subseteq ops, NEW v, v = Collected(u, ops),
         NEW i \in 1 .. Len(op_list), NEW y \in Gone(trail[i], After(i))
  PROVE  /\ y \notin InTree(v)
         /\ v.children[y] = trail[i].children[y]
         /\ y # op_list[i].node => v.parent[y] = trail[i].parent[y]
<1> DEFINE t == trail[i]
           o == op_list[i]
           a == After(i)
<1>1. /\ Sound(tree) /\ Sound(t) /\ Sound(u) /\ Entry(o, t, a) /\ Len(trail) = Len(op_list)
      /\ \A z \in Gone(t, a) : z \notin InTree(tree) /\ tree.children[z] = t.children[z]
      /\ y # o.node => tree.parent[y] = t.parent[y]
  BY DEF TreesInv, SoundInv, EntriesInv, GoneInv, LogInv, EditsWell
<1>2. a \in Tree
  <2>1. CASE i = 1
    BY <1>1, <2>1 DEF After, Sound
  <2>2. CASE i # 1
    <3>1. i - 1 \in 1 .. Len(trail)
      BY <1>1, <2>2
    <3> QED BY <2>2, <3>1 DEF After, TreesInv, SoundInv, Sound
  <2> QED BY <2>1, <2>2
<1>3. /\ t \in Tree /\ IsATree(t) /\ tree \in Tree /\ u \in Tree /\ InTree(t) \subseteq Node
  BY <1>1, InTreeIsClosed DEF Sound
<1>4. o \in Recorded
  <2>1. op_list \in Seq(Op)
    BY DEF LogInv, Log!HTypeOK, Log!TypeOK
  <2> QED BY <2>1 DEF Recorded, Range
<1> HIDE DEF t, o, a
<1>5. /\ o.type = "RemoveNode" /\ \A z \in Gone(t, a) : z \in Subtree(tree, o.node)
  BY <1>1, <1>2, <1>3, GoneIsUnder DEF t, a
<1>6. \A x \in Tree : Subtree(x, o.node) \subseteq Live(x, ops) /\ Subtree(x, o.node) \subseteq Live(x, Recorded)
  <2>1. OpNodes(o) = {o.node}
    BY <1>5 DEF OpNodes
  <2> QED BY <1>4, <2>1 DEF Live
<1>7. \A z \in Gone(t, a) : z \in (Live(tree, Recorded) \cap Node) \ InTree(tree)
  BY <1>1, <1>3, <1>5, <1>6 DEF Gone
<1>8. \A z \in Gone(t, a) : Keeps(tree, u, z)
  BY <1>7 DEF EditsWell
<1>9. \A z \in Gone(t, a) : u.children[z] = t.children[z]
  BY <1>1, <1>8 DEF Keeps
<1>10. y \in Subtree(u, o.node)
  BY <1>1, <1>2, <1>3, <1>9, GoneIsUnder DEF t, a
<1>11. y \in Live(u, ops) \cap Node
  BY <1>3, <1>6, <1>7, <1>10 DEF t, a
<1>12. v.children[y] = u.children[y] /\ v.parent[y] = u.parent[y] /\ InTree(v) = InTree(u)
  BY <1>1, <1>3, <1>11, CollectedFacts, CollectedSound
<1> QED BY <1>1, <1>8, <1>9, <1>12 DEF Keeps, t, a, o

\* And the new operation remembers what it took out.
LEMMA NewEntryKept ==
  ASSUME Sound(tree), NEW u, NEW op, EditsWell(tree, Recorded, u, op),
         NEW ops, op \in ops, NEW v, v = Collected(u, ops)
  PROVE  /\ Entry(op, tree, v)
         /\ \A y \in Gone(tree, v) :
              /\ y \notin InTree(v) /\ v.children[y] = tree.children[y]
              /\ y # op.node => v.parent[y] = tree.parent[y]
<1>1. /\ Sound(u) /\ Entry(op, tree, u) /\ Remembers(u, op, tree, u)
      /\ tree \in Tree /\ IsATree(tree) /\ u \in Tree /\ InTree(tree) \subseteq Node
  BY InTreeIsClosed DEF EditsWell, Sound
<1>2. Sound(v) /\ v \in Tree /\ SameTree(u, v) /\ InTree(v) = InTree(u)
  BY <1>1, CollectedSound DEF Sound
<1>3. Entry(op, tree, v)
  BY <1>1, <1>2, EntryOfShape
<1>4. \A y \in Gone(tree, u) : u.children[y] = tree.children[y]
  BY <1>1 DEF Remembers
<1>5. ASSUME NEW y \in Gone(tree, u)
      PROVE  v.children[y] = tree.children[y] /\ (y # op.node => v.parent[y] = tree.parent[y])
  <2>1. op.type = "RemoveNode" /\ y \in Subtree(u, op.node) /\ y \in Node
    BY <1>1, <1>4, GoneIsUnder DEF Gone
  <2>2. OpNodes(op) = {op.node}
    BY <2>1 DEF OpNodes
  <2>3. y \in Live(u, ops) \cap Node
    BY <2>1, <2>2 DEF Live
  <2>4. v.children[y] = u.children[y] /\ v.parent[y] = u.parent[y]
    BY <1>1, <2>3, CollectedFacts
  <2> QED BY <1>1, <2>1, <2>4 DEF Remembers
<1> QED BY <1>2, <1>3, <1>5 DEF Gone

\* An edit leads from sound trees to sound trees.
LEMMA TreesOfChange ==
  ASSUME LogInv, ChainInv, TreesInv, intact,
         NEW u, NEW op, EditsWell(tree, Recorded, u, op), Change(u, op)
  PROVE  /\ TreesInv' /\ Sound(tree')
         /\ InTree(tree') = InTree(u) /\ tree'.references = u.references
<1> DEFINE ops == Recorded \cup IF Log!ShouldRegisterOp THEN {op} ELSE {}
           n == Len(op_list)
<1>1. /\ tree' = Collected(u, ops) /\ Log!Idle
      /\ IF Log!ShouldRegisterOp
         THEN op_list' = <<op>> \o op_list /\ trail' = <<tree>> \o trail
         ELSE UNCHANGED <<op_list, trail>>
  BY DEF Change, Log!HChange, Log!Change, Log!AddOperation, Log!mgr
<1>2. /\ Sound(tree') /\ SameTree(u, tree') /\ InTree(tree') = InTree(u)
      /\ tree'.references = u.references
  BY <1>1, CollectedSound DEF EditsWell
<1>3. CASE ~Log!ShouldRegisterOp
  <2>1. op_list' = <<>> /\ trail' = <<>>
    BY <1>1, <1>3, NothingRecorded
  <2>2. Len(op_list') = 0 /\ Len(trail') = 0
    BY <2>1
  <2> QED BY <1>2, <2>2 DEF TreesInv, SoundInv, EntriesInv, GoneInv
<1>4. CASE Log!ShouldRegisterOp
  <2>1. Recorded \subseteq ops /\ op \in ops
    BY <1>4
  <2> HIDE DEF ops
  <2>2. /\ n \in Nat /\ Len(op_list') = n + 1 /\ Len(trail') = n + 1
        /\ op_list'[1] = op /\ trail'[1] = tree
        /\ \A i \in 2 .. n + 1 : op_list'[i] = op_list[i - 1] /\ trail'[i] = trail[i - 1]
    <3>0. op_list \in Seq(Op) /\ trail \in Seq(Tree) /\ Len(trail) = n /\ op \in Op /\ tree \in Tree
      BY DEF LogInv, Log!HTypeOK, Log!TypeOK, EditsWell
    <3>1. op_list' = <<op>> \o op_list /\ trail' = <<tree>> \o trail
      BY <1>1, <1>4
    <3>2. /\ Len(<<op>> \o op_list) = n + 1 /\ n \in Nat /\ (<<op>> \o op_list)[1] = op
          /\ \A i \in 2 .. n + 1 : (<<op>> \o op_list)[i] = op_list[i - 1]
      BY <3>0, PushHead
    <3>3. /\ Len(<<tree>> \o trail) = n + 1 /\ (<<tree>> \o trail)[1] = tree
          /\ \A i \in 2 .. n + 1 : (<<tree>> \o trail)[i] = trail[i - 1]
      BY <3>0, PushHead
    <3> QED BY <3>1, <3>2, <3>3
  <2>3. /\ Sound(tree) /\ \A i \in 1 .. n : Sound(trail[i])
    BY DEF TreesInv, SoundInv, LogInv
  <2>4. \A i \in 2 .. n + 1 : i - 1 \in 1 .. n
    BY <2>2
  <2>5. SoundInv'
    <3>1. ASSUME NEW i \in 1 .. n + 1 PROVE Sound(trail'[i])
      <4>1. CASE i = 1
        BY <2>2, <2>3, <4>1
      <4>2. CASE i # 1
        <5>1. i \in 2 .. n + 1
          BY <2>2, <4>2
        <5> QED BY <2>2, <2>3, <2>4, <5>1
      <4> QED BY <4>1, <4>2
    <3> QED BY <1>2, <2>2, <3>1 DEF SoundInv
  <2>6. After(1)' = tree' /\ \A i \in 2 .. n + 1 : After(i)' = After(i - 1)
    <3>1. ASSUME NEW i \in 2 .. n + 1 PROVE After(i)' = After(i - 1)
      <4>1. After(i)' = trail'[i - 1]
        BY <2>2 DEF After
      <4>2. CASE i = 2
        BY <2>2, <4>1, <4>2 DEF After
      <4>3. CASE i # 2
        <5>1. i - 1 \in 2 .. n + 1 /\ i - 1 # 1
          BY <2>2, <4>3
        <5> QED BY <2>2, <4>1, <5>1 DEF After
      <4> QED BY <4>2, <4>3
    <3> QED BY <3>1 DEF After
  <2>7. ASSUME NEW i \in 1 .. n + 1
        PROVE  /\ Entry(op_list'[i], trail'[i], After(i)')
               /\ \A y \in Gone(trail'[i], After(i)') :
                    /\ y \notin InTree(tree')
                    /\ \A j \in 1 .. i - 1 : y \notin InTree(trail'[j])
                    /\ tree'.children[y] = trail'[i].children[y]
                    /\ y # op_list'[i].node => tree'.parent[y] = trail'[i].parent[y]
    <3>1. CASE i = 1
      <4>1. op_list'[i] = op /\ trail'[i] = tree /\ After(i)' = tree' /\ 1 .. i - 1 = {}
        BY <2>2, <2>6, <3>1
      <4>2. /\ Entry(op, tree, tree')
            /\ \A y \in Gone(tree, tree') :
                 /\ y \notin InTree(tree') /\ tree'.children[y] = tree.children[y]
                 /\ y # op.node => tree'.parent[y] = tree.parent[y]
        BY <1>1, <2>1, <2>3, NewEntryKept
      <4> DEFINE o1 == op_list'[i]
                 t1 == trail'[i]
                 a1 == After(i)'
                 Past(y) == \A j \in 1 .. i - 1 : y \notin InTree(trail'[j])
      <4>3. o1 = op /\ t1 = tree /\ a1 = tree' /\ \A y : Past(y)
        BY <4>1
      <4> HIDE DEF o1, t1, a1, Past
      <4>4. /\ Entry(o1, t1, a1)
            /\ \A y \in Gone(t1, a1) :
                 /\ y \notin InTree(tree') /\ Past(y) /\ tree'.children[y] = t1.children[y]
                 /\ y # o1.node => tree'.parent[y] = t1.parent[y]
        BY ONLY <4>2, <4>3
      <4> QED BY <4>4 DEF o1, t1, a1, Past
    <3>2. CASE i # 1
      <4>1. i \in 2 .. n + 1 /\ i - 1 \in 1 .. n
        BY <2>2, <3>2
      <4>2. op_list'[i] = op_list[i - 1] /\ trail'[i] = trail[i - 1] /\ After(i)' = After(i - 1)
        BY <2>2, <2>6, <4>1
      <4>3. Entry(op_list[i - 1], trail[i - 1], After(i - 1))
        BY <4>1 DEF TreesInv, EntriesInv
      <4>4. ASSUME NEW y \in Gone(trail[i - 1], After(i - 1))
            PROVE  /\ y \notin InTree(tree')
                   /\ tree'.children[y] = trail[i - 1].children[y]
                   /\ y # op_list[i - 1].node => tree'.parent[y] = trail[i - 1].parent[y]
        BY <1>1, <2>1, <4>1, OldEntriesKept
      <4>5. ASSUME NEW y \in Gone(trail[i - 1], After(i - 1)), NEW j \in 1 .. i - 1
            PROVE  y \notin InTree(trail'[j])
        <5>1. /\ y \notin InTree(tree) /\ \A k \in 1 .. (i - 1) - 1 : y \notin InTree(trail[k])
          BY <4>1 DEF TreesInv, GoneInv
        <5>2. CASE j = 1
          BY <2>2, <5>1, <5>2
        <5>3. CASE j # 1
          <6>1. j \in 2 .. n + 1 /\ j - 1 \in 1 .. (i - 1) - 1
            BY <2>2, <5>3
          <6> QED BY <2>2, <5>1, <6>1
        <5> QED BY <5>2, <5>3
      <4> DEFINE o == op_list[i - 1]
                 t == trail[i - 1]
                 a == After(i - 1)
                 o1 == op_list'[i]
                 t1 == trail'[i]
                 a1 == After(i)'
                 Past(y) == \A j \in 1 .. i - 1 : y \notin InTree(trail'[j])
      <4>6. o1 = o /\ t1 = t /\ a1 = a /\ Entry(o, t, a)
        BY <4>2, <4>3
      <4>7. \A y \in Gone(t, a) :
              /\ y \notin InTree(tree') /\ Past(y) /\ tree'.children[y] = t.children[y]
              /\ y # o.node => tree'.parent[y] = t.parent[y]
        BY <4>4, <4>5
      <4> HIDE DEF o, t, a, o1, t1, a1, Past
      <4>8. /\ Entry(o1, t1, a1)
            /\ \A y \in Gone(t1, a1) :
                 /\ y \notin InTree(tree') /\ Past(y) /\ tree'.children[y] = t1.children[y]
                 /\ y # o1.node => tree'.parent[y] = t1.parent[y]
        BY ONLY <4>6, <4>7
      <4> QED BY <4>8 DEF o1, t1, a1, Past
    <3> QED BY <3>1, <3>2
  <2>8. EntriesInv' /\ GoneInv'
    BY <2>2, <2>7 DEF EntriesInv, GoneInv
  <2> QED BY <1>2, <2>5, <2>8 DEF TreesInv
<1> QED BY <1>2, <1>3, <1>4

\* The operation that is undone does not raise, and gives the tree before it back.
LEMMA HeadIsUndone ==
  ASSUME LogInv, TreesInv, remaining > 0
  PROVE  /\ Len(op_list) > 0 /\ Head(op_list) = op_list[1] /\ Entry(op_list[1], trail[1], tree)
         /\ Sound(tree) /\ Sound(trail[1])
         /\ UndoesWell(Head(op_list), trail[1], tree, Undone(Head(op_list), tree))
<1>1. /\ op_list \in Seq(Op) /\ Len(op_list) > 0 /\ Len(trail) = Len(op_list) /\ 1 \in 1 .. Len(op_list)
  BY LenProperties DEF LogInv, Log!HTypeOK, Log!TypeOK
<1>2. Head(op_list) = op_list[1] /\ op_list[1] \in Op
  BY <1>1, PopHead
<1>3. Sound(tree) /\ Sound(trail[1]) /\ After(1) = tree
  BY <1>1 DEF TreesInv, SoundInv, After
<1>4. Entry(op_list[1], trail[1], tree)
  BY <1>1, <1>3 DEF TreesInv, EntriesInv
<1>5. Remembers(tree, op_list[1], trail[1], tree)
  BY <1>1, <1>3 DEF TreesInv, GoneInv, Remembers
<1> QED BY <1>1, <1>2, <1>3, <1>4, <1>5, EntryIsUndone

\* An undo() goes back to a sound tree, and forgets nothing of the others.
LEMMA TreesOfUndo ==
  ASSUME LogInv, TreesInv, remaining > 0,
         tree' = Undone(Head(op_list), tree), op_list' = Tail(op_list), trail' = Tail(trail)
  PROVE  /\ TreesInv' /\ Sound(tree') /\ SameTree(trail[1], tree')
         /\ Matches(tree) => Matches(tree')
<1> DEFINE n == Len(op_list)
           t == trail[1]
<1>1. /\ n \in Nat \ {0} /\ Len(op_list') = n - 1 /\ Len(trail') = n - 1
      /\ \A i \in 1 .. n - 1 : op_list'[i] = op_list[i + 1] /\ trail'[i] = trail[i + 1]
      /\ \A i \in 1 .. n - 1 : i + 1 \in 1 .. n
  <2>1. op_list \in Seq(Op) /\ trail \in Seq(Tree) /\ Len(trail) = n /\ n > 0
    BY HeadIsUndone DEF LogInv, Log!HTypeOK, Log!TypeOK
  <2>2. n \in Nat \ {0} /\ Len(Tail(op_list)) = n - 1 /\ \A i \in 1 .. n - 1 : Tail(op_list)[i] = op_list[i + 1]
    BY <2>1, PopHead
  <2>3. Len(Tail(trail)) = n - 1 /\ \A i \in 1 .. n - 1 : Tail(trail)[i] = trail[i + 1]
    BY <2>1, PopHead
  <2> QED BY <2>2, <2>3
<1>2. /\ Sound(tree') /\ SameTree(t, tree')
      /\ tree.references = InTree(tree) \cap Relation => tree'.references = InTree(t) \cap Relation
      /\ \A z \in Node \ (InTree(t) \cup InTree(tree)) :
           tree'.children[z] = tree.children[z] /\ tree'.parent[z] = tree.parent[z]
      /\ Sound(t)
  BY HeadIsUndone DEF UndoesWell
<1>3. InTree(tree') = InTree(t) /\ t \in Tree /\ tree' \in Tree
  BY <1>2, SameTreeNodes DEF Sound
<1>4. Matches(tree) => Matches(tree')
  BY <1>2, <1>3 DEF Matches
<1>5. SoundInv'
  <2>1. \A i \in 1 .. n - 1 : Sound(trail'[i])
    BY <1>1 DEF TreesInv, SoundInv, LogInv
  <2> QED BY <1>1, <1>2, <2>1 DEF SoundInv
<1>6. /\ 1 \in 1 .. n - 1 => After(1)' = tree' /\ After(1 + 1) = t
      /\ \A i \in 2 .. n - 1 : After(i)' = After(i + 1)
  <2>1. ASSUME NEW i \in 2 .. n - 1 PROVE After(i)' = After(i + 1)
    <3>1. After(i)' = trail'[i - 1] /\ After(i + 1) = trail[(i + 1) - 1]
      BY <1>1 DEF After
    <3>2. i - 1 \in 1 .. n - 1 /\ (i - 1) + 1 = (i + 1) - 1
      BY <1>1
    <3> QED BY <1>1, <3>1, <3>2
  <2>2. After(1)' = tree' /\ After(1 + 1) = t
    BY DEF After
  <2> QED BY <2>1, <2>2
<1>7. ASSUME NEW i \in 1 .. n - 1
      PROVE  /\ Entry(op_list[i + 1], trail[i + 1], After(i)')
             /\ Gone(trail[i + 1], After(i)') = Gone(trail[i + 1], After(i + 1))
  <2>1. Entry(op_list[i + 1], trail[i + 1], After(i + 1)) /\ Sound(trail[i + 1])
    BY <1>1 DEF TreesInv, EntriesInv, SoundInv, LogInv
  <2>2. CASE i = 1
    <3>1. After(i)' = tree' /\ After(i + 1) = t
      BY <1>6, <2>2
    <3> QED BY <1>2, <1>3, <2>1, <3>1, EntryOfShape DEF Sound, Gone
  <2>3. CASE i # 1
    <3>1. i \in 2 .. n - 1
      BY <1>1, <2>3
    <3> QED BY <1>6, <2>1, <3>1
  <2> QED BY <2>2, <2>3
<1>8. EntriesInv'
  BY <1>1, <1>7 DEF EntriesInv
<1>9. ASSUME NEW i \in 1 .. n - 1, NEW y \in Gone(trail[i + 1], After(i + 1))
      PROVE  /\ y \notin InTree(tree')
             /\ \A j \in 1 .. i - 1 : y \notin InTree(trail'[j])
             /\ tree'.children[y] = trail[i + 1].children[y]
             /\ y # op_list[i + 1].node => tree'.parent[y] = trail[i + 1].parent[y]
  <2>1. i + 1 \in 1 .. n /\ 1 \in 1 .. (i + 1) - 1
    BY <1>1
  <2>2. /\ y \notin InTree(tree) /\ \A j \in 1 .. (i + 1) - 1 : y \notin InTree(trail[j])
        /\ tree.children[y] = trail[i + 1].children[y]
        /\ y # op_list[i + 1].node => tree.parent[y] = trail[i + 1].parent[y]
    BY <2>1 DEF TreesInv, GoneInv
  <2>3. y \notin InTree(t)
    BY <2>1, <2>2
  <2>4. y \in Node
    <3>1. trail[i + 1] \in Tree
      BY <2>1 DEF TreesInv, SoundInv, Sound, LogInv
    <3> QED BY <3>1, InTreeIsClosed DEF Gone
  <2>5. tree'.children[y] = tree.children[y] /\ tree'.parent[y] = tree.parent[y]
    BY <1>2, <2>2, <2>3, <2>4
  <2>6. ASSUME NEW j \in 1 .. i - 1 PROVE y \notin InTree(trail'[j])
    <3>1. j \in 1 .. n - 1 /\ j + 1 \in 1 .. (i + 1) - 1
      BY <1>1
    <3> QED BY <1>1, <2>2, <3>1
  <2> QED BY <1>3, <2>2, <2>3, <2>5, <2>6
<1>10. GoneInv'
  <2> SUFFICES ASSUME NEW i \in 1 .. n - 1, NEW y \in Gone(trail'[i], After(i)')
               PROVE  /\ y \notin InTree(tree')
                      /\ \A j \in 1 .. i - 1 : y \notin InTree(trail'[j])
                      /\ tree'.children[y] = trail'[i].children[y]
                      /\ y # op_list'[i].node => tree'.parent[y] = trail'[i].parent[y]
    BY <1>1 DEF GoneInv
  <2>1. trail'[i] = trail[i + 1] /\ op_list'[i] = op_list[i + 1]
    BY <1>1
  <2>2. y \in Gone(trail[i + 1], After(i + 1))
    BY <1>7, <2>1
  <2> QED BY <1>9, <2>1, <2>2
<1> QED BY <1>2, <1>4, <1>5, <1>8, <1>10 DEF TreesInv

-----------------------------------------------------------------------------
\* The inductive invariant.

\* The log, the chain of shapes and the trees it goes through.
Inv == LogInv /\ ChainInv /\ TreesInv /\ RefsInv

\* What add_restriction does is an edit of the log.
LEMMA AddRestrictionEdits ==
  ASSUME Sound(tree), NEW s \in Scope, AddRestriction(s)
  PROVE  \E u, op : /\ EditsWell(tree, Recorded, u, op) /\ Change(u, op)
                    /\ Matches(tree) => Matches(u)
<1> DEFINE live == Live(tree, Recorded)
           r == CHOOSE n \in Relation \ live : TRUE
           b == CHOOSE n \in Binary \ live : TRUE
           w == WhereOf(tree, s)
           x == [tree EXCEPT !.references = @ \cup {r}]
           z == [x EXCEPT !.children[b] = <<w, r>>, !.parent = [@ EXCEPT ![w] = b, ![r] = b]]
           add == [type |-> "AddNode", node |-> r]
           wrap == [type |-> "ReplaceNode", old_node |-> w, new_node |-> b]
<1>1. /\ s \in ScopesOf(tree)
      /\ r \in Relation /\ r \notin live
  <2>1. s = Select \/ s \in InTree(tree) \cap Exists
    BY DEF AddRestriction, Scope
  <2>2. Relation \ live # {}
    BY DEF AddRestriction
  <2> QED BY <2>1, <2>2 DEF ScopesOf
<1>2. w = Nil <=> tree.where = Nil
  <2>1. tree \in Tree /\ IsATree(tree) /\ InTree(tree) \subseteq Node
    BY InTreeIsClosed DEF Sound
  <2>2. CASE s = Select
    BY <2>2 DEF WhereOf
  <2>3. CASE s # Select
    <3>1. s \in InTree(tree) /\ s \in Exists /\ s \in Unary
      BY <1>1, <2>3 DEF ScopesOf, Unary
    <3>2. tree.children[s][1] \in ChildSet(tree, s)
      BY <2>1, <3>1, TreeFacts
    <3>3. tree.children[s][1] \in Node
      BY <2>1, <3>1, <3>2, InTreeIsClosed
    <3>4. w # Nil /\ tree.where # Nil
      BY <2>3, <3>1, <3>3, KindsAssumption DEF WhereOf, InTree
    <3> QED BY <3>4
  <2> QED BY <2>2, <2>3
<1>3. CASE w = Nil
  <2>1. s = Select
    BY <1>1, <1>2, <1>3 DEF ScopesOf, InTree
  <2>2. Change(SetWhere(x, s, r), add)
    BY <1>3 DEF AddRestriction
  <2> DEFINE u == SetWhere(x, Select, r)
  <2>3. Change(u, add)
    BY <2>1, <2>2
  <2>4. EditsWell(tree, Recorded, u, add) /\ (Matches(tree) => Matches(u))
    <3>1. /\ EditsWell(tree, Recorded, u, add)
          /\ u.references = tree.references \cup {r}
          /\ InTree(u) \cap Relation = (InTree(tree) \cap Relation) \cup {r}
      <4> HIDE DEF r, live
      <4> QED BY <1>1, <1>2, <1>3, FirstEdits DEF live
    <3> QED BY <3>1 DEF Matches
  <2> QED BY <2>3, <2>4
<1>4. CASE w # Nil
  <2>1. b \in Binary /\ b \notin live /\ Change(SetWhere(z, s, b), wrap)
    <3>1. Binary \ live # {} /\ Change(SetWhere(z, s, b), wrap)
      BY <1>4 DEF AddRestriction
    <3> QED BY <3>1
  <2> DEFINE u == SetWhere(z, s, b)
  <2>2. EditsWell(tree, Recorded, u, wrap) /\ (Matches(tree) => Matches(u))
    <3>1. /\ EditsWell(tree, Recorded, u, wrap)
          /\ u.references = tree.references \cup {r}
          /\ InTree(u) \cap Relation = (InTree(tree) \cap Relation) \cup {r}
      <4>1. u = WrappedIn(tree, s, w, b, r) /\ wrap = [type |-> "ReplaceNode", old_node |-> w, new_node |-> b]
        BY DEF WrappedIn
      <4>2. /\ r \notin Live(tree, Recorded) /\ b \notin Live(tree, Recorded)
            /\ w = WhereOf(tree, s) /\ tree.where # Nil
        BY <1>1, <1>2, <1>4, <2>1
      <4> HIDE DEF r, b, live, w, x, z, u, wrap
      <4> QED BY <1>1, <2>1, <4>1, <4>2, WrapEdits
    <3> QED BY <3>1 DEF Matches
  <2> QED BY <2>1, <2>2
<1> QED BY <1>3, <1>4

\* So is what remove_node does.
LEMMA RemoveNodeEdits ==
  ASSUME Sound(tree), NEW n \in Node, RemoveNode(n)
  PROVE  \E u, op : /\ EditsWell(tree, Recorded, u, op) /\ Change(u, op)
                    /\ ~astray' => /\ Matches(tree) => Matches(u)
                                   /\ InTree(u) \cap Relation = (InTree(tree) \cap Relation) \ Relations(tree, n)
<1> DEFINE u == Removed(Unregister(tree, n), n)
           op == RemoveOp(tree, n)
<1>1. n \in InTree(tree) /\ CanRemove(tree, n) /\ Change(u, op)
  BY DEF RemoveNode
<1>2. ~astray' => ~FollowsWrongParent(tree, n)
  BY DEF RemoveNode
<1>3. /\ EditsWell(tree, Recorded, u, op)
      /\ u.references = tree.references \ Relations(tree, n)
      /\ InTree(u) \cap Relation = (InTree(tree) \cap Relation) \ Relations(tree, Lifted(tree, n))
  BY <1>1, RemoveEdits
<1>4. ~astray' => Relations(tree, Lifted(tree, n)) = Relations(tree, n)
  BY <1>1, <1>2, LiftedRelations
<1> QED BY <1>1, <1>3, <1>4 DEF Matches

\* An edit that the log can undo keeps the invariant.
LEMMA EditStep ==
  ASSUME Inv, intact, NEW u, NEW op, EditsWell(tree, Recorded, u, op), Change(u, op),
         astray' \in BOOLEAN, ~astray' => ~astray /\ (Matches(tree) => Matches(u))
  PROVE  /\ Inv'
         /\ InTree(tree') = InTree(u)
<1> DEFINE v == Collected(u, Recorded \cup IF Log!ShouldRegisterOp THEN {op} ELSE {})
<1>1. LogInv /\ ChainInv /\ TreesInv /\ Log!HChange(v, op) /\ op \in Op
  BY DEF Inv, Change, EditsWell
<1>2. tree' = v /\ target' = NoTree /\ UNCHANGED saved
  BY <1>1 DEF Log!HChange, Log!Change
<1>3. TreesInv' /\ Sound(tree') /\ InTree(tree') = InTree(u) /\ tree'.references = u.references
  BY <1>1, TreesOfChange
<1>4. tree' \in Tree /\ v \in Tree
  BY <1>2, <1>3 DEF Sound
<1> HIDE DEF v
<1>5. LogInv'
  BY <1>1, <1>4, TypeOfChange
<1>6. ChainInv'
  BY <1>1, <1>4, ChainEdit, ChainStep DEF Chain!HNext
<1>7. RefsInv'
  BY <1>2, <1>3 DEF Inv, RefsInv, Matches
<1> QED BY <1>3, <1>5, <1>6, <1>7 DEF Inv

\* remove_node that raises leaves the tree as it was, but for the references.
LEMMA RaisesStep ==
  ASSUME Inv, NEW n \in Node, RemoveNodeRaises(n)
  PROVE  Inv'
<1>1. /\ tree' = Unregister(tree, n) /\ astray' = TRUE /\ target' = NoTree /\ remaining = 0
      /\ UNCHANGED <<op_list, state_stack, memorizing, undoing, remaining, saved, trail, intact>>
  BY DEF RemoveNodeRaises, Log!Idle
<1>2. LogInv /\ ChainInv /\ TreesInv /\ Sound(tree) /\ tree \in Tree
  BY DEF Inv, TreesInv, SoundInv, Sound
<1>3. /\ tree' \in Tree /\ tree'.children = tree.children /\ tree'.parent = tree.parent
      /\ SameTree(tree, tree')
  BY <1>1, <1>2, UnregisterFacts
<1>4. Sound(tree') /\ InTree(tree') = InTree(tree) /\ Shape(tree') = Shape(tree)
  <2>1. \A r \in Relation : tree.children[r] = <<>>
    BY <1>2 DEF Sound
  <2> QED BY <1>2, <1>3, <2>1, SameTreeSound, SameTreeNodes, SameShape
<1>5. LogInv'
  BY <1>1, <1>2, <1>3 DEF LogInv, Log!HTypeOK, Log!TypeOK
<1>6. SoundInv'
  BY <1>1, <1>2, <1>4 DEF TreesInv, SoundInv
<1>7. ASSUME NEW i \in 1 .. Len(op_list)
      PROVE  /\ Entry(op_list[i], trail[i], After(i)')
             /\ Gone(trail[i], After(i)') = Gone(trail[i], After(i))
  <2>1. Entry(op_list[i], trail[i], After(i)) /\ Sound(trail[i])
    BY <1>2 DEF TreesInv, EntriesInv, SoundInv, LogInv
  <2>2. CASE i = 1
    <3>1. After(i)' = tree' /\ After(i) = tree
      BY <2>2 DEF After
    <3> QED BY <1>2, <1>3, <1>4, <2>1, <3>1, EntryOfShape DEF Sound, Gone
  <2>3. CASE i # 1
    BY <1>1, <2>1, <2>3 DEF After
  <2> QED BY <2>2, <2>3
<1>8. EntriesInv'
  BY <1>1, <1>7 DEF EntriesInv
<1>9. GoneInv'
  BY <1>1, <1>2, <1>3, <1>4, <1>7 DEF TreesInv, GoneInv
<1>10. RefsInv'
  BY <1>1 DEF RefsInv
<1>11. ChainInv'
  <2>1. /\ Shape(tree') = Shape(tree) /\ Shapes(trail') = Shapes(trail) /\ Shapes(saved') = Shapes(saved)
        /\ ShapeOf(target') = NoShape
    BY <1>1, <1>4 DEF ShapeOf
  <2>2. Chain!HTypeOK'
    BY <1>1, <1>2, <2>1 DEF ChainInv, Chain!HTypeOK, Chain!TypeOK
  <2>3. Chain!LengthsAgree'
    BY <1>1, <1>2, <2>1 DEF ChainInv, Chain!LogInv, Chain!LengthsAgree
  <2>4. ASSUME intact'
        PROVE  Chain!Recording' /\ Chain!ChainUndoes' /\ Chain!MarksInOrder' /\ Chain!MarksKeepTrees'
    BY <1>1, <1>2, <2>1, <2>4
       DEF ChainInv, Chain!LogInv, Chain!Recording, Chain!ChainUndoes, Chain!MarksInOrder,
           Chain!MarksKeepTrees, Chain!TreeAt, Chain!TreeAfter
  <2>5. Chain!TargetIsAhead'
    BY <1>1, <2>1 DEF Chain!TargetIsAhead
  <2> QED BY <2>2, <2>3, <2>4, <2>5 DEF ChainInv, Chain!LogInv
<1> QED BY <1>5, <1>6, <1>8, <1>9, <1>10, <1>11 DEF Inv, TreesInv

\* So does each step of the manager: no undo raises, and each gives back the former
\* sound tree.
LEMMA ManagerStep ==
  ASSUME Inv, intact, Log!HManager, UNCHANGED astray
  PROVE  Inv'
<1>1. LogInv /\ ChainInv /\ TreesInv /\ RefsInv /\ tree \in Tree
  BY DEF Inv, LogInv, Log!HTypeOK, Log!TypeOK
<1>2. ~Log!HUndoRaises
  <2> SUFFICES ASSUME Log!HUndoRaises PROVE FALSE
    OBVIOUS
  <2>1. remaining > 0 /\ Raises(Head(op_list), tree)
    BY DEF Log!HUndoRaises, Log!UndoRaises
  <2> QED BY <1>1, <2>1, HeadIsUndone DEF UndoesWell
<1>3. ASSUME Log!HUndo
      PROVE  /\ TreesInv' /\ Sound(tree') /\ SameTree(trail[1], tree')
             /\ Matches(tree) => Matches(tree')
             /\ UNCHANGED <<saved, target>>
  <2>1. /\ remaining > 0 /\ tree' = Undone(Head(op_list), tree) /\ op_list' = Tail(op_list)
        /\ trail' = Tail(trail) /\ UNCHANGED <<saved, target>>
    BY <1>3 DEF Log!HUndo, Log!Undo
  <2> QED BY <1>1, <2>1, TreesOfUndo
<1>4. Log!HUndo => Shape(tree') = Shape(trail[1])
  <2> SUFFICES ASSUME Log!HUndo PROVE Shape(tree') = Shape(trail[1])
    OBVIOUS
  <2>1. trail[1] \in Tree
    <3>1. remaining > 0
      BY DEF Log!HUndo, Log!Undo
    <3> QED BY <1>1, <3>1, HeadIsUndone DEF Sound
  <2> QED BY <1>3, <2>1, SameShape DEF Sound
<1>5. ASSUME ~Log!HUndo, ~Log!HFlush
      PROVE  TreesInv'
  <2>1. UNCHANGED <<tree, op_list, trail>>
    BY <1>2, <1>5 DEF Log!HManager, Log!HSaveState, Log!SaveState, Log!HRecover, Log!Recover,
       Log!HRecoverRefused, Log!RecoverRefused
  <2> QED BY <1>1, <2>1 DEF TreesInv, SoundInv, EntriesInv, GoneInv, After
<1>6. ASSUME Log!HFlush
      PROVE  TreesInv'
  <2>1. tree' = tree /\ op_list' = <<>> /\ trail' = <<>>
    BY <1>6 DEF Log!HFlush, Log!Flush
  <2>2. Len(op_list') = 0 /\ Len(trail') = 0
    BY <2>1
  <2> QED BY <1>1, <2>1, <2>2 DEF TreesInv, SoundInv, EntriesInv, GoneInv
<1>7. TreesInv'
  BY <1>3, <1>5, <1>6
<1>8. tree' \in Tree
  BY <1>7 DEF TreesInv, SoundInv, Sound
<1>9. LogInv'
  BY <1>1, <1>2, <1>8, TypeOfManager
<1>10. ChainInv'
  BY <1>1, <1>2, <1>4, ChainManager, ChainStep DEF Chain!HNext
<1>11. RefsInv'
  <2> SUFFICES ASSUME ~astray
               PROVE  /\ Matches(tree')
                      /\ \A i \in 1 .. Len(saved') : Matches(saved'[i])
                      /\ target' # NoTree => Matches(target')
    BY DEF RefsInv
  <2>0. /\ Matches(tree) /\ \A i \in 1 .. Len(saved) : Matches(saved[i])
        /\ target # NoTree => Matches(target)
        /\ saved \in Seq(Tree) /\ Len(saved) = Len(state_stack) /\ Len(saved) \in Nat
        /\ state_stack \in Seq(Nat)
    BY <1>1, LenProperties DEF RefsInv, LogInv, Log!HTypeOK, Log!TypeOK
  <2>1. CASE Log!HSaveState
    <3>1. saved' = Append(saved, tree) /\ tree' = tree /\ target' = NoTree
      BY <2>1 DEF Log!HSaveState, Log!SaveState
    <3>2. /\ Len(Append(saved, tree)) = Len(saved) + 1
          /\ \A i \in 1 .. Len(saved) + 1 : Append(saved, tree)[i] = IF i <= Len(saved) THEN saved[i] ELSE tree
      BY <1>1, <2>0, AppendProperties
    <3> QED BY <2>0, <3>1, <3>2
  <2>2. CASE Log!HRecover
    <3>1. state_stack # <<>> /\ saved' = Log!Front(saved) /\ target' = Log!Last(saved) /\ tree' = tree
      BY <2>2 DEF Log!HRecover, Log!Recover
    <3>2. saved # <<>>
      BY <2>0, <3>1, EmptySeq
    <3>3. saved' = Front(saved) /\ target' = Last(saved)
      BY <3>1 DEF Log!Front, Log!Last, Front, Last
    <3>4. /\ Last(saved) = saved[Len(saved)] /\ Len(saved) \in Nat \ {0}
          /\ Len(Front(saved)) = Len(saved) - 1
          /\ \A i \in 1 .. Len(saved) - 1 : Front(saved)[i] = saved[i]
      BY <2>0, <3>2, EndOf
    <3> QED BY <2>0, <3>1, <3>3, <3>4
  <2>3. CASE Log!HRecoverRefused
    BY <2>0, <2>3 DEF Log!HRecoverRefused, Log!RecoverRefused
  <2>4. CASE Log!HUndo
    BY <1>3, <2>0, <2>4
  <2>5. CASE Log!HFlush
    BY <2>0, <2>5 DEF Log!HFlush, Log!Flush
  <2> QED BY <1>2, <2>1, <2>2, <2>3, <2>4, <2>5 DEF Log!HManager
<1> QED BY <1>7, <1>9, <1>10, <1>11 DEF Inv

\* It holds as long as the client has used the log as it must be used.
RInv == intact => Inv

\* A parsed tree satisfies it.
LEMMA InitialInv ==
  ASSUME Init
  PROVE  Inv
<1>1. /\ tree \in ParsedTrees /\ op_list = <<>> /\ state_stack = <<>> /\ memorizing = 0 /\ undoing = FALSE
      /\ remaining = 0 /\ saved = <<>> /\ target = NoTree /\ trail = <<>> /\ intact = TRUE /\ astray = FALSE
  BY DEF Init, Log!MgrInit, Log!HistoryInit
<1>2. /\ tree \in Tree /\ IsATree(tree)
      /\ \A n \in InTree(tree) : tree.parent[n] = HolderOf(tree, n)
      /\ \A n \in Node \ InTree(tree) : tree.children[n] = <<>>
      /\ tree.references = InTree(tree) \cap Relation
  BY <1>1, ParsedAssumption
<1>3. Len(op_list) = 0 /\ Len(trail) = 0 /\ Len(saved) = 0 /\ Len(state_stack) = 0
  BY <1>1
<1>4. Sound(tree)
  <2>1. Led(tree)
    BY <1>2, HolderIsOne DEF Led
  <2>2. \A r \in Relation : tree.children[r] = <<>>
    BY <1>2, TreeFacts DEF Node
  <2> QED BY <1>2, <2>1, <2>2 DEF Sound
<1>5. LogInv
  <2>1. op_list \in Seq(Op) /\ trail \in Seq(Tree) /\ saved \in Seq(Tree) /\ state_stack \in Seq(Nat)
    BY <1>1, EmptySeq
  <2>2. /\ memorizing \in Int /\ undoing \in BOOLEAN /\ remaining \in 0 .. Len(op_list)
        /\ target \in Tree \cup {NoTree} /\ intact \in BOOLEAN /\ astray \in BOOLEAN
    <3>1. 0 \in 0 .. 0 /\ 0 \in Int
      OBVIOUS
    <3> QED BY ONLY <1>1, <1>3, <3>1
  <2> QED BY <1>2, <1>3, <2>1, <2>2 DEF LogInv, Log!HTypeOK, Log!TypeOK
<1>6. TreesInv /\ RefsInv
  BY <1>1, <1>2, <1>3, <1>4 DEF TreesInv, SoundInv, EntriesInv, GoneInv, RefsInv, Matches
<1>7. ChainInv
  <2> USE ChainAssumptions
  <2>1. Shapes(<<>>) = <<>> /\ ShapeOf(NoTree) = NoShape /\ Shape(tree) \in TreeShapes
    <3>1. <<>> \in Seq(Tree)
      BY EmptySeq
    <3> QED BY <1>2, <3>1, ShapesOf DEF ShapeOf, TreeShapes
  <2>2. Chain!HInit
    BY <1>1, <2>1 DEF Chain!HInit, Chain!Init, Chain!MgrInit, Chain!HistoryInit
  <2> QED BY <2>2, Chain!LogInit DEF ChainInv
<1> QED BY <1>5, <1>6, <1>7 DEF Inv

-----------------------------------------------------------------------------
\* Every step.

\* Once broken, the log stays so.
LEMMA IntactBefore ==
  ASSUME [Next]_vars, intact'
  PROVE  intact
<1>1. ASSUME NEW u, NEW op, Change(u, op) PROVE UNCHANGED intact
  BY <1>1 DEF Change, Log!HChange
<1>2. CASE \E s \in Scope : AddRestriction(s)
  BY <1>1, <1>2 DEF AddRestriction
<1>3. CASE \E n \in Node : RemoveNode(n)
  BY <1>1, <1>3 DEF RemoveNode
<1>4. CASE \E n \in Node : RemoveNodeRaises(n)
  BY <1>4 DEF RemoveNodeRaises
<1>5. CASE Log!HManager
  BY <1>5 DEF Log!HManager, Log!HSaveState, Log!HRecover, Log!HRecoverRefused, Log!HUndo, Log!HUndoRaises, Log!HFlush
<1>6. CASE UNCHANGED vars
  BY <1>6 DEF vars, Log!hvars, Log!history
<1> QED BY <1>2, <1>3, <1>4, <1>5, <1>6 DEF Next

\* Every step keeps it.
LEMMA RInvStep ==
  ASSUME RInv, [Next]_vars
  PROVE  RInv'
<1> SUFFICES ASSUME intact' PROVE Inv'
  BY DEF RInv
<1>1. intact /\ Inv /\ Sound(tree) /\ astray \in BOOLEAN
  BY IntactBefore DEF RInv, Inv, LogInv, TreesInv, SoundInv
<1>2. ASSUME NEW s \in Scope, AddRestriction(s) PROVE Inv'
  <2>1. PICK u, op : /\ EditsWell(tree, Recorded, u, op) /\ Change(u, op)
                     /\ Matches(tree) => Matches(u)
    BY <1>1, <1>2, AddRestrictionEdits
  <2>2. astray' = astray
    BY <1>2 DEF AddRestriction
  <2> QED BY <1>1, <2>1, <2>2, EditStep
<1>3. ASSUME NEW n \in Node, RemoveNode(n) PROVE Inv'
  <2>1. PICK u, op : /\ EditsWell(tree, Recorded, u, op) /\ Change(u, op)
                     /\ ~astray' => (Matches(tree) => Matches(u))
    BY <1>1, <1>3, RemoveNodeEdits
  <2>2. astray' = (astray \/ FollowsWrongParent(tree, n))
    BY <1>3 DEF RemoveNode
  <2>3. astray' \in BOOLEAN /\ (~astray' => ~astray)
    BY <1>1, <2>2 DEF FollowsWrongParent
  <2> QED BY <1>1, <2>1, <2>3, EditStep
<1>4. ASSUME NEW n \in Node, RemoveNodeRaises(n) PROVE Inv'
  BY <1>1, <1>4, RaisesStep
<1>5. CASE Log!HManager /\ UNCHANGED astray
  BY <1>1, <1>5, ManagerStep
<1>6. CASE UNCHANGED vars
  <2>1. UNCHANGED <<tree, op_list, state_stack, memorizing, undoing, remaining, saved, target, trail, intact, astray>>
    BY <1>6 DEF vars, Log!hvars, Log!vars, Log!mgr, Log!history
  <2>2. UNCHANGED Chain!hvars
    BY <2>1 DEF Chain!hvars, Chain!vars, Chain!mgr, Chain!history
  <2>3. ChainInv'
    BY <1>1, <2>2, ChainStep DEF Inv
  <2>4. LogInv'
    BY <1>1, <2>1 DEF Inv, LogInv, Log!HTypeOK, Log!TypeOK
  <2>5. TreesInv'
    BY <1>1, <2>1 DEF Inv, TreesInv, SoundInv, EntriesInv, GoneInv, After
  <2>6. RefsInv'
    BY <1>1, <2>1 DEF Inv, RefsInv
  <2> QED BY <2>3, <2>4, <2>5, <2>6 DEF Inv
<1> QED BY <1>2, <1>3, <1>4, <1>5, <1>6 DEF Next

-----------------------------------------------------------------------------
\* What the invariant shows.

\* Whatever add_restriction, remove_node, save_state and recover are called, in any order
\* and from any parsed tree, as long as the log is used as it must be: the restriction is
\* a tree, the parents lead to the right scope (node.scope and node.stmt), and
\* the registered references are those of the tree, unless remove_node has followed a
\* wrong parent.
THEOREM RestrictionsStaySound == Spec => [](intact => TreeIsSound)
<1>1. Init => RInv
  BY InitialInv DEF RInv
<1>2. RInv /\ [Next]_vars => RInv'
  BY RInvStep
<1>3. RInv => (intact => TreeIsSound)
  <2> SUFFICES ASSUME RInv, intact PROVE TreeIsSound
    OBVIOUS
  <2>1. LogInv /\ Sound(tree) /\ RefsInv
    BY DEF RInv, Inv, TreesInv, SoundInv
  <2>2. TypeOK
    BY <2>1 DEF LogInv, TypeOK
  <2>3. TreeIsATree
    BY <2>1 DEF Sound, TreeIsATree
  <2>4. ReferencesMatchTree
    BY <2>1 DEF RefsInv, Matches, ReferencesMatchTree
  <2>5. ParentsLeadToScope
    BY <2>1, LedToScope DEF ParentsLeadToScope
  <2> QED BY <2>2, <2>3, <2>4, <2>5 DEF TreeIsSound
<1> QED BY <1>1, <1>2, <1>3, PTL DEF Spec

\* The same of a client that keeps to the discipline of the log, as the run has it: the
\* restriction is sound after every add_restriction, remove_node, save_state, recover and undo().
THEOREM DisciplinedRestrictionsAreSound == DisciplinedSpec => []TreeIsSound
<1>1. Init => intact
  BY DEF Init, Log!HistoryInit
<1>2. intact /\ [Next /\ intact']_vars => intact'
  BY DEF vars, Log!hvars, Log!history
<1>3. [Next /\ intact']_vars => [Next]_vars
  OBVIOUS
<1>4. DisciplinedSpec => Spec /\ []intact
  BY <1>1, <1>2, <1>3, PTL DEF DisciplinedSpec, Spec
<1> QED BY <1>4, RestrictionsStaySound, PTL

\* The undo() of AddNodeOperation, ReplaceNodeOperation and RemoveNodeOperation takes back
\* what add_restriction and remove_node did: none raises while recover() runs, and
\* recover() gives back the restriction of the save_state() it answers, references
\* included.
THEOREM RestrictionsAreGivenBack == Spec => []UndoIsExact
<1>1. Init => RInv
  BY InitialInv DEF RInv
<1>2. RInv /\ [Next]_vars => RInv'
  BY RInvStep
<1>3. RInv => UndoIsExact
  <2> SUFFICES ASSUME RInv, intact PROVE UndoIsExact
    BY DEF UndoIsExact, RecoverRestoresRestriction, UndoNeverRaises
  <2>1. LogInv /\ TreesInv /\ RefsInv /\ ChainInv /\ remaining \in Nat
    BY LenProperties DEF RInv, Inv, LogInv, Log!HTypeOK, Log!TypeOK
  <2>2. RecoverRestoresRestriction
    <3> SUFFICES ASSUME ~astray, Log!Idle, target # NoTree PROVE Restriction(tree) = Restriction(target)
      BY DEF RecoverRestoresRestriction
    <3> USE ChainAssumptions
    <3>1. target \in Tree /\ tree \in Tree
      BY <2>1 DEF LogInv, Log!HTypeOK, Log!TypeOK
    <3>2. ShapeOf(target) = Shape(target) /\ Shape(target) \in TreeShapes
      BY <3>1 DEF ShapeOf, TreeShapes
    <3>3. ShapeOf(target) # NoShape
      BY <3>2, NoSetContainsEverything DEF NoShape
    <3>4. Shape(tree) = ShapeOf(target)
      BY <2>1, <3>3, Chain!ChainRestores DEF ChainInv, Chain!RecoverRestores, Chain!Idle, Log!Idle
    <3>5. Shape(tree) = Shape(target)
      BY <3>2, <3>4
    <3>6. /\ tree.where = target.where
          /\ [n \in InTree(tree) |-> tree.children[n]] = [n \in InTree(target) |-> target.children[n]]
      BY <3>5 DEF Shape
    <3>7. InTree(tree) = InTree(target)
      <4>1. DOMAIN [n \in InTree(tree) |-> tree.children[n]] = DOMAIN [n \in InTree(target) |-> target.children[n]]
        BY <3>6
      <4> QED BY <4>1
    <3>8. tree.references = target.references
      BY <2>1, <3>7 DEF RefsInv, Matches
    <3> QED BY <3>6, <3>8 DEF Restriction
  <2>3. UndoNeverRaises
    <3> SUFFICES ASSUME ~Log!Idle PROVE ~Raises(Head(op_list), tree)
      BY DEF UndoNeverRaises
    <3>1. remaining > 0
      BY <2>1 DEF Log!Idle
    <3> QED BY <2>1, <3>1, HeadIsUndone DEF UndoesWell
  <2> QED BY <2>2, <2>3 DEF UndoIsExact
<1> QED BY <1>1, <1>2, <1>3, PTL DEF Spec

\* remove_node takes the relations of the node it is given out of the tree and no others,
\* unless a parent is wrong on the way up to what leaves.
THEOREM RemoveTakesTheNodeOnly == DisciplinedSpec => RemoveIsExact
<1>1. Init => RInv
  BY InitialInv DEF RInv
<1>2. RInv /\ [Next /\ intact']_vars => RInv'
  BY RInvStep
<1>3. RInv /\ [Next /\ intact']_vars => [\A n \in Node : ~astray' => RemovesTheNodeOnly(n)]_vars
  <2> SUFFICES ASSUME RInv, Next, intact', NEW n \in Node, ~astray', RemoveNode(n)
               PROVE  InTree(tree') \cap Relation = (InTree(tree) \cap Relation) \ Relations(tree, n)
    BY DEF RemovesTheNodeOnly
  <2>1. intact /\ Inv /\ Sound(tree) /\ astray \in BOOLEAN
    BY IntactBefore DEF RInv, Inv, LogInv, TreesInv, SoundInv
  <2>2. PICK u, op : /\ EditsWell(tree, Recorded, u, op) /\ Change(u, op)
                     /\ Matches(tree) => Matches(u)
                     /\ InTree(u) \cap Relation = (InTree(tree) \cap Relation) \ Relations(tree, n)
    BY <2>1, RemoveNodeEdits
  <2>3. astray' = (astray \/ FollowsWrongParent(tree, n))
    BY DEF RemoveNode
  <2>4. astray' \in BOOLEAN /\ ~astray
    BY <2>1, <2>3 DEF FollowsWrongParent
  <2>5. InTree(tree') = InTree(u)
    BY <2>1, <2>2, <2>4, EditStep
  <2> QED BY <2>2, <2>5
<1> QED BY <1>1, <1>2, <1>3, PTL DEF DisciplinedSpec, RemoveIsExact
=============================================================================
