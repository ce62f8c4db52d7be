------------------------ MODULE SelectClauses_proofs ------------------------
(***************************************************************************)
(* Proofs about the editing methods of a SELECT, for any variables,        *)
(* references and parsed trees: what they record undoes what they did, and *)
(* between two calls the SELECT is sound.                                  *)
(***************************************************************************)
EXTENDS SelectClauses, Basics_proofs

-----------------------------------------------------------------------------
\* Lists as the clauses use them: list.insert, list.remove and list.index.

\* remove() finds the element where index() does.
LEMMA RemoveFirstAtPlace ==
  ASSUME NEW S, NEW s \in Seq(S), IsInjective(s), NEW k \in 1 .. Len(s)
  PROVE  /\ IndexOf(s, s[k]) = k
         /\ RemoveFirst(s, s[k]) = RemoveAt(s, k)
<1>1. {i \in 1 .. Len(s) : s[i] = s[k]} = {k} /\ RemoveFirst(s, s[k]) = RemoveAt(s, k)
  BY RemoveFirstAt
<1> QED BY <1>1, OnlyIndex DEF IndexOf, SelectInSeq

\* An element that is removed comes back to its place.
LEMMA RemoveThenInsert ==
  ASSUME NEW S, NEW s \in Seq(S), IsInjective(s), NEW e \in Range(s)
  PROVE  /\ IndexOf(s, e) \in 1 .. Len(s)
         /\ RemoveFirst(s, e) \in Seq(S)
         /\ IsInjective(RemoveFirst(s, e))
         /\ Range(RemoveFirst(s, e)) = Range(s) \ {e}
         /\ Insert(RemoveFirst(s, e), IndexOf(s, e), e) = s
<1>0. Len(s) \in Nat
  BY LenProperties
<1>1. PICK k \in 1 .. Len(s) : s[k] = e
  BY ListRange
<1> DEFINE t == RemoveAt(s, k)
<1>2. IndexOf(s, e) = k /\ RemoveFirst(s, e) = t
  BY <1>1, RemoveFirstAtPlace
<1>3. /\ t \in Seq(S) /\ Len(t) = Len(s) - 1
      /\ \A i \in 1 .. Len(s) - 1 : t[i] = IF i < k THEN s[i] ELSE s[i + 1]
  BY RemoveAtPlace
<1> HIDE DEF t
<1>4. \A i, j \in 1 .. Len(s) : s[i] = s[j] => i = j
  BY ListRange
<1>5. IsInjective(t)
  <2> SUFFICES ASSUME NEW i \in 1 .. Len(s) - 1, NEW j \in 1 .. Len(s) - 1, t[i] = t[j]
               PROVE  i = j
    BY <1>3, ListRange
  <2>1. CASE i < k /\ j < k
    BY <1>0, <1>3, <1>4, <2>1
  <2>2. CASE i < k /\ ~(j < k)
    <3>1. t[i] = s[i] /\ t[j] = s[j + 1] /\ i \in 1 .. Len(s) /\ j + 1 \in 1 .. Len(s)
      BY <1>0, <1>3, <2>2
    <3>2. i = j + 1
      BY <1>4, <3>1
    <3> QED BY <2>2, <3>2
  <2>3. CASE ~(i < k) /\ j < k
    <3>1. t[j] = s[j] /\ t[i] = s[i + 1] /\ j \in 1 .. Len(s) /\ i + 1 \in 1 .. Len(s)
      BY <1>0, <1>3, <2>3
    <3>2. j = i + 1
      BY <1>4, <3>1
    <3> QED BY <2>3, <3>2
  <2>4. CASE ~(i < k) /\ ~(j < k)
    <3>1. t[j] = s[j + 1] /\ t[i] = s[i + 1] /\ j + 1 \in 1 .. Len(s) /\ i + 1 \in 1 .. Len(s)
      BY <1>0, <1>3, <2>4
    <3>2. j + 1 = i + 1
      BY <1>4, <3>1
    <3> QED BY <3>2
  <2> QED BY <2>1, <2>2, <2>3, <2>4
<1>6. Range(t) = Range(s) \ {e}
  <2>1. ASSUME NEW i \in 1 .. Len(s) - 1
        PROVE  t[i] \in Range(s) \ {e}
    <3>1. PICK j \in 1 .. Len(s) : j # k /\ t[i] = s[j]
      BY <1>0, <1>3
    <3>2. s[j] # s[k]
      BY <1>4, <3>1
    <3> QED BY <1>1, <3>1, <3>2, ListRange
  <2>2. ASSUME NEW j \in 1 .. Len(s), s[j] # e
        PROVE  \E i \in 1 .. Len(s) - 1 : t[i] = s[j]
    <3>1. j # k
      BY <1>1, <2>2
    <3>2. CASE j < k
      <4>1. j \in 1 .. Len(s) - 1 /\ t[j] = s[j]
        BY <1>0, <1>3, <3>2
      <4> QED BY <4>1
    <3>3. CASE ~(j < k)
      <4>1. j - 1 \in 1 .. Len(s) - 1 /\ ~(j - 1 < k) /\ (j - 1) + 1 = j
        BY <1>0, <3>1, <3>3
      <4>2. t[j - 1] = s[j]
        BY <1>3, <4>1
      <4> QED BY <4>1, <4>2
    <3> QED BY <3>2, <3>3
  <2>3. Range(t) = {t[i] : i \in 1 .. Len(s) - 1}
    BY <1>3, ListRange
  <2>4. Range(s) = {s[i] : i \in 1 .. Len(s)}
    BY ListRange
  <2>5. Range(t) \subseteq Range(s) \ {e}
    BY <2>1, <2>3
  <2>6. ASSUME NEW x \in Range(s) \ {e}
        PROVE  x \in Range(t)
    <3>1. PICK j \in 1 .. Len(s) : x = s[j]
      BY <2>4
    <3> QED BY <2>2, <2>3, <3>1
  <2> QED BY <2>5, <2>6
<1>7. Insert(t, k, e) = s
  <2>1. Insert(t, k, e) = InsertAt(t, k, e)
    BY <1>0, <1>3 DEF Insert
  <2>2. k \in 1 .. Len(t) + 1 /\ e \in S /\ Len(t) + 1 = Len(s)
    BY <1>0, <1>1, <1>3, ElementOfSeq
  <2>3. /\ InsertAt(t, k, e) \in Seq(S)
        /\ Len(InsertAt(t, k, e)) = Len(s)
        /\ \A i \in 1 .. Len(s) :
             InsertAt(t, k, e)[i] = IF i < k THEN t[i] ELSE IF i = k THEN e ELSE t[i - 1]
    BY <1>3, <2>2, InsertAtPlace
  <2>4. ASSUME NEW i \in 1 .. Len(s)
        PROVE  InsertAt(t, k, e)[i] = s[i]
    <3>1. CASE i < k
      <4>1. i \in 1 .. Len(s) - 1
        BY <1>0, <3>1
      <4>2. t[i] = s[i]
        BY <1>3, <3>1, <4>1
      <4> QED BY <2>3, <3>1, <4>2
    <3>2. CASE i = k
      BY <1>1, <2>3, <3>2
    <3>3. CASE i > k
      <4>1. i - 1 \in 1 .. Len(s) - 1 /\ ~(i - 1 < k) /\ (i - 1) + 1 = i
        BY <1>0, <3>3
      <4>2. t[i - 1] = s[i]
        BY <1>3, <4>1
      <4> QED BY <2>3, <3>3, <4>2
    <3> QED BY <1>0, <3>1, <3>2, <3>3
  <2> DEFINE u == InsertAt(t, k, e)
  <2>5. u \in Seq(S) /\ Len(u) = Len(s) /\ \A i \in 1 .. Len(u) : u[i] = s[i]
    BY <2>3, <2>4
  <2> HIDE DEF u
  <2>6. u = s
    BY <2>5, SeqEqual
  <2> QED BY <2>1, <2>6 DEF u
<1> QED BY <1>2, <1>3, <1>5, <1>6, <1>7

\* A new element that is inserted is the one that is removed.
LEMMA InsertThenRemove ==
  ASSUME NEW S, NEW s \in Seq(S), IsInjective(s), NEW e \in S \ Range(s), NEW k \in 1 .. Len(s) + 1
  PROVE  /\ Insert(s, k, e) \in Seq(S)
         /\ IsInjective(Insert(s, k, e))
         /\ Range(Insert(s, k, e)) = Range(s) \cup {e}
         /\ RemoveFirst(Insert(s, k, e), e) = s
         /\ IndexOf(Insert(s, k, e), e) = k
<1>0. Len(s) \in Nat
  BY LenProperties
<1> DEFINE t == InsertAt(s, k, e)
<1>1. Insert(s, k, e) = t
  BY <1>0 DEF Insert
<1>2. /\ t \in Seq(S) /\ Len(t) = Len(s) + 1 /\ t[k] = e
      /\ \A i \in 1 .. Len(s) + 1 : t[i] = IF i < k THEN s[i] ELSE IF i = k THEN e ELSE s[i - 1]
  <2> HIDE DEF t
  <2>1. e \in S /\ s \in Seq(S) /\ k \in 1 .. Len(s) + 1
    OBVIOUS
  <2>2. t = InsertAt(s, k, e)
    BY DEF t
  <2> QED BY ONLY <2>1, <2>2, InsertAtPlace
<1> HIDE DEF t
<1>3. \A i, j \in 1 .. Len(s) : s[i] = s[j] => i = j
  BY ListRange
<1>4. \A i \in 1 .. Len(s) : s[i] # e
  BY ListRange
\* Where the elements of the new list are in the former one.
<1> DEFINE old(i) == IF i < k THEN i ELSE i - 1
<1>5. \A i \in 1 .. Len(s) + 1 : i # k => old(i) \in 1 .. Len(s) /\ t[i] = s[old(i)]
  BY <1>0, <1>2
<1>6. IsInjective(t)
  <2> SUFFICES ASSUME NEW i \in 1 .. Len(s) + 1, NEW j \in 1 .. Len(s) + 1, t[i] = t[j]
               PROVE  i = j
    BY <1>2, ListRange
  <2>1. CASE i = k \/ j = k
    <3>1. i # k => t[i] # e
      BY <1>4, <1>5
    <3>2. j # k => t[j] # e
      BY <1>4, <1>5
    <3> QED BY <1>2, <2>1, <3>1, <3>2
  <2>2. CASE i # k /\ j # k
    <3>1. old(i) = old(j)
      BY <1>3, <1>5, <2>2
    <3> QED BY <1>0, <2>2, <3>1
  <2> QED BY <2>1, <2>2
<1>7. Range(t) = Range(s) \cup {e}
  <2>1. Range(t) = {t[i] : i \in 1 .. Len(s) + 1} /\ Range(s) = {s[i] : i \in 1 .. Len(s)}
    BY <1>2, ListRange
  <2>2. ASSUME NEW i \in 1 .. Len(s) + 1
        PROVE  t[i] \in Range(s) \cup {e}
    <3>1. CASE i = k
      BY <1>2, <3>1
    <3>2. CASE i # k
      BY <1>5, <2>1, <3>2
    <3> QED BY <3>1, <3>2
  <2>3. ASSUME NEW j \in 1 .. Len(s)
        PROVE  s[j] \in Range(t)
    <3>1. PICK i \in 1 .. Len(s) + 1 : i # k /\ old(i) = j
      <4>1. CASE j < k
        <5>1. j \in 1 .. Len(s) + 1 /\ j # k /\ old(j) = j
          BY <1>0, <4>1
        <5> QED BY <5>1
      <4>2. CASE ~(j < k)
        <5>1. j + 1 \in 1 .. Len(s) + 1 /\ j + 1 # k /\ old(j + 1) = j
          BY <1>0, <4>2
        <5> QED BY <5>1
      <4> QED BY <4>1, <4>2
    <3> QED BY <1>5, <2>1, <3>1
  <2>4. e \in Range(t)
    BY <1>2, <2>1
  <2>5. Range(t) \subseteq Range(s) \cup {e}
    BY <2>1, <2>2
  <2>6. Range(s) \subseteq Range(t)
    BY <2>1, <2>3
  <2> QED BY <2>4, <2>5, <2>6
<1>8. IndexOf(t, e) = k /\ RemoveFirst(t, e) = s
  <2>1. k \in 1 .. Len(t)
    BY <1>2
  <2>2. IndexOf(t, e) = k /\ RemoveFirst(t, e) = RemoveAt(t, k)
    BY <1>2, <1>6, <2>1, RemoveFirstAtPlace
  <2>3. /\ RemoveAt(t, k) \in Seq(S)
        /\ Len(RemoveAt(t, k)) = Len(t) - 1
        /\ \A i \in 1 .. Len(t) - 1 : RemoveAt(t, k)[i] = IF i < k THEN t[i] ELSE t[i + 1]
    BY <1>2, <2>1, RemoveAtPlace
  <2> DEFINE u == RemoveAt(t, k)
  <2>4. ASSUME NEW i \in 1 .. Len(s)
        PROVE  u[i] = s[i]
    <3>1. u[i] = IF i < k THEN t[i] ELSE t[i + 1]
      BY <1>0, <1>2, <2>3
    <3> HIDE DEF u
    <3>2. CASE i < k
      BY <1>0, <1>2, <3>1, <3>2
    <3>3. CASE ~(i < k)
      <4>1. i + 1 \in 1 .. Len(s) + 1 /\ ~(i + 1 < k) /\ i + 1 # k /\ (i + 1) - 1 = i
        BY <1>0, <3>3
      <4>2. t[i + 1] = s[(i + 1) - 1]
        BY <1>2, <4>1
      <4> QED BY <3>1, <3>3, <4>1, <4>2
    <3> QED BY <3>2, <3>3
  <2>5. u \in Seq(S) /\ Len(u) = Len(s)
    BY <1>0, <1>2, <2>3
  <2> HIDE DEF u
  <2>6. u = s
    BY <2>4, <2>5, SeqEqual
  <2> QED BY <2>2, <2>6 DEF u
<1> QED BY <1>1, <1>2, <1>6, <1>7, <1>8

\* Terms that are not equivalent to one another, seen by their elements.
LEMMA NoEquivalents ==
  ASSUME NEW s \in Seq(Ref)
  PROVE  ~HasEquivalents(s) <=>
           IsInjective(s) /\ \A q, p \in Range(s) : Equivalent(q, p) => q = p
<1>1. Range(s) = {s[i] : i \in 1 .. Len(s)} /\ DOMAIN s = 1 .. Len(s)
  BY ListRange, LenProperties
<1>2. IsInjective(s) <=> \A i, j \in 1 .. Len(s) : s[i] = s[j] => i = j
  BY ListRange
<1>3. \A i, j \in 1 .. Len(s) : s[i] = s[j] => Equivalent(s[i], s[j])
  BY DEF Equivalent
<1> QED BY <1>1, <1>2, <1>3 DEF HasEquivalents

\* Without equivalent terms, the first equivalent of a term is the term itself.
LEMMA FirstEquivalentIsIt ==
  ASSUME NEW s \in Seq(Ref), ~HasEquivalents(s), NEW r \in Range(s)
  PROVE  /\ IsInjective(s)
         /\ RemoveFirstMatch(s, LAMBDA q : Equivalent(r, q)) = RemoveFirst(s, r)
<1>1. \A i, j \in 1 .. Len(s) : Equivalent(s[i], s[j]) => i = j
  BY LenProperties DEF HasEquivalents
<1>2. IsInjective(s)
  BY <1>1, ListRange DEF Equivalent
<1>3. PICK k \in 1 .. Len(s) : s[k] = r
  BY ListRange
<1>4. {i \in 1 .. Len(s) : Equivalent(r, s[i])} = {k}
  BY <1>1, <1>3 DEF Equivalent
<1>5. SelectInSeq(s, LAMBDA q : Equivalent(r, q)) = k
  BY <1>4, OnlyIndex DEF SelectInSeq
<1>6. \E i \in 1 .. Len(s) : Equivalent(r, s[i])
  BY <1>4
<1>7. RemoveFirst(s, r) = RemoveAt(s, k)
  BY <1>2, <1>3, RemoveFirstAtPlace
<1> QED BY <1>2, <1>5, <1>6, <1>7 DEF RemoveFirstMatch

-----------------------------------------------------------------------------
\* Each elementary edit of a sound tree gives a sound tree, and the operation that
\* is recorded for it gives the former tree back.

SoundTrees == {t \in Tree : Sound(t) /\ ~HasEquivalents(t.groupby)}

GoodEdit(t, op, u) ==
  /\ u \in SoundTrees
  /\ op \in Op
  /\ Undone(op, u) = t
  /\ ~Raises(op, u)
  /\ op.type = "MakeVar" => References(u, op.node) = {}

\* An edit puts references in the tree, or takes them out of it, and the
\* variables know.
Gains(t, u, refs) ==
  /\ InTree(u) = InTree(t) \cup refs
  /\ u.references = t.references \cup refs
  /\ u.defined_vars = t.defined_vars

Loses(t, u, refs) ==
  /\ InTree(u) = InTree(t) \ refs
  /\ u.references = t.references \ refs
  /\ u.defined_vars = t.defined_vars

\* What a sound tree is made of.
LEMMA SoundFacts ==
  ASSUME NEW t \in SoundTrees
  PROVE  /\ t \in Tree
         /\ t = [selection |-> t.selection, groupby |-> t.groupby, orderby |-> t.orderby,
                 having |-> t.having, where |-> t.where, defined_vars |-> t.defined_vars,
                 solutions |-> t.solutions, references |-> t.references]
         /\ \A s \in {t.selection, t.groupby, t.orderby, t.having} : s \in Seq(Ref) /\ IsInjective(s)
         /\ t.where \subseteq Node /\ t.references \subseteq Ref
         /\ t.defined_vars \subseteq Var /\ t.solutions \subseteq Var
         /\ InTree(t) \subseteq t.references
         /\ ~HasEquivalents(t.groupby)
  BY DEF SoundTrees, Sound, OnePlace, Tree

\* Two trees with the same clauses are the same tree.
LEMMA SameTree ==
  ASSUME NEW t \in Tree, NEW u \in Tree,
         u.selection = t.selection, u.groupby = t.groupby, u.orderby = t.orderby,
         u.having = t.having, u.where = t.where, u.defined_vars = t.defined_vars,
         u.solutions = t.solutions, u.references = t.references
  PROVE  u = t
  BY DEF Tree

\* add_selected: the new reference comes out of the selection again.
LEMMA SelectEdit ==
  ASSUME NEW t \in SoundTrees, NEW r \in Ref \ t.references, NEW k \in 1 .. Len(t.selection) + 1
  PROVE  /\ GoodEdit(t, [type |-> "SelectVar", node |-> r], Selected(t, r, k))
         /\ Gains(t, Selected(t, r, k), {r})
<1> DEFINE op == [type |-> "SelectVar", node |-> r]
           s  == Insert(t.selection, k, r)
           u  == [t EXCEPT !.selection = s, !.references = @ \cup {r}]
<1>1. /\ s \in Seq(Ref) /\ IsInjective(s)
      /\ Range(s) = Range(t.selection) \cup {r}
      /\ RemoveFirst(s, r) = t.selection
  <2>1. r \notin Range(t.selection)
    BY SoundFacts DEF InTree
  <2>2. t.selection \in Seq(Ref) /\ IsInjective(t.selection)
    BY SoundFacts
  <2> QED BY <2>1, <2>2, InsertThenRemove
<1> HIDE DEF s
<1>2. t \in Tree /\ r \in Ref /\ r \notin t.references /\ t.references \subseteq Ref
  BY DEF SoundTrees, Tree
<1>3. /\ u \in Tree /\ u.selection = s /\ u.references = t.references \cup {r}
      /\ u.groupby = t.groupby /\ u.orderby = t.orderby /\ u.having = t.having
      /\ u.where = t.where /\ u.defined_vars = t.defined_vars /\ u.solutions = t.solutions
  BY <1>1, <1>2 DEF Tree
<1> HIDE DEF u
<1>4. Sound(u) /\ ~HasEquivalents(u.groupby)
  <2>1. r \notin InTree(t) /\ OnePlace(t)
    BY SoundFacts DEF SoundTrees, Sound
  <2>2. OnePlace(u)
    BY <1>1, <1>3, <2>1 DEF OnePlace, InTree, Related
  <2>3. InTree(u) \subseteq u.references
    BY <1>1, <1>3, SoundFacts DEF InTree
  <2> QED BY <1>3, <2>2, <2>3 DEF SoundTrees, Sound
<1>5. Undone(op, u) = t /\ ~Raises(op, u)
  <2>1. r \in Range(u.selection)
    BY <1>1, <1>3
  <2>2. Undone(op, u) = Unselected(u, r) /\ ~Raises(op, u)
    BY <2>1 DEF Undone, Raises
  <2>3. Unselected(u, r) = [u EXCEPT !.selection = t.selection, !.references = @ \ {r}]
    BY <1>1, <1>3 DEF Unselected
  <2>4. (t.references \cup {r}) \ {r} = t.references
    BY <1>2
  <2>5. [u EXCEPT !.selection = t.selection, !.references = t.references] = t
    BY <1>2, <1>3 DEF Tree
  <2> QED BY <1>3, <2>2, <2>3, <2>4, <2>5
<1>6. u = Selected(t, r, k) /\ op \in Op
  BY <1>2 DEF u, s, Selected, Op
<1>7. Gains(t, u, {r})
  BY <1>1, <1>3 DEF Gains, InTree
<1> QED BY <1>3, <1>4, <1>5, <1>6, <1>7 DEF GoodEdit, SoundTrees

\* remove_selected: the reference comes back to its place.
LEMMA UnselectEdit ==
  ASSUME NEW t \in SoundTrees, NEW r \in Range(t.selection)
  PROVE  /\ GoodEdit(t, [type |-> "UnselectVar", node |-> r, index |-> IndexOf(t.selection, r)], Unselected(t, r))
         /\ Loses(t, Unselected(t, r), {r})
<1> DEFINE k  == IndexOf(t.selection, r)
           op == [type |-> "UnselectVar", node |-> r, index |-> k]
           s  == RemoveFirst(t.selection, r)
           u  == [t EXCEPT !.selection = s, !.references = @ \ {r}]
<1>1. /\ k \in 1 .. Len(t.selection)
      /\ s \in Seq(Ref) /\ IsInjective(s)
      /\ Range(s) = Range(t.selection) \ {r}
      /\ Insert(s, k, r) = t.selection
  <2>1. t.selection \in Seq(Ref) /\ IsInjective(t.selection)
    BY SoundFacts
  <2> QED BY <2>1, RemoveThenInsert
<1>2. t \in Tree /\ r \in t.references /\ t.references \subseteq Ref
  BY SoundFacts DEF InTree
<1>3. u = Unselected(t, r) /\ op \in Op
  <2>2. u = Unselected(t, r)
    BY DEF Unselected
  <2>3. k \in Nat \ {0} /\ r \in Ref
    BY <1>1, <1>2
  <2> QED BY <2>2, <2>3 DEF Op
<1> HIDE DEF s, k
<1>4. /\ u \in Tree /\ u.selection = s /\ u.references = t.references \ {r}
      /\ u.groupby = t.groupby /\ u.orderby = t.orderby /\ u.having = t.having
      /\ u.where = t.where /\ u.defined_vars = t.defined_vars
      /\ u.solutions = t.solutions
  BY <1>1, <1>2 DEF Tree
<1> HIDE DEF u
<1>5. Loses(t, u, {r})
  <2>1. r \notin InTree(u)
    BY <1>1, <1>4 DEF SoundTrees, Sound, OnePlace, InTree, Related
  <2>2. InTree(u) \subseteq InTree(t) /\ InTree(t) \subseteq InTree(u) \cup {r}
    BY <1>1, <1>4 DEF InTree
  <2> QED BY <1>4, <2>1, <2>2 DEF Loses
<1>6. Sound(u) /\ ~HasEquivalents(u.groupby)
  <2>1. OnePlace(t)
    BY DEF SoundTrees, Sound
  <2>2. OnePlace(u)
    BY <1>1, <1>4, <2>1 DEF OnePlace, Related
  <2>3. InTree(u) \subseteq u.references
    BY <1>4, <1>5, SoundFacts DEF Loses
  <2> QED BY <1>4, <2>2, <2>3 DEF SoundTrees, Sound
<1>7. Undone(op, u) = t /\ ~Raises(op, u)
  <2>2. Undone(op, u) = Selected(u, r, k) /\ ~Raises(op, u)
    BY DEF Undone, Raises
  <2>3. Selected(u, r, k) = [u EXCEPT !.selection = t.selection, !.references = @ \cup {r}]
    BY <1>1, <1>4 DEF Selected
  <2>4. (t.references \ {r}) \cup {r} = t.references
    BY <1>2
  <2>5. [u EXCEPT !.selection = t.selection, !.references = t.references] = t
    BY <1>2, <1>4 DEF Tree
  <2> QED BY <1>4, <2>2, <2>3, <2>4, <2>5
<1> QED BY <1>3, <1>4, <1>5, <1>6, <1>7 DEF GoodEdit, SoundTrees, k

\* add_group_var, when no group is equivalent to the new one.
LEMMA GroupEdit ==
  ASSUME NEW t \in SoundTrees, NEW r \in Ref \ t.references, NEW k \in 1 .. Len(t.groupby) + 1,
         \A q \in Range(t.groupby) : ~Equivalent(r, q)
  PROVE  /\ GoodEdit(t, [type |-> "AddGroup", node |-> r], Grouped(t, r, k))
         /\ Gains(t, Grouped(t, r, k), {r})
<1> DEFINE op == [type |-> "AddGroup", node |-> r]
           s  == Insert(t.groupby, k, r)
           u  == [t EXCEPT !.groupby = s, !.references = @ \cup {r}]
<1>1. /\ s \in Seq(Ref) /\ IsInjective(s)
      /\ Range(s) = Range(t.groupby) \cup {r}
      /\ RemoveFirst(s, r) = t.groupby
  <2>1. r \notin Range(t.groupby)
    BY SoundFacts DEF InTree
  <2>2. t.groupby \in Seq(Ref) /\ IsInjective(t.groupby)
    BY SoundFacts
  <2> QED BY <2>1, <2>2, InsertThenRemove
<1> HIDE DEF s
<1>2. t \in Tree /\ r \in Ref /\ r \notin t.references /\ t.references \subseteq Ref
  BY DEF SoundTrees, Tree
<1>3. /\ u \in Tree /\ u.groupby = s /\ u.references = t.references \cup {r}
      /\ u.selection = t.selection /\ u.orderby = t.orderby /\ u.having = t.having
      /\ u.where = t.where /\ u.defined_vars = t.defined_vars
      /\ u.solutions = t.solutions
  BY <1>1, <1>2 DEF Tree
<1> HIDE DEF u
<1>4. Sound(u) /\ ~HasEquivalents(u.groupby)
  <2>1. r \notin InTree(t) /\ OnePlace(t)
    BY SoundFacts DEF SoundTrees, Sound
  <2>2. OnePlace(u)
    BY <1>1, <1>3, <2>1 DEF OnePlace, InTree, Related
  <2>3. InTree(u) \subseteq u.references
    BY <1>1, <1>3, SoundFacts DEF InTree
  <2>4. ~HasEquivalents(s)
    BY <1>1, SoundFacts, NoEquivalents DEF Equivalent
  <2> QED BY <1>3, <2>2, <2>3, <2>4 DEF SoundTrees, Sound
<1>5. Undone(op, u) = t /\ ~Raises(op, u)
  <2>1. r \in Range(u.groupby)
    BY <1>1, <1>3
  <2>2. Undone(op, u) = Ungrouped(u, r) /\ ~Raises(op, u)
    BY <2>1 DEF Undone, Raises, Equivalent
  <2>3. Ungrouped(u, r) = [u EXCEPT !.groupby = t.groupby, !.references = @ \ {r}]
    BY <1>1, <1>3, <1>4, <2>1, FirstEquivalentIsIt DEF Ungrouped
  <2>4. (t.references \cup {r}) \ {r} = t.references
    BY <1>2
  <2>5. [u EXCEPT !.groupby = t.groupby, !.references = t.references] = t
    BY <1>2, <1>3 DEF Tree
  <2> QED BY <1>3, <2>2, <2>3, <2>4, <2>5
<1>6. u = Grouped(t, r, k) /\ op \in Op
  BY <1>2 DEF u, s, Grouped, Op
<1>7. Gains(t, u, {r})
  BY <1>1, <1>3 DEF Gains, InTree
<1> QED BY <1>3, <1>4, <1>5, <1>6, <1>7 DEF GoodEdit, SoundTrees

\* remove_group_term: the only equivalent term is the term itself.
LEMMA UngroupEdit ==
  ASSUME NEW t \in SoundTrees, NEW r \in Range(t.groupby)
  PROVE  /\ GoodEdit(t, [type |-> "RemoveGroup", node |-> r, index |-> IndexOf(t.groupby, r)], Ungrouped(t, r))
         /\ Loses(t, Ungrouped(t, r), {r})
<1> DEFINE k  == IndexOf(t.groupby, r)
           op == [type |-> "RemoveGroup", node |-> r, index |-> k]
           s  == RemoveFirst(t.groupby, r)
           u  == [t EXCEPT !.groupby = s, !.references = @ \ {r}]
<1>1. /\ k \in 1 .. Len(t.groupby)
      /\ s \in Seq(Ref) /\ IsInjective(s)
      /\ Range(s) = Range(t.groupby) \ {r}
      /\ Insert(s, k, r) = t.groupby
  <2>1. t.groupby \in Seq(Ref) /\ IsInjective(t.groupby)
    BY SoundFacts
  <2> QED BY <2>1, RemoveThenInsert
<1>2. t \in Tree /\ r \in t.references /\ t.references \subseteq Ref
  BY SoundFacts DEF InTree
<1>3. u = Ungrouped(t, r) /\ op \in Op
  <2>1. RemoveFirstMatch(t.groupby, LAMBDA q : Equivalent(r, q)) = s
    BY SoundFacts, FirstEquivalentIsIt
  <2>2. u = Ungrouped(t, r)
    BY <2>1 DEF Ungrouped
  <2>3. k \in Nat \ {0} /\ r \in Ref
    BY <1>1, <1>2
  <2> QED BY <2>2, <2>3 DEF Op
<1> HIDE DEF s, k
<1>4. /\ u \in Tree /\ u.groupby = s /\ u.references = t.references \ {r}
      /\ u.selection = t.selection /\ u.orderby = t.orderby /\ u.having = t.having
      /\ u.where = t.where /\ u.defined_vars = t.defined_vars
      /\ u.solutions = t.solutions
  BY <1>1, <1>2 DEF Tree
<1> HIDE DEF u
<1>5. Loses(t, u, {r})
  <2>1. r \notin InTree(u)
    BY <1>1, <1>4 DEF SoundTrees, Sound, OnePlace, InTree, Related
  <2>2. InTree(u) \subseteq InTree(t) /\ InTree(t) \subseteq InTree(u) \cup {r}
    BY <1>1, <1>4 DEF InTree
  <2> QED BY <1>4, <2>1, <2>2 DEF Loses
<1>6. Sound(u) /\ ~HasEquivalents(u.groupby)
  <2>1. OnePlace(t)
    BY DEF SoundTrees, Sound
  <2>2. OnePlace(u)
    BY <1>1, <1>4, <2>1 DEF OnePlace, Related
  <2>3. InTree(u) \subseteq u.references
    BY <1>4, <1>5, SoundFacts DEF Loses
  <2>4. ~HasEquivalents(s)
    BY <1>1, SoundFacts, NoEquivalents
  <2> QED BY <1>4, <2>2, <2>3, <2>4 DEF SoundTrees, Sound
<1>7. Undone(op, u) = t /\ ~Raises(op, u)
  <2>2. Undone(op, u) = Grouped(u, r, k) /\ ~Raises(op, u)
    BY DEF Undone, Raises
  <2>3. Grouped(u, r, k) = [u EXCEPT !.groupby = t.groupby, !.references = @ \cup {r}]
    BY <1>1, <1>4 DEF Grouped
  <2>4. (t.references \ {r}) \cup {r} = t.references
    BY <1>2
  <2>5. [u EXCEPT !.groupby = t.groupby, !.references = t.references] = t
    BY <1>2, <1>4 DEF Tree
  <2> QED BY <1>4, <2>2, <2>3, <2>4, <2>5
<1> QED BY <1>3, <1>4, <1>5, <1>6, <1>7 DEF GoodEdit, SoundTrees, k

\* add_sort_term.
LEMMA SortEdit ==
  ASSUME NEW t \in SoundTrees, NEW r \in Ref \ t.references, NEW k \in 1 .. Len(t.orderby) + 1
  PROVE  /\ GoodEdit(t, [type |-> "AddSort", node |-> r], Sorted(t, r, k))
         /\ Gains(t, Sorted(t, r, k), {r})
<1> DEFINE op == [type |-> "AddSort", node |-> r]
           s  == Insert(t.orderby, k, r)
           u  == [t EXCEPT !.orderby = s, !.references = @ \cup {r}]
<1>1. /\ s \in Seq(Ref) /\ IsInjective(s)
      /\ Range(s) = Range(t.orderby) \cup {r}
      /\ RemoveFirst(s, r) = t.orderby
  <2>1. r \notin Range(t.orderby)
    BY SoundFacts DEF InTree
  <2>2. t.orderby \in Seq(Ref) /\ IsInjective(t.orderby)
    BY SoundFacts
  <2> QED BY <2>1, <2>2, InsertThenRemove
<1> HIDE DEF s
<1>2. t \in Tree /\ r \in Ref /\ r \notin t.references /\ t.references \subseteq Ref
  BY DEF SoundTrees, Tree
<1>3. /\ u \in Tree /\ u.orderby = s /\ u.references = t.references \cup {r}
      /\ u.selection = t.selection /\ u.groupby = t.groupby /\ u.having = t.having
      /\ u.where = t.where /\ u.defined_vars = t.defined_vars
      /\ u.solutions = t.solutions
  BY <1>1, <1>2 DEF Tree
<1> HIDE DEF u
<1>4. Sound(u) /\ ~HasEquivalents(u.groupby)
  <2>1. r \notin InTree(t) /\ OnePlace(t)
    BY SoundFacts DEF SoundTrees, Sound
  <2>2. OnePlace(u)
    BY <1>1, <1>3, <2>1 DEF OnePlace, InTree, Related
  <2>3. InTree(u) \subseteq u.references
    BY <1>1, <1>3, SoundFacts DEF InTree
  <2> QED BY <1>3, <2>2, <2>3 DEF SoundTrees, Sound
<1>5. Undone(op, u) = t /\ ~Raises(op, u)
  <2>1. r \in Range(u.orderby)
    BY <1>1, <1>3
  <2>2. Undone(op, u) = Unsorted(u, r) /\ ~Raises(op, u)
    BY <2>1 DEF Undone, Raises
  <2>3. Unsorted(u, r) = [u EXCEPT !.orderby = t.orderby, !.references = @ \ {r}]
    BY <1>1, <1>3 DEF Unsorted
  <2>4. (t.references \cup {r}) \ {r} = t.references
    BY <1>2
  <2>5. [u EXCEPT !.orderby = t.orderby, !.references = t.references] = t
    BY <1>2, <1>3 DEF Tree
  <2> QED BY <1>3, <2>2, <2>3, <2>4, <2>5
<1>6. u = Sorted(t, r, k) /\ op \in Op
  BY <1>2 DEF u, s, Sorted, Op
<1>7. Gains(t, u, {r})
  BY <1>1, <1>3 DEF Gains, InTree
<1> QED BY <1>3, <1>4, <1>5, <1>6, <1>7 DEF GoodEdit, SoundTrees

\* remove_sort_term.
LEMMA UnsortEdit ==
  ASSUME NEW t \in SoundTrees, NEW r \in Range(t.orderby)
  PROVE  /\ GoodEdit(t, [type |-> "RemoveSort", node |-> r, index |-> IndexOf(t.orderby, r)], Unsorted(t, r))
         /\ Loses(t, Unsorted(t, r), {r})
<1> DEFINE k  == IndexOf(t.orderby, r)
           op == [type |-> "RemoveSort", node |-> r, index |-> k]
           s  == RemoveFirst(t.orderby, r)
           u  == [t EXCEPT !.orderby = s, !.references = @ \ {r}]
<1>1. /\ k \in 1 .. Len(t.orderby)
      /\ s \in Seq(Ref) /\ IsInjective(s)
      /\ Range(s) = Range(t.orderby) \ {r}
      /\ Insert(s, k, r) = t.orderby
  <2>1. t.orderby \in Seq(Ref) /\ IsInjective(t.orderby)
    BY SoundFacts
  <2> QED BY <2>1, RemoveThenInsert
<1>2. t \in Tree /\ r \in t.references /\ t.references \subseteq Ref
  BY SoundFacts DEF InTree
<1>3. u = Unsorted(t, r) /\ op \in Op
  <2>2. u = Unsorted(t, r)
    BY DEF Unsorted
  <2>3. k \in Nat \ {0} /\ r \in Ref
    BY <1>1, <1>2
  <2> QED BY <2>2, <2>3 DEF Op
<1> HIDE DEF s, k
<1>4. /\ u \in Tree /\ u.orderby = s /\ u.references = t.references \ {r}
      /\ u.selection = t.selection /\ u.groupby = t.groupby /\ u.having = t.having
      /\ u.where = t.where /\ u.defined_vars = t.defined_vars
      /\ u.solutions = t.solutions
  BY <1>1, <1>2 DEF Tree
<1> HIDE DEF u
<1>5. Loses(t, u, {r})
  <2>1. r \notin InTree(u)
    BY <1>1, <1>4 DEF SoundTrees, Sound, OnePlace, InTree, Related
  <2>2. InTree(u) \subseteq InTree(t) /\ InTree(t) \subseteq InTree(u) \cup {r}
    BY <1>1, <1>4 DEF InTree
  <2> QED BY <1>4, <2>1, <2>2 DEF Loses
<1>6. Sound(u) /\ ~HasEquivalents(u.groupby)
  <2>1. OnePlace(t)
    BY DEF SoundTrees, Sound
  <2>2. OnePlace(u)
    BY <1>1, <1>4, <2>1 DEF OnePlace, Related
  <2>3. InTree(u) \subseteq u.references
    BY <1>4, <1>5, SoundFacts DEF Loses
  <2> QED BY <1>4, <2>2, <2>3 DEF SoundTrees, Sound
<1>7. Undone(op, u) = t /\ ~Raises(op, u)
  <2>2. Undone(op, u) = Sorted(u, r, k) /\ ~Raises(op, u)
    BY DEF Undone, Raises
  <2>3. Sorted(u, r, k) = [u EXCEPT !.orderby = t.orderby, !.references = @ \cup {r}]
    BY <1>1, <1>4 DEF Sorted
  <2>4. (t.references \ {r}) \cup {r} = t.references
    BY <1>2
  <2>5. [u EXCEPT !.orderby = t.orderby, !.references = t.references] = t
    BY <1>2, <1>4 DEF Tree
  <2> QED BY <1>4, <2>2, <2>3, <2>4, <2>5
<1> QED BY <1>3, <1>4, <1>5, <1>6, <1>7 DEF GoodEdit, SoundTrees, k

\* set_having, with a new term: the references of the former terms stay registered.
LEMMA HavingEdit ==
  ASSUME NEW t \in SoundTrees, NEW r \in Ref \ t.references
  PROVE  LET u == [t EXCEPT !.having = <<r>>, !.references = @ \cup {r}]
         IN  /\ GoodEdit(t, [type |-> "SetHaving", value |-> t.having], u)
             /\ InTree(u) \subseteq InTree(t) \cup {r} /\ u.defined_vars = t.defined_vars
             /\ t.having = <<>> => Gains(t, u, {r})
<1> DEFINE op == [type |-> "SetHaving", value |-> t.having]
           s  == <<r>>
           u  == [t EXCEPT !.having = s, !.references = @ \cup {r}]
<1>1. s \in Seq(Ref) /\ IsInjective(s) /\ Range(s) = {r}
  BY DEF Range, IsInjective
<1> HIDE DEF s
<1>2. t \in Tree /\ r \in Ref /\ r \notin t.references /\ t.references \subseteq Ref
  BY DEF SoundTrees, Tree
<1>3. /\ u \in Tree /\ u.having = s /\ u.references = t.references \cup {r}
      /\ u.selection = t.selection /\ u.groupby = t.groupby /\ u.orderby = t.orderby
      /\ u.where = t.where /\ u.defined_vars = t.defined_vars /\ u.solutions = t.solutions
  BY <1>1, <1>2 DEF Tree
<1> HIDE DEF u
<1>4. Sound(u) /\ ~HasEquivalents(u.groupby)
  <2>1. r \notin InTree(t) /\ OnePlace(t)
    BY SoundFacts DEF SoundTrees, Sound
  <2>2. OnePlace(u)
    BY <1>1, <1>3, <2>1 DEF OnePlace, InTree, Related
  <2>3. InTree(u) \subseteq u.references
    BY <1>1, <1>3, SoundFacts DEF InTree
  <2> QED BY <1>3, <2>2, <2>3 DEF SoundTrees, Sound
<1>5. Undone(op, u) = t /\ ~Raises(op, u)
  <2>1. Undone(op, u) = [u EXCEPT !.references = @ \ {r}, !.having = t.having] /\ ~Raises(op, u)
    BY <1>1, <1>3 DEF Undone, Raises
  <2>2. (t.references \cup {r}) \ {r} = t.references
    BY <1>2
  <2>3. [u EXCEPT !.references = t.references, !.having = t.having] = t
    BY <1>2, <1>3 DEF Tree
  <2> QED BY <1>3, <2>1, <2>2, <2>3
<1>6. op \in Op
  BY <1>2 DEF Op, Tree
<1>7. InTree(u) \subseteq InTree(t) \cup {r}
  BY <1>1, <1>3 DEF InTree
<1>8. ASSUME t.having = <<>> PROVE Gains(t, u, {r})
  <2>1. Range(t.having) = {}
    BY <1>8 DEF Range
  <2> QED BY <1>1, <1>3, <2>1 DEF Gains, InTree
<1> QED BY <1>3, <1>4, <1>5, <1>6, <1>7, <1>8 DEF GoodEdit, SoundTrees, u, s

\* add_relation, with two new references.
LEMMA RestrictEdit ==
  ASSUME NEW t \in SoundTrees, NEW n \in Node, n.kind = "relation",
         n.refs # {}, n.refs \cap t.references = {}
  PROVE  /\ GoodEdit(t, [type |-> "AddNode", node |-> n], Restricted(t, n))
         /\ Gains(t, Restricted(t, n), n.refs)
<1> DEFINE op == [type |-> "AddNode", node |-> n]
           u  == Restricted(t, n)
<1>1. t \in Tree /\ n.refs \subseteq Ref /\ t.references \subseteq Ref
  BY DEF SoundTrees, Tree, Node
<1>2. /\ u \in Tree /\ u.where = t.where \cup {n} /\ u.references = t.references \cup n.refs
      /\ u.selection = t.selection /\ u.groupby = t.groupby /\ u.orderby = t.orderby
      /\ u.having = t.having /\ u.defined_vars = t.defined_vars /\ u.solutions = t.solutions
  BY <1>1 DEF Tree, Restricted
<1> HIDE DEF u
<1>3. n \notin t.where
  BY SoundFacts DEF InTree
<1>4. Sound(u) /\ ~HasEquivalents(u.groupby)
  <2>1. n.refs \cap InTree(t) = {} /\ OnePlace(t)
    BY SoundFacts DEF SoundTrees, Sound
  <2>2. Related(u) = Related(t) \cup n.refs
    BY <1>2 DEF Related
  <2>3. \A m \in t.where : n.refs \cap m.refs = {}
    BY <2>1 DEF InTree
  <2>4. n.refs \cap Related(t) = {}
    BY <2>1 DEF InTree, Related
  <2>5. OnePlace(u)
    BY <1>2, <2>1, <2>2, <2>3, <2>4 DEF OnePlace, InTree
  <2>6. InTree(u) \subseteq u.references
    BY <1>2, SoundFacts DEF InTree
  <2> QED BY <1>2, <2>5, <2>6 DEF SoundTrees, Sound
<1>5. Undone(op, u) = t /\ ~Raises(op, u)
  <2>1. Undone(op, u) = [u EXCEPT !.where = @ \ {n}, !.references = @ \ n.refs] /\ ~Raises(op, u)
    BY <1>2 DEF Undone, Raises, Unrestricted
  <2>2. (t.references \cup n.refs) \ n.refs = t.references /\ (t.where \cup {n}) \ {n} = t.where
    BY <1>3
  <2>3. [u EXCEPT !.where = t.where, !.references = t.references] = t
    BY <1>1, <1>2 DEF Tree
  <2> QED BY <1>2, <2>1, <2>2, <2>3
<1>6. op \in Op
  BY DEF Op
<1>7. Gains(t, u, n.refs)
  BY <1>2 DEF Gains, InTree
<1> QED BY <1>2, <1>4, <1>5, <1>6, <1>7 DEF GoodEdit, SoundTrees, u

\* remove_node of a relation: it goes back to the WHERE clause.
LEMMA UnrestrictEdit ==
  ASSUME NEW t \in SoundTrees, NEW n \in t.where
  PROVE  /\ GoodEdit(t, [type |-> "RemoveNode", node |-> n], Unrestricted(t, n))
         /\ Loses(t, Unrestricted(t, n), n.refs)
<1> DEFINE op == [type |-> "RemoveNode", node |-> n]
           u  == Unrestricted(t, n)
<1>1. /\ t \in Tree /\ n \in Node /\ n.kind = "relation"
      /\ n.refs \subseteq t.references /\ t.references \subseteq Ref
  BY SoundFacts DEF SoundTrees, Sound, InTree
<1>2. /\ u \in Tree /\ u.where = t.where \ {n} /\ u.references = t.references \ n.refs
      /\ u.selection = t.selection /\ u.groupby = t.groupby /\ u.orderby = t.orderby
      /\ u.having = t.having /\ u.defined_vars = t.defined_vars /\ u.solutions = t.solutions
  BY <1>1 DEF Tree, Unrestricted
<1> HIDE DEF u
<1>4. Sound(u) /\ ~HasEquivalents(u.groupby) /\ Loses(t, u, n.refs)
  <2>1. OnePlace(t)
    BY DEF SoundTrees, Sound
  <2>2. Related(u) \subseteq Related(t) /\ n.refs \subseteq Related(t)
    BY <1>2 DEF Related
  <2>3. OnePlace(u)
    BY <1>2, <2>1, <2>2 DEF OnePlace
  <2>4. \A m \in u.where : m.refs \cap n.refs = {}
    BY <1>2, <2>1 DEF OnePlace
  <2>5. n.refs \cap InTree(u) = {}
    BY <1>2, <2>1, <2>2, <2>4 DEF OnePlace, InTree
  <2>6. InTree(u) \subseteq InTree(t) /\ InTree(t) \subseteq InTree(u) \cup n.refs
    BY <1>2 DEF InTree
  <2>7. Loses(t, u, n.refs)
    BY <1>2, <2>5, <2>6 DEF Loses
  <2>8. InTree(u) \subseteq u.references
    BY <2>7, SoundFacts DEF Loses
  <2> QED BY <1>2, <2>3, <2>7, <2>8 DEF SoundTrees, Sound
<1>5. Undone(op, u) = t /\ ~Raises(op, u)
  <2>1. Undone(op, u) = [u EXCEPT !.where = @ \cup {n}, !.references = @ \cup n.refs] /\ ~Raises(op, u)
    BY <1>1 DEF Undone, UndoRemoveNode, Raises, Restricted
  <2>2. (t.references \ n.refs) \cup n.refs = t.references /\ (t.where \ {n}) \cup {n} = t.where
    BY <1>1
  <2>3. [u EXCEPT !.where = t.where, !.references = t.references] = t
    BY <1>1, <1>2 DEF Tree
  <2> QED BY <1>2, <2>1, <2>2, <2>3
<1>6. op \in Op
  BY <1>1 DEF Op
<1> QED BY <1>2, <1>4, <1>5, <1>6 DEF GoodEdit, SoundTrees, u

\* The last edit of undefine_variable.
LEMMA UndefineEdit ==
  ASSUME NEW t \in SoundTrees, NEW v \in t.defined_vars
  PROVE  GoodEdit(t, [type |-> "UndefineVar", node |-> v, solutions |-> t.solutions], Undefined(t, v))
<1> DEFINE op == [type |-> "UndefineVar", node |-> v, solutions |-> t.solutions]
           u  == Undefined(t, v)
<1>1. t \in Tree /\ v \in Var /\ t.defined_vars \subseteq Var /\ t.solutions \subseteq Var
  BY SoundFacts
<1>2. /\ u \in Tree /\ u.defined_vars = t.defined_vars \ {v} /\ u.solutions = t.solutions \ {v}
      /\ u.selection = t.selection /\ u.groupby = t.groupby /\ u.orderby = t.orderby
      /\ u.having = t.having /\ u.where = t.where /\ u.references = t.references
  BY <1>1 DEF Tree, Undefined
<1> HIDE DEF u
<1>4. Sound(u) /\ ~HasEquivalents(u.groupby)
  BY <1>2 DEF SoundTrees, Sound, OnePlace, Related, InTree
<1>5. Undone(op, u) = t /\ ~Raises(op, u)
  <2>1. Undone(op, u) = [u EXCEPT !.defined_vars = @ \cup {v}, !.solutions = t.solutions] /\ ~Raises(op, u)
    BY DEF Undone, Raises
  <2>2. (t.defined_vars \ {v}) \cup {v} = t.defined_vars
    OBVIOUS
  <2>3. [u EXCEPT !.defined_vars = t.defined_vars, !.solutions = t.solutions] = t
    BY <1>1, <1>2 DEF Tree
  <2> QED BY <1>2, <2>1, <2>2, <2>3
<1>6. op \in Op
  BY <1>1 DEF Op
<1> QED BY <1>2, <1>4, <1>5, <1>6 DEF GoodEdit, SoundTrees, u

\* make_variable: nothing refers to the variable yet, and the solutions do not
\* bind it.
LEMMA MakeVarEdit ==
  ASSUME NEW t \in SoundTrees, NEW v \in Var \ t.defined_vars, References(t, v) = {}
  PROVE  GoodEdit(t, [type |-> "MakeVar", node |-> v], [t EXCEPT !.defined_vars = @ \cup {v}])
<1> DEFINE op == [type |-> "MakeVar", node |-> v]
           u  == [t EXCEPT !.defined_vars = @ \cup {v}]
<1>1. /\ t \in Tree /\ v \in Var /\ t.defined_vars \subseteq Var
      /\ t.solutions \subseteq t.defined_vars /\ v \notin t.defined_vars
  BY SoundFacts DEF SoundTrees, Sound
<1>2. /\ u \in Tree /\ u.defined_vars = t.defined_vars \cup {v} /\ u.solutions = t.solutions
      /\ u.selection = t.selection /\ u.groupby = t.groupby /\ u.orderby = t.orderby
      /\ u.having = t.having /\ u.where = t.where /\ u.references = t.references
  BY <1>1 DEF Tree
<1> HIDE DEF u
<1>3. References(u, v) = {}
  BY <1>2 DEF References
<1>4. Sound(u) /\ ~HasEquivalents(u.groupby)
  BY <1>2 DEF SoundTrees, Sound, OnePlace, Related, InTree
<1>5. Undone(op, u) = t /\ ~Raises(op, u)
  <2>1. Undone(op, u) = Undefined(u, v) /\ ~Raises(op, u)
    BY <1>3 DEF Undone, UndoMakeVar, Raises
  <2>2. (t.defined_vars \cup {v}) \ {v} = t.defined_vars /\ t.solutions \ {v} = t.solutions
    BY <1>1
  <2>3. [u EXCEPT !.defined_vars = t.defined_vars, !.solutions = t.solutions] = t
    BY <1>1, <1>2 DEF Tree
  <2> QED BY <1>2, <2>1, <2>2, <2>3 DEF Undefined
<1>6. op \in Op
  BY DEF Op
<1> QED BY <1>2, <1>3, <1>4, <1>5, <1>6 DEF GoodEdit, SoundTrees, u

\* One turn of the loop of undefine_variable, with any reference it does not choke
\* on.
LEMMA DropIsAnEdit ==
  ASSUME NEW t \in SoundTrees, NEW r \in Ref, ~DropRaises(t, r)
  PROVE  /\ GoodEdit(t, DropEdit(t, r).op, DropEdit(t, r).tree)
         /\ \E refs \in SUBSET Ref : r \in refs /\ Loses(t, DropEdit(t, r).tree, refs)
<1>1. CASE RelationsOf(t, r) # {}
  <2> DEFINE n == CHOOSE m \in RelationsOf(t, r) : TRUE
  <2>1. n \in t.where /\ r \in n.refs
    BY <1>1 DEF RelationsOf
  <2> HIDE DEF n
  <2>2. /\ GoodEdit(t, [type |-> "RemoveNode", node |-> n], Unrestricted(t, n))
        /\ Loses(t, Unrestricted(t, n), n.refs)
    BY <2>1, UnrestrictEdit
  <2>3. n.refs \in SUBSET Ref
    BY <2>1, SoundFacts DEF Node
  <2> QED BY <1>1, <2>1, <2>2, <2>3 DEF DropEdit, n
<1>2. CASE RelationsOf(t, r) = {} /\ r \in Range(t.orderby)
  BY <1>2, UnsortEdit DEF DropEdit
<1>3. CASE RelationsOf(t, r) = {} /\ r \in Range(t.groupby) \ Range(t.orderby)
  BY <1>3, UngroupEdit DEF DropEdit
<1>4. CASE RelationsOf(t, r) = {} /\ r \notin Range(t.orderby) \cup Range(t.groupby)
  <2>1. r \in Range(t.selection)
    BY <1>4 DEF DropRaises
  <2> QED BY <1>4, <2>1, UnselectEdit DEF DropEdit
<1> QED BY <1>1, <1>2, <1>3, <1>4

-----------------------------------------------------------------------------
\* The undo log that the methods use, read as a chain of sound trees.  To it, an
\* operation that raises, or gives no sound tree back, or takes a variable away
\* that is still referred to, is one that fails.

Fails(op, t) ==
  \/ Raises(op, t)
  \/ Undone(op, t) \notin SoundTrees
  \/ op.type = "MakeVar" /\ References(t, op.node) # {}

UndoneSound(op, t) == IF Undone(op, t) \in SoundTrees THEN Undone(op, t) ELSE t

Exactly(t, op, u) == UndoneSound(op, u) = t /\ ~Fails(op, u)

Chain == INSTANCE UndoHistory_proofs
           WITH Tree <- SoundTrees, Edits <- Exactly, Undone <- UndoneSound, Raises <- Fails

-----------------------------------------------------------------------------
\* The inductive invariant.

\* The client has used the log as it must be used, and no edit was made that the
\* code does not take back.
Kept == intact /\ strayed \subseteq {"having again"}

Todo == Range(agenda)

\* The references that the calls of a set take out of the tree.
Taken(calls) ==
  {r \in Ref : \E c \in calls : \/ c.call = "drop" /\ r \in c.arg
                                \/ c.call = "remove_node" /\ r \in c.arg.refs}
Leaving(calls) == {r \in Ref : \E c \in calls : c.call = "remove_node" /\ r \in c.arg.refs}

\* What a call has yet to take away is still there when its turn comes, and what
\* refers to a variable has been taken away, or will be, when it is undefined.
Fits(c, t, calls) ==
  /\ c.call = "undefine" => c.arg \in t.defined_vars /\ References(t, c.arg) \subseteq Taken(calls)
  /\ c.call = "remove_node" => c.arg \in t.where
  /\ c.call = "remove_sort_term" => c.arg \in Range(t.orderby)
  /\ c.call = "remove_group_term" => c.arg \in Range(t.groupby)

AgendaInv ==
  /\ agenda \in Seq(Call) /\ IsInjective(agenda)
  /\ agenda # <<>> => Log!Idle
  /\ \A c \in Todo : Fits(c, tree, Todo)
  /\ \A c \in Todo : c.call = "drop" =>
       c = Head(agenda) /\ \A d \in Todo \ {c} : d.call = "undefine"

\* Only the references of relations that are about to leave may be of a variable
\* that is undefined.
TreeInv ==
  Log!Idle =>
    /\ \A r \in InTree(tree) \ Leaving(Todo) : VarOf[r] \in tree.defined_vars
    /\ strayed = {} => tree.references = InTree(tree)

\* The trees that recover() may give back.
Good(t) == VarsDefined(t) /\ (strayed = {} => t.references = InTree(t))

SavedInv == \A i \in DOMAIN saved : Good(saved[i])

TargetInv == target # NoTree => Good(target)

ChainInv == Chain!HTypeOK /\ Chain!LogInv

SelectInv == Kept => ChainInv /\ AgendaInv

VarsInv == Kept => TreeInv /\ SavedInv /\ TargetInv

-----------------------------------------------------------------------------
\* The chain.

\* The chain meets the assumptions of the undo log.
LEMMA ChainAssumptions ==
  /\ Chain!BoundsAssumption
  /\ Chain!NoTreeAssumption
  /\ Chain!EditsAreUndoable
  /\ Chain!UndoneIsATree
<1>1. Chain!BoundsAssumption /\ Chain!NoTreeAssumption
  BY BoundsAssumption, NoTreeAssumption
     DEF Chain!BoundsAssumption, Chain!NoTreeAssumption, SoundTrees
<1>2. Chain!EditsAreUndoable
  BY DEF Chain!EditsAreUndoable, Exactly
<1>3. Chain!UndoneIsATree
  BY DEF Chain!UndoneIsATree, UndoneSound
<1> QED BY <1>1, <1>2, <1>3

\* A good edit is an edit of the chain.
LEMMA ChainEdit ==
  ASSUME tree \in SoundTrees, NEW u, NEW op, GoodEdit(tree, op, u), Log!HChange(u, op)
  PROVE  Chain!HEdit
<1>1. u \in SoundTrees /\ op \in Op /\ Exactly(tree, op, u)
  BY DEF GoodEdit, Exactly, UndoneSound, Fails
<1>2. Chain!HChange(u, op)
  BY DEF Log!HChange, Log!Change, Log!ShouldRegisterOp, Log!AddOperation, Log!Idle, Log!mgr,
         Chain!HChange, Chain!Change, Chain!ShouldRegisterOp, Chain!AddOperation, Chain!Idle,
         Chain!mgr
<1> QED BY <1>1, <1>2 DEF Chain!HEdit

\* While a recover() runs, the operation to be undone does not fail.
LEMMA HeadIsUndone ==
  ASSUME ChainInv, intact, remaining > 0
  PROVE  /\ Len(op_list) > 0
         /\ ~Fails(Head(op_list), tree)
         /\ UndoneSound(Head(op_list), tree) = Undone(Head(op_list), tree)
<1> USE ChainAssumptions
<1>1. Len(op_list) > 0 /\ ~Fails(Head(op_list), tree)
  BY Chain!HeadUndoes DEF ChainInv
<1> QED BY <1>1 DEF Fails, UndoneSound

\* The manager does to the chain what it does to the log.
LEMMA ChainManager ==
  ASSUME ChainInv, intact, Log!HManager
  PROVE  Chain!HManager /\ ~Log!HUndoRaises
<1> USE DEF Log!Idle, Log!mgr, Chain!Idle, Chain!mgr
<1>1. CASE Log!HSaveState
  BY <1>1 DEF Chain!HManager, Log!HSaveState, Log!SaveState, Chain!HSaveState, Chain!SaveState,
              Log!HUndoRaises, Log!UndoRaises
<1>2. CASE Log!HRecover
  BY <1>2 DEF Chain!HManager,
       Log!HRecover, Log!Recover, Log!Overshoots, Log!LastStateIndex, Log!RecoverCount, Log!Last, Log!Front,
       Chain!HRecover, Chain!Recover, Chain!Overshoots, Chain!LastStateIndex, Chain!RecoverCount,
       Chain!Last, Chain!Front, Log!HUndoRaises, Log!UndoRaises
<1>3. CASE Log!HRecoverRefused
  BY <1>3 DEF Chain!HManager, Log!HRecoverRefused, Log!RecoverRefused,
       Chain!HRecoverRefused, Chain!RecoverRefused, Log!HUndoRaises, Log!UndoRaises
<1>4. CASE Log!HUndo
  <2>1. remaining > 0
    BY <1>4 DEF Log!HUndo, Log!Undo
  <2>2. ~Fails(Head(op_list), tree) /\ UndoneSound(Head(op_list), tree) = Undone(Head(op_list), tree)
    BY <2>1, HeadIsUndone
  <2>3. Chain!HUndo
    BY <1>4, <2>2 DEF Log!HUndo, Log!Undo, Chain!HUndo, Chain!Undo
  <2>4. ~Log!HUndoRaises
    BY <2>2 DEF Fails, Log!HUndoRaises, Log!UndoRaises
  <2> QED BY <2>3, <2>4 DEF Chain!HManager
<1>5. CASE Log!HUndoRaises
  <2>1. remaining > 0 /\ Raises(Head(op_list), tree)
    BY <1>5 DEF Log!HUndoRaises, Log!UndoRaises
  <2> QED BY <2>1, HeadIsUndone DEF Fails
<1>6. CASE Log!HFlush
  BY <1>6 DEF Chain!HManager, Log!HFlush, Log!Flush, Chain!HFlush, Chain!Flush,
              Log!HUndoRaises, Log!UndoRaises
<1> QED BY <1>1, <1>2, <1>3, <1>4, <1>5, <1>6 DEF Log!HManager

\* A step of the chain keeps its invariant.
LEMMA ChainStep ==
  ASSUME ChainInv, [Chain!HNext]_(Chain!hvars)
  PROVE  ChainInv'
<1> USE ChainAssumptions
<1>1. Chain!LengthsAgree
  BY DEF ChainInv, Chain!LogInv
<1> QED BY <1>1, Chain!TypeStep, Chain!LogStep DEF ChainInv

\* The chain starts with a parsed tree.
LEMMA InitialChain ==
  ASSUME Init, Kept
  PROVE  ChainInv
<1> USE ChainAssumptions
<1>1. tree \in SoundTrees
  <2>1. tree \in Tree /\ Sound(tree)
    BY ParsedAssumption DEF Init
  <2>2. ~HasEquivalents(tree.groupby)
    BY DEF Init, Kept
  <2> QED BY <2>1, <2>2 DEF SoundTrees
<1>2. Chain!HInit
  BY <1>1 DEF Init, Log!MgrInit, Log!HistoryInit, Chain!HInit, Chain!Init, Chain!MgrInit,
              Chain!HistoryInit
<1> QED BY <1>2, Chain!LogInit DEF ChainInv

\* What the chain says of the trees, without its names.
LEMMA ChainFacts ==
  ASSUME ChainInv
  PROVE  /\ tree \in SoundTrees
         /\ saved \in Seq(SoundTrees) /\ Len(saved) = Len(state_stack)
         /\ (intact /\ Log!Idle /\ target # NoTree) => tree = target
         /\ (intact /\ remaining > 0) => target # NoTree
         /\ remaining \in Nat
<1> USE ChainAssumptions
<1>1. tree \in SoundTrees /\ saved \in Seq(SoundTrees) /\ remaining \in Nat
  BY LenProperties DEF ChainInv, Chain!HTypeOK, Chain!TypeOK
<1>2. Len(saved) = Len(state_stack) /\ ((intact /\ remaining > 0) => target # NoTree)
  BY DEF ChainInv, Chain!LogInv, Chain!LengthsAgree, Chain!TargetIsAhead
<1>3. (intact /\ Log!Idle /\ target # NoTree) => tree = target
  BY Chain!ChainRestores DEF ChainInv, Chain!RecoverRestores, Chain!Idle, Log!Idle
<1> QED BY <1>1, <1>2, <1>3

-----------------------------------------------------------------------------
\* The agenda of a method.

\* The calls that remain when the next one is made.
LEMMA TailOfAgenda ==
  ASSUME NEW S, NEW s \in Seq(S), IsInjective(s), s # <<>>
  PROVE  /\ Head(s) \in Range(s)
         /\ Tail(s) \in Seq(S) /\ IsInjective(Tail(s))
         /\ Range(Tail(s)) = Range(s) \ {Head(s)}
<1>1. /\ Len(s) \in Nat \ {0} /\ Head(s) = s[1]
      /\ Tail(s) \in Seq(S) /\ Len(Tail(s)) = Len(s) - 1
      /\ \A i \in 1 .. Len(s) - 1 : Tail(s)[i] = s[i + 1]
  BY EmptySeq, LenProperties, HeadTailProperties
<1>2. \A i, j \in 1 .. Len(s) : s[i] = s[j] => i = j
  BY ListRange
<1> DEFINE t == Tail(s)
<1>4. t \in Seq(S) /\ Len(t) = Len(s) - 1 /\ \A i \in 1 .. Len(s) - 1 : t[i] = s[i + 1]
  BY <1>1
<1> HIDE DEF t
<1>3. Range(s) = {s[i] : i \in 1 .. Len(s)} /\ Range(t) = {t[i] : i \in 1 .. Len(s) - 1}
  <2>1. Range(t) = {t[i] : i \in 1 .. Len(t)}
    BY <1>4, ListRange
  <2> QED BY <1>4, <2>1, ListRange
<1>5. IsInjective(t)
  <2> SUFFICES ASSUME NEW i \in 1 .. Len(s) - 1, NEW j \in 1 .. Len(s) - 1, t[i] = t[j]
               PROVE  i = j
    BY <1>4, ListRange
  <2>1. i + 1 \in 1 .. Len(s) /\ j + 1 \in 1 .. Len(s) /\ s[i + 1] = s[j + 1]
    BY <1>1, <1>4
  <2> QED BY <1>2, <2>1
<1>6. ASSUME NEW i \in 1 .. Len(s) - 1
      PROVE  t[i] \in Range(s) /\ t[i] # Head(s)
  <2>1. i + 1 \in 1 .. Len(s) /\ 1 \in 1 .. Len(s) /\ i + 1 # 1
    BY <1>1
  <2> QED BY <1>1, <1>2, <1>3, <1>4, <2>1
<1>7. ASSUME NEW j \in 1 .. Len(s), s[j] # Head(s)
      PROVE  s[j] \in Range(t)
  <2>1. j - 1 \in 1 .. Len(s) - 1 /\ (j - 1) + 1 = j
    BY <1>1, <1>7
  <2>2. t[j - 1] = s[j]
    BY <1>4, <2>1
  <2> QED BY <1>3, <2>1, <2>2
<1>8. Range(t) = Range(s) \ {Head(s)}
  <2>1. Range(t) \subseteq Range(s) \ {Head(s)}
    BY <1>3, <1>6
  <2>2. Range(s) \ {Head(s)} \subseteq Range(t)
    BY <1>3, <1>7
  <2> QED BY <2>1, <2>2
<1>9. Head(s) \in Range(s)
  BY <1>1, <1>3
<1> QED BY <1>4, <1>5, <1>8, <1>9 DEF t

\* The first call of an agenda gives way to another one.
LEMMA HeadReplaced ==
  ASSUME NEW S, NEW s \in Seq(S), IsInjective(s), NEW c \in S \ Range(s),
         NEW t \in Seq(S), Len(t) = Len(s), Len(s) > 0, t[1] = c,
         \A i \in 1 .. Len(s) : i # 1 => t[i] = s[i]
  PROVE  /\ IsInjective(t) /\ Head(t) = c
         /\ Range(t) = (Range(s) \ {Head(s)}) \cup {c}
<1>1. Len(s) \in Nat \ {0} /\ Head(s) = s[1] /\ 1 \in 1 .. Len(s)
  BY LenProperties
<1>3. \A i, j \in 1 .. Len(s) : s[i] = s[j] => i = j
  BY ListRange
<1>4. Range(s) = {s[i] : i \in 1 .. Len(s)}
  BY ListRange
<1>5. Range(t) = {t[i] : i \in 1 .. Len(s)}
  BY ListRange
<1>6. IsInjective(t)
  <2> SUFFICES ASSUME NEW i \in 1 .. Len(s), NEW j \in 1 .. Len(s), t[i] = t[j]
               PROVE  i = j
    BY ListRange
  <2> QED BY <1>1, <1>3, <1>4
<1>7. Head(t) = c
  BY <1>1
<1>8. Range(t) = (Range(s) \ {Head(s)}) \cup {c}
  BY <1>1, <1>3, <1>4, <1>5
<1> QED BY <1>6, <1>7, <1>8

\* The calls of one kind, with arguments that are not repeated.
LEMMA CallsOf ==
  ASSUME NEW S, NEW s \in Seq(S), IsInjective(s), NEW name,
         \A a \in Range(s) : [call |-> name, arg |-> a] \in Call
  PROVE  /\ Calls(name, s) \in Seq(Call) /\ IsInjective(Calls(name, s))
         /\ Range(Calls(name, s)) = {[call |-> name, arg |-> a] : a \in Range(s)}
<1> DEFINE c == Calls(name, s)
<1>1. Len(s) \in Nat /\ DOMAIN s = 1 .. Len(s)
  BY LenProperties
<1>2. c = [i \in 1 .. Len(s) |-> [call |-> name, arg |-> s[i]]]
  BY <1>1 DEF Calls
<1>3. \A i \in 1 .. Len(s) : s[i] \in Range(s)
  BY ListRange
<1>4. c \in Seq(Call) /\ Len(c) = Len(s) /\ \A i \in 1 .. Len(s) : c[i] = [call |-> name, arg |-> s[i]]
  BY <1>1, <1>2, <1>3
<1> HIDE DEF c
<1>5. Range(c) = {c[i] : i \in 1 .. Len(s)} /\ Range(s) = {s[i] : i \in 1 .. Len(s)}
  BY <1>4, ListRange
<1>6. \A i, j \in 1 .. Len(s) : s[i] = s[j] => i = j
  BY ListRange
<1>7. IsInjective(c)
  <2> SUFFICES ASSUME NEW i \in 1 .. Len(s), NEW j \in 1 .. Len(s), c[i] = c[j]
               PROVE  i = j
    BY <1>4, ListRange
  <2>1. c[i] = [call |-> name, arg |-> s[i]] /\ c[j] = [call |-> name, arg |-> s[j]]
    BY <1>4
  <2>2. [call |-> name, arg |-> s[i]].arg = [call |-> name, arg |-> s[j]].arg
    BY <2>1
  <2>3. s[i] = s[j]
    BY <2>2
  <2> QED BY <1>6, <2>3
<1>8. Range(c) = {[call |-> name, arg |-> a] : a \in Range(s)}
  <2>1. ASSUME NEW i \in 1 .. Len(s)
        PROVE  c[i] = [call |-> name, arg |-> s[i]]
    BY <1>4
  <2>2. Range(c) \subseteq {[call |-> name, arg |-> a] : a \in Range(s)}
    BY <1>5, <2>1
  <2>3. ASSUME NEW a \in Range(s)
        PROVE  [call |-> name, arg |-> a] \in Range(c)
    <3>1. PICK i \in 1 .. Len(s) : a = s[i]
      BY <1>5
    <3> QED BY <1>5, <2>1, <3>1
  <2> QED BY <2>2, <2>3
<1> QED BY <1>4, <1>7, <1>8 DEF c

\* One call after others of another kind.
LEMMA CallLast ==
  ASSUME NEW s \in Seq(Call), IsInjective(s), NEW c \in Call \ Range(s)
  PROVE  /\ s \o <<c>> \in Seq(Call) /\ IsInjective(s \o <<c>>)
         /\ Range(s \o <<c>>) = Range(s) \cup {c}
         /\ s \o <<c>> # <<>>
         /\ Head(s \o <<c>>) = IF s = <<>> THEN c ELSE Head(s)
<1> DEFINE m == <<c>>
           t == s \o m
<1>1. m \in Seq(Call) /\ Len(m) = 1 /\ m[1] = c /\ Len(s) \in Nat
  BY LenProperties
<1> HIDE DEF m
<1>2. /\ t \in Seq(Call) /\ Len(t) = Len(s) + 1
      /\ \A i \in 1 .. Len(s) + 1 : t[i] = IF i <= Len(s) THEN s[i] ELSE m[i - Len(s)]
  BY <1>1, ConcatProperties
<1> HIDE DEF t
<1>3. t[Len(s) + 1] = c /\ \A i \in 1 .. Len(s) : t[i] = s[i]
  BY <1>1, <1>2
<1>4. /\ Range(t) = {t[i] : i \in 1 .. Len(s) + 1}
      /\ Range(s) = {s[i] : i \in 1 .. Len(s)}
      /\ \A i, j \in 1 .. Len(s) : s[i] = s[j] => i = j
  BY <1>2, ListRange
<1>5. \A i \in 1 .. Len(s) + 1 : i \in 1 .. Len(s) \/ i = Len(s) + 1
  BY <1>1
<1>6. IsInjective(t)
  <2> SUFFICES ASSUME NEW i \in 1 .. Len(s) + 1, NEW j \in 1 .. Len(s) + 1, t[i] = t[j]
               PROVE  i = j
    BY <1>2, ListRange
  <2> QED BY <1>3, <1>4, <1>5
<1>7. Range(t) = Range(s) \cup {c}
  <2>1. 1 .. Len(s) + 1 = (1 .. Len(s)) \cup {Len(s) + 1}
    BY <1>1
  <2> QED BY <1>3, <1>4, <2>1
<1>8. t # <<>> /\ Head(t) = t[1]
  BY <1>1, <1>2
<1>9. Head(t) = IF s = <<>> THEN c ELSE Head(s)
  <2>1. CASE s = <<>>
    <3>1. Len(s) = 0
      BY <2>1
    <3> QED BY <1>3, <1>8, <2>1, <3>1
  <2>2. CASE s # <<>>
    <3>1. Len(s) > 0 /\ Head(s) = s[1]
      BY <1>1, <2>2, EmptySeq
    <3> QED BY <1>3, <1>8, <2>2, <3>1
  <2> QED BY <2>1, <2>2
<1> QED BY <1>2, <1>6, <1>7, <1>8, <1>9 DEF t, m

-----------------------------------------------------------------------------
\* The methods that make one edit.

\* An edit that recover() takes back, after which recover() may be relied on as
\* much as before.
EditsWell(u, op) ==
  /\ GoodEdit(tree, op, u)
  /\ VarsDefined(tree) => VarsDefined(u)
  /\ (strayed' = {} /\ tree.references = InTree(tree)) => u.references = InTree(u)

\* A new reference is one that nothing holds.
LEMMA NewRefIsNew ==
  ASSUME NEW v, NEW wrapped, Fresh(v, wrapped) # {}
  PROVE  /\ NewRef(v, wrapped) \in Ref /\ VarOf[NewRef(v, wrapped)] = v
         /\ NewRef(v, wrapped) \notin tree.references
<1>1. NewRef(v, wrapped) \in Fresh(v, wrapped)
  BY DEF NewRef
<1> QED BY <1>1 DEF Fresh, Held

\* Adding a reference of a defined variable keeps the variables defined.
LEMMA GainsKeepVars ==
  ASSUME NEW t, NEW u, NEW refs, Gains(t, u, refs), \A r \in refs : VarOf[r] \in t.defined_vars
  PROVE  /\ VarsDefined(t) => VarsDefined(u)
         /\ t.references = InTree(t) => u.references = InTree(u)
  BY DEF Gains, VarsDefined

\* So does taking references out.
LEMMA LosesKeepVars ==
  ASSUME NEW t, NEW u, NEW refs, Loses(t, u, refs)
  PROVE  /\ VarsDefined(t) => VarsDefined(u)
         /\ t.references = InTree(t) => u.references = InTree(u)
  BY DEF Loses, VarsDefined

\* add_selected makes one good edit.
LEMMA AddSelectedEdits ==
  ASSUME tree \in SoundTrees, NEW v, NEW wrapped, NEW first, AddSelected(v, wrapped, first)
  PROVE  \E u, op : EditOnce(u, op) /\ EditsWell(u, op)
<1> DEFINE r  == NewRef(v, wrapped)
           k  == IF first THEN 1 ELSE Len(tree.selection) + 1
           u  == Selected(tree, r, k)
           op == [type |-> "SelectVar", node |-> r]
<1>1. EditOnce(u, op) /\ MayAdd(v, wrapped)
  BY DEF AddSelected
<1>2. r \in Ref \ tree.references /\ VarOf[r] \in tree.defined_vars
  BY <1>1, NewRefIsNew DEF MayAdd
<1>3. k \in 1 .. Len(tree.selection) + 1
  <2>1. tree.selection \in Seq(Ref)
    BY SoundFacts
  <2> QED BY <2>1, LenProperties
<1> HIDE DEF r, k
<1>4. GoodEdit(tree, op, u) /\ Gains(tree, u, {r})
  BY <1>2, <1>3, SelectEdit
<1>5. EditsWell(u, op)
  BY <1>2, <1>4, GainsKeepVars DEF EditsWell
<1> QED BY <1>1, <1>5

\* So does remove_selected.
LEMMA RemoveSelectedEdits ==
  ASSUME tree \in SoundTrees, NEW r, RemoveSelected(r)
  PROVE  \E u, op : EditOnce(u, op) /\ EditsWell(u, op)
<1> DEFINE u  == Unselected(tree, r)
           op == [type |-> "UnselectVar", node |-> r, index |-> IndexOf(tree.selection, r)]
<1>1. EditOnce(u, op) /\ r \in Range(tree.selection)
  BY DEF RemoveSelected
<1>2. GoodEdit(tree, op, u) /\ Loses(tree, u, {r})
  BY <1>1, UnselectEdit
<1>3. EditsWell(u, op)
  BY <1>2, LosesKeepVars DEF EditsWell
<1> QED BY <1>1, <1>3

\* So does add_group_var, unless the term has an equivalent.
LEMMA AddGroupVarEdits ==
  ASSUME tree \in SoundTrees, NEW v, AddGroupVar(v), Kept'
  PROVE  \E u, op : EditOnce(u, op) /\ EditsWell(u, op)
<1> DEFINE r  == NewRef(v, FALSE)
           k  == Len(tree.groupby) + 1
           u  == Grouped(tree, r, k)
           op == [type |-> "AddGroup", node |-> r]
<1>1. EditOnce(u, op) /\ MayAdd(v, FALSE)
  BY DEF AddGroupVar
<1>2. r \in Ref \ tree.references /\ VarOf[r] \in tree.defined_vars
  BY <1>1, NewRefIsNew DEF MayAdd
<1>3. k \in 1 .. Len(tree.groupby) + 1
  <2>1. tree.groupby \in Seq(Ref)
    BY SoundFacts
  <2> QED BY <2>1, LenProperties
<1>4. \A q \in Range(tree.groupby) : ~Equivalent(r, q)
  BY DEF AddGroupVar, Kept
<1> HIDE DEF r, k
<1>5. GoodEdit(tree, op, u) /\ Gains(tree, u, {r})
  BY <1>2, <1>3, <1>4, GroupEdit
<1>6. EditsWell(u, op)
  BY <1>2, <1>5, GainsKeepVars DEF EditsWell
<1> QED BY <1>1, <1>6

\* So do add_sort_var and add_sort_term.
LEMMA AddSortTermEdits ==
  ASSUME tree \in SoundTrees, NEW v, NEW wrapped, AddSortTerm(v, wrapped)
  PROVE  \E u, op : EditOnce(u, op) /\ EditsWell(u, op)
<1> DEFINE r  == NewRef(v, wrapped)
           k  == Len(tree.orderby) + 1
           u  == Sorted(tree, r, k)
           op == [type |-> "AddSort", node |-> r]
<1>1. EditOnce(u, op) /\ MayAdd(v, wrapped)
  BY DEF AddSortTerm
<1>2. r \in Ref \ tree.references /\ VarOf[r] \in tree.defined_vars
  BY <1>1, NewRefIsNew DEF MayAdd
<1>3. k \in 1 .. Len(tree.orderby) + 1
  <2>1. tree.orderby \in Seq(Ref)
    BY SoundFacts
  <2> QED BY <2>1, LenProperties
<1> HIDE DEF r, k
<1>4. GoodEdit(tree, op, u) /\ Gains(tree, u, {r})
  BY <1>2, <1>3, SortEdit
<1>5. EditsWell(u, op)
  BY <1>2, <1>4, GainsKeepVars DEF EditsWell
<1> QED BY <1>1, <1>5

\* So does set_having.
LEMMA SetHavingEdits ==
  ASSUME tree \in SoundTrees, NEW v, SetHaving(v)
  PROVE  \E u, op : EditOnce(u, op) /\ EditsWell(u, op)
<1> DEFINE r  == NewRef(v, TRUE)
           u  == [tree EXCEPT !.having = <<r>>, !.references = @ \cup {r}]
           op == [type |-> "SetHaving", value |-> tree.having]
<1>1. EditOnce(u, op) /\ MayAdd(v, TRUE)
  BY DEF SetHaving
<1>2. r \in Ref \ tree.references /\ VarOf[r] \in tree.defined_vars
  BY <1>1, NewRefIsNew DEF MayAdd
<1>3. tree.having # <<>> => strayed' # {}
  BY DEF SetHaving
<1> HIDE DEF r
<1>4. /\ GoodEdit(tree, op, u)
      /\ InTree(u) \subseteq InTree(tree) \cup {r} /\ u.defined_vars = tree.defined_vars
      /\ tree.having = <<>> => Gains(tree, u, {r})
  BY <1>2, HavingEdit
<1> HIDE DEF u
<1>5. VarsDefined(tree) => VarsDefined(u)
  BY <1>2, <1>4 DEF VarsDefined
<1>6. (strayed' = {} /\ tree.references = InTree(tree)) => u.references = InTree(u)
  BY <1>2, <1>3, <1>4, GainsKeepVars
<1> QED BY <1>1, <1>4, <1>5, <1>6 DEF EditsWell

\* So does add_relation.
LEMMA AddRelationEdits ==
  ASSUME tree \in SoundTrees, NEW v, NEW w, AddRelation(v, w)
  PROVE  \E u, op : EditOnce(u, op) /\ EditsWell(u, op)
<1> DEFINE r == NewRef(v, FALSE)
<1>1. PICK q \in Fresh(w, FALSE) \ {r} :
        LET n == [kind |-> "relation", refs |-> {r, q}]
        IN  EditOnce(Restricted(tree, n), [type |-> "AddNode", node |-> n])
  BY DEF AddRelation
<1>2. /\ r \in Ref /\ r \notin tree.references /\ VarOf[r] \in tree.defined_vars
      /\ q \in Ref /\ q \notin tree.references /\ VarOf[q] \in tree.defined_vars
  BY NewRefIsNew DEF AddRelation, MayAdd, Fresh, Held
<1> HIDE DEF r
<1> DEFINE n  == [kind |-> "relation", refs |-> {r, q}]
           u  == Restricted(tree, n)
           op == [type |-> "AddNode", node |-> n]
<1>3. EditOnce(u, op)
  BY <1>1
<1>4. /\ n \in Node /\ n.kind = "relation" /\ n.refs # {} /\ n.refs \cap tree.references = {}
      /\ \A p \in n.refs : VarOf[p] \in tree.defined_vars
  BY <1>2 DEF Node
<1> HIDE DEF n
<1>5. GoodEdit(tree, op, u) /\ Gains(tree, u, n.refs)
  BY <1>4, RestrictEdit
<1>6. EditsWell(u, op)
  BY <1>4, <1>5, GainsKeepVars DEF EditsWell
<1> QED BY <1>3, <1>6

\* So does make_variable.
LEMMA MakeVariableEdits ==
  ASSUME tree \in SoundTrees, MakeVariable
  PROVE  \E u, op : EditOnce(u, op) /\ EditsWell(u, op)
<1>1. PICK v \in Var :
        /\ v \notin tree.defined_vars
        /\ \A r \in Held : VarOf[r] # v
        /\ EditOnce([tree EXCEPT !.defined_vars = @ \cup {v}], [type |-> "MakeVar", node |-> v])
  BY DEF MakeVariable
<1> DEFINE u  == [tree EXCEPT !.defined_vars = @ \cup {v}]
           op == [type |-> "MakeVar", node |-> v]
<1>2. References(tree, v) = {}
  BY <1>1 DEF References, Held
<1>3. GoodEdit(tree, op, u)
  BY <1>1, <1>2, MakeVarEdit
<1>4. InTree(u) = InTree(tree) /\ u.references = tree.references
      /\ u.defined_vars = tree.defined_vars \cup {v}
  BY SoundFacts DEF InTree
<1> HIDE DEF u
<1>5. EditsWell(u, op)
  BY <1>3, <1>4 DEF EditsWell, VarsDefined
<1> QED BY <1>1, <1>5 DEF u

-----------------------------------------------------------------------------
\* The methods that go through calls.

\* Between two calls of a client, nothing is left to take away.
LEMMA NothingLeaves ==
  ASSUME agenda = <<>>
  PROVE  Todo = {} /\ Taken(Todo) = {} /\ Leaving(Todo) = {}
  BY DEF Todo, Range, Taken, Leaving

\* When no method runs, nothing is to leave the tree.
LEMMA NoAgenda ==
  ASSUME agenda' = <<>>
  PROVE  AgendaInv' /\ Leaving(Todo)' = {}
<1>1. Todo' = {}
  BY DEF Todo, Range
<1>2. agenda' \in Seq(Call) /\ IsInjective(agenda')
  BY DEF IsInjective
<1>3. Leaving(Todo)' = {}
  BY <1>1 DEF Leaving
<1> QED BY <1>1, <1>2, <1>3 DEF AgendaInv

\* The trees of the pending save_state(), and of the recover() that has just
\* ended, are as good as before when the step leaves them alone.
LEMMA SavedStay ==
  ASSUME SavedInv, TargetInv, strayed \subseteq strayed',
         saved' = saved, target' \in {target, NoTree}
  PROVE  SavedInv' /\ TargetInv'
  BY DEF SavedInv, TargetInv, Good

\* A method that has begun, with calls that fit.
LEMMA BeginStep ==
  ASSUME SelectInv, VarsInv, Kept, NEW calls, Begin(calls), strayed' = strayed,
         calls \in Seq(Call), IsInjective(calls),
         \A c \in Range(calls) : Fits(c, tree, Range(calls)),
         \A c \in Range(calls) : c.call = "drop" =>
           c = Head(calls) /\ \A d \in Range(calls) \ {c} : d.call = "undefine"
  PROVE  SelectInv' /\ VarsInv'
<1>1. /\ agenda = <<>> /\ Log!Idle /\ agenda' = calls
      /\ UNCHANGED <<tree, op_list, state_stack, memorizing, undoing, remaining,
                     saved, target, trail, intact>>
  BY DEF Begin, log
<1>2. ChainInv'
  <2>1. [Chain!HNext]_(Chain!hvars)
    BY <1>1 DEF Chain!hvars, Chain!vars, Chain!mgr, Chain!history
  <2> QED BY <2>1, ChainStep DEF SelectInv
<1>3. AgendaInv'
  BY <1>1 DEF AgendaInv, Todo, Log!Idle
<1>4. TreeInv'
  <2>1. \A r \in InTree(tree) : VarOf[r] \in tree.defined_vars
    BY <1>1, NothingLeaves DEF VarsInv, TreeInv
  <2> QED BY <1>1, <2>1 DEF VarsInv, TreeInv
<1>5. SavedInv' /\ TargetInv'
  BY <1>1, SavedStay DEF VarsInv
<1> QED BY <1>2, <1>3, <1>4, <1>5 DEF SelectInv, VarsInv

\* remove_node of a relation begins.
LEMMA RemoveNodeBegins ==
  ASSUME SelectInv, VarsInv, Kept, NEW n, NEW undefine \in BOOLEAN, RemoveNode(n, undefine)
  PROVE  SelectInv' /\ VarsInv'
<1> DEFINE unused == {v \in tree.defined_vars :
                        References(tree, v) # {} /\ References(tree, v) \subseteq n.refs}
           S      == IF undefine THEN unused ELSE {}
<1>1. n \in tree.where /\ strayed' = strayed
  BY DEF RemoveNode
<1>2. PICK s \in SetToSeqs(S) : Begin(Calls("undefine", s) \o Calls("remove_node", <<n>>))
  BY DEF RemoveNode
<1>3. tree \in SoundTrees /\ n \in Node /\ n.refs \subseteq Ref /\ S \subseteq tree.defined_vars
      /\ tree.defined_vars \subseteq Var
  <2>1. tree \in SoundTrees
    BY ChainFacts DEF SelectInv
  <2>2. n \in Node
    BY <1>1, <2>1, SoundFacts
  <2>3. tree.defined_vars \subseteq Var
    BY <2>1, SoundFacts
  <2> QED BY <2>1, <2>2, <2>3 DEF Node
<1>4. \A v \in S : v \in tree.defined_vars /\ References(tree, v) \subseteq n.refs
  OBVIOUS
<1> HIDE DEF S
<1>5. s \in Seq(Var) /\ IsInjective(s) /\ Range(s) \subseteq S
  <2>1. IsFiniteSet(S)
    BY <1>3, FiniteAssumption, FS_Subset
  <2>2. Cardinality(S) \in Nat
    BY <2>1, FS_CardinalityType
  <2>3. s \in [1 .. Cardinality(S) -> S] /\ \A i, j \in 1 .. Cardinality(S) : i # j => s[i] # s[j]
    BY DEF SetToSeqs
  <2>4. s \in Seq(S)
    BY <2>2, <2>3
  <2>5. IsInjective(s) /\ Range(s) \subseteq S
    BY <2>3 DEF IsInjective, Range
  <2> QED BY <1>3, <2>3, <2>2, <2>5
<1> DEFINE a  == Calls("undefine", s)
           b  == Calls("remove_node", <<n>>)
           rm == [call |-> "remove_node", arg |-> n]
<1>6. a \in Seq(Call) /\ IsInjective(a) /\ Range(a) = {[call |-> "undefine", arg |-> v] : v \in Range(s)}
  <2>1. \A v \in Range(s) : [call |-> "undefine", arg |-> v] \in Call
    BY <1>3, <1>4, <1>5 DEF Call
  <2> QED BY <1>5, <2>1, CallsOf
<1>7. b = <<rm>> /\ rm \in Call
  BY <1>3 DEF Calls, Call
<1> HIDE DEF a
<1>8. rm \notin Range(a)
  BY <1>6
<1> DEFINE calls == a \o <<rm>>
<1>9. /\ calls \in Seq(Call) /\ IsInjective(calls)
      /\ Range(calls) = Range(a) \cup {rm}
  BY <1>6, <1>7, <1>8, CallLast
<1>10. Begin(calls)
  BY <1>2, <1>7 DEF a
<1> HIDE DEF calls
<1>11. n.refs \subseteq Taken(Range(calls))
  BY <1>3, <1>9 DEF Taken
<1>12. \A c \in Range(calls) : Fits(c, tree, Range(calls)) /\ c.call # "drop"
  <2>1. Fits(rm, tree, Range(calls)) /\ rm.call # "drop"
    BY <1>1 DEF Fits
  <2>2. ASSUME NEW v \in Range(s)
        PROVE  LET c == [call |-> "undefine", arg |-> v]
               IN  Fits(c, tree, Range(calls)) /\ c.call # "drop"
    BY <1>4, <1>5, <1>11 DEF Fits
  <2> QED BY <1>6, <1>9, <2>1, <2>2
<1> QED BY <1>1, <1>9, <1>10, <1>12, BeginStep

\* The methods that remove terms begin.
LEMMA TermsBegin ==
  ASSUME SelectInv, VarsInv, Kept, strayed' = strayed,
         NEW name \in {"remove_sort_term", "remove_group_term"},
         NEW s \in Seq(Ref), IsInjective(s),
         name = "remove_sort_term" => Range(s) \subseteq Range(tree.orderby),
         name = "remove_group_term" => Range(s) \subseteq Range(tree.groupby),
         Begin(Calls(name, s))
  PROVE  SelectInv' /\ VarsInv'
<1> DEFINE calls == Calls(name, s)
<1>1. /\ calls \in Seq(Call) /\ IsInjective(calls)
      /\ Range(calls) = {[call |-> name, arg |-> r] : r \in Range(s)}
  <2>1. \A r \in Range(s) : [call |-> name, arg |-> r] \in Call
    BY ListRange DEF Call
  <2> QED BY <2>1, CallsOf
<1> HIDE DEF calls
<1>2. \A c \in Range(calls) : Fits(c, tree, Range(calls)) /\ c.call # "drop"
  BY <1>1 DEF Fits
<1> QED BY <1>1, <1>2, BeginStep DEF calls

\* undefine_variable begins.
LEMMA UndefineVariableBegins ==
  ASSUME SelectInv, VarsInv, Kept, NEW v, UndefineVariable(v)
  PROVE  SelectInv' /\ VarsInv'
<1> DEFINE refs == References(tree, v)
           drop == [call |-> "drop", arg |-> refs]
           last == [call |-> "undefine", arg |-> v]
           a    == IF refs = {} THEN <<>> ELSE Calls("drop", <<refs>>)
           calls == a \o <<last>>
<1>1. v \in tree.defined_vars /\ strayed' = strayed /\ Begin(a \o Calls("undefine", <<v>>))
  BY DEF UndefineVariable
<1>2. Calls("undefine", <<v>>) = <<last>> /\ Calls("drop", <<refs>>) = <<drop>>
  BY DEF Calls
<1>3. tree \in SoundTrees /\ v \in Var /\ refs \subseteq Ref
  BY <1>1, ChainFacts, SoundFacts DEF SelectInv, References
<1>4. last \in Call /\ drop \in Call
  BY <1>3 DEF Call
<1> HIDE DEF refs
<1>5. a \in Seq(Call) /\ IsInjective(a) /\ Range(a) = IF refs = {} THEN {} ELSE {drop}
  <2>1. CASE refs = {}
    <3>1. a = <<>>
      BY <2>1
    <3>2. <<>> \in Seq(Call) /\ IsInjective(<<>>) /\ Range(<<>>) = {}
      BY DEF IsInjective, Range
    <3> QED BY <2>1, <3>1, <3>2
  <2>2. CASE refs # {}
    <3>1. a = <<drop>>
      BY <1>2, <2>2
    <3> HIDE DEF drop
    <3>2. <<drop>> \in Seq(Call) /\ IsInjective(<<drop>>) /\ Range(<<drop>>) = {drop}
      BY <1>4 DEF IsInjective, Range
    <3> QED BY <2>2, <3>1, <3>2
  <2> QED BY <2>1, <2>2
<1>6. last \notin Range(a)
  BY <1>5
<1>7. a = <<>> <=> refs = {}
  BY <1>2
<1>8. refs # {} => Head(a) = drop
  BY <1>2
<1> HIDE DEF a
<1>9. /\ calls \in Seq(Call) /\ IsInjective(calls)
      /\ Range(calls) = Range(a) \cup {last}
      /\ Head(calls) = IF a = <<>> THEN last ELSE Head(a)
  BY <1>4, <1>5, <1>6, CallLast
<1>10. Begin(calls)
  BY <1>1, <1>2 DEF a
<1> HIDE DEF calls
<1>11. refs \subseteq Taken(Range(calls))
  BY <1>3, <1>5, <1>9 DEF Taken
<1>12. \A c \in Range(calls) : Fits(c, tree, Range(calls))
  <2>1. Fits(last, tree, Range(calls))
    BY <1>1, <1>11 DEF Fits, refs
  <2>2. Fits(drop, tree, Range(calls))
    BY DEF Fits
  <2> QED BY <1>5, <1>9, <2>1, <2>2
<1>13. \A c \in Range(calls) : c.call = "drop" =>
         c = Head(calls) /\ \A d \in Range(calls) \ {c} : d.call = "undefine"
  BY <1>5, <1>7, <1>8, <1>9
<1> QED BY <1>1, <1>9, <1>10, <1>12, <1>13, BeginStep

-----------------------------------------------------------------------------
\* One call of the running method.

\* The calls that remain fit the tree that a call leaves, when it takes away what
\* it was to take away and nothing that another call was to take.
LEMMA OthersFit ==
  ASSUME NEW t, NEW u, NEW refs, NEW calls, NEW rest \in SUBSET calls,
         u.references = t.references \ refs,
         \A r \in Taken(calls) : r \in Taken(rest) \/ r \in refs,
         NEW c \in rest, Fits(c, t, calls),
         c.call = "undefine" => c.arg \in u.defined_vars,
         c.call = "remove_node" => c.arg \in u.where,
         c.call = "remove_sort_term" => c.arg \in Range(u.orderby),
         c.call = "remove_group_term" => c.arg \in Range(u.groupby)
  PROVE  Fits(c, u, rest)
<1>1. c.call = "undefine" => References(u, c.arg) \subseteq Taken(rest)
  <2>1. \A r \in References(u, c.arg) : r \in References(t, c.arg) /\ r \notin refs
    BY DEF References
  <2> QED BY <2>1 DEF Fits
<1> QED BY <1>1 DEF Fits

\* What a call of the agenda does to the tree, and leaves to the others.
CallDoes(c, u, op) ==
  /\ GoodEdit(tree, op, u)
  /\ \A d \in Todo \ {c} : Fits(d, u, Todo \ {c})
  /\ Log!Idle => \A r \in InTree(u) \ Leaving(Todo \ {c}) : VarOf[r] \in u.defined_vars
  /\ tree.references = InTree(tree) => u.references = InTree(u)

\* Two calls of the same kind have not the same argument.
LEMMA OtherArgument ==
  ASSUME NEW c \in Call, NEW d \in Call, c # d, c.call = d.call
  PROVE  c.arg # d.arg
  BY DEF Call

\* The variable that is undefined has lost its references.
LEMMA UndefineCall ==
  ASSUME SelectInv, VarsInv, Kept, NEW c \in Todo, c = Head(agenda), c.call = "undefine"
  PROVE  CallDoes(c, CallEdit(c).tree, CallEdit(c).op)
<1> DEFINE v    == c.arg
           u    == Undefined(tree, v)
           rest == Todo \ {c}
<1>1. /\ tree \in SoundTrees
      /\ \A d \in Todo : Fits(d, tree, Todo)
      /\ \A d \in Todo : d \in Call
      /\ \A d \in Todo : d.call # "drop"
  <2>1. \A d \in Todo : d \in Call
    BY ListRange DEF SelectInv, AgendaInv, Todo
  <2>2. \A d \in Todo : d.call # "drop"
    BY DEF SelectInv, AgendaInv
  <2> QED BY <2>1, <2>2, ChainFacts DEF SelectInv, AgendaInv
<1>2. v \in tree.defined_vars /\ References(tree, v) \subseteq Taken(Todo)
  BY <1>1 DEF Fits
<1>3. CallEdit(c) = [tree |-> u, op |-> [type |-> "UndefineVar", node |-> v, solutions |-> tree.solutions]]
  BY DEF CallEdit
<1>4. GoodEdit(tree, [type |-> "UndefineVar", node |-> v, solutions |-> tree.solutions], u)
  BY <1>1, <1>2, UndefineEdit
<1>5. /\ u.defined_vars = tree.defined_vars \ {v} /\ InTree(u) = InTree(tree)
      /\ u.references = tree.references /\ u.where = tree.where
      /\ u.orderby = tree.orderby /\ u.groupby = tree.groupby
  BY <1>1, SoundFacts DEF Undefined, InTree
<1> HIDE DEF u
<1>6. Taken(Todo) = Taken(rest) /\ Leaving(Todo) = Leaving(rest) /\ Taken(Todo) = Leaving(Todo)
  BY <1>1 DEF Taken, Leaving
<1>7. ASSUME NEW d \in rest
      PROVE  Fits(d, u, rest)
  <2>1. d.call = "undefine" => d.arg # v
    BY <1>1, OtherArgument
  <2>2. Fits(d, tree, Todo)
    BY <1>1
  <2>3. /\ d.call = "undefine" => d.arg \in u.defined_vars
        /\ d.call = "remove_node" => d.arg \in u.where
        /\ d.call = "remove_sort_term" => d.arg \in Range(u.orderby)
        /\ d.call = "remove_group_term" => d.arg \in Range(u.groupby)
    BY <1>5, <2>1, <2>2 DEF Fits
  <2>4. u.references = tree.references \ {}
    BY <1>5
  <2> HIDE DEF rest
  <2>5. rest \in SUBSET Todo /\ d \in rest
    BY DEF rest
  <2>6. \A r \in Taken(Todo) : r \in Taken(rest) \/ r \in {}
    BY <1>6
  <2> QED BY <2>2, <2>3, <2>4, <2>5, <2>6, OthersFit
<1>8. ASSUME NEW r \in InTree(u) \ Leaving(rest), Log!Idle
      PROVE  VarOf[r] \in u.defined_vars
  <2>1. r \in InTree(tree) \ Leaving(Todo)
    BY <1>5, <1>6
  <2>2. VarOf[r] \in tree.defined_vars
    BY <1>8, <2>1 DEF VarsInv, TreeInv
  <2>3. r \in tree.references
    BY <1>1, <2>1, SoundFacts
  <2>4. VarOf[r] # v
    BY <1>2, <1>6, <2>1, <2>3 DEF References
  <2> QED BY <1>5, <2>2, <2>4
<1> QED BY <1>3, <1>4, <1>5, <1>7, <1>8 DEF CallDoes, u

\* A call that takes references away.
LEMMA LosingCall ==
  ASSUME SelectInv, VarsInv, Kept, NEW c \in Todo, c = Head(agenda), c.call # "drop",
         NEW u, NEW op, NEW refs, GoodEdit(tree, op, u), Loses(tree, u, refs),
         \A r \in Taken(Todo) : r \in Taken(Todo \ {c}) \/ r \in refs,
         \A r \in Leaving(Todo) : r \in Leaving(Todo \ {c}) \/ r \in refs,
         \A d \in Todo \ {c} :
           /\ d.call = "remove_node" => d.arg \in u.where
           /\ d.call = "remove_sort_term" => d.arg \in Range(u.orderby)
           /\ d.call = "remove_group_term" => d.arg \in Range(u.groupby)
  PROVE  CallDoes(c, u, op)
<1>1. /\ InTree(u) = InTree(tree) \ refs /\ u.references = tree.references \ refs
      /\ u.defined_vars = tree.defined_vars
  BY DEF Loses
<1> DEFINE rest == Todo \ {c}
<1>2. ASSUME NEW d \in rest
      PROVE  Fits(d, u, rest)
  <2>1. Fits(d, tree, Todo)
    BY DEF SelectInv, AgendaInv
  <2>2. d.call = "undefine" => d.arg \in u.defined_vars
    BY <1>1, <2>1 DEF Fits
  <2>3. /\ d.call = "remove_node" => d.arg \in u.where
        /\ d.call = "remove_sort_term" => d.arg \in Range(u.orderby)
        /\ d.call = "remove_group_term" => d.arg \in Range(u.groupby)
    OBVIOUS
  <2>4. \A r \in Taken(Todo) : r \in Taken(rest) \/ r \in refs
    OBVIOUS
  <2>5. rest \in SUBSET Todo /\ d \in rest
    OBVIOUS
  <2> HIDE DEF rest
  <2> QED BY <1>1, <2>1, <2>2, <2>3, <2>4, <2>5, OthersFit
<1>3. ASSUME NEW r \in InTree(u) \ Leaving(rest), Log!Idle
      PROVE  VarOf[r] \in u.defined_vars
  <2>1. r \in InTree(tree) \ Leaving(Todo)
    BY <1>1
  <2> QED BY <1>1, <1>3, <2>1 DEF VarsInv, TreeInv
<1>4. tree.references = InTree(tree) => u.references = InTree(u)
  BY <1>1
<1> QED BY <1>2, <1>3, <1>4 DEF CallDoes

\* The relation that is removed is still there.
LEMMA RemoveNodeCall ==
  ASSUME SelectInv, VarsInv, Kept, NEW c \in Todo, c = Head(agenda), c.call = "remove_node"
  PROVE  CallDoes(c, CallEdit(c).tree, CallEdit(c).op)
<1> DEFINE n  == c.arg
           u  == Unrestricted(tree, n)
           op == [type |-> "RemoveNode", node |-> n]
<1>1. /\ tree \in SoundTrees
      /\ \A d \in Todo : Fits(d, tree, Todo) /\ d \in Call
  BY ChainFacts, ListRange DEF SelectInv, AgendaInv, Todo
<1>2. n \in tree.where
  BY <1>1 DEF Fits
<1>3. CallEdit(c) = [tree |-> u, op |-> op]
  BY DEF CallEdit
<1>4. GoodEdit(tree, op, u) /\ Loses(tree, u, n.refs)
  BY <1>1, <1>2, UnrestrictEdit
<1>5. u.where = tree.where \ {n} /\ u.orderby = tree.orderby /\ u.groupby = tree.groupby
  BY <1>1, SoundFacts DEF Unrestricted
<1> HIDE DEF u
<1>6. \A d \in Todo \ {c} :
        /\ d.call = "remove_node" => d.arg \in u.where
        /\ d.call = "remove_sort_term" => d.arg \in Range(u.orderby)
        /\ d.call = "remove_group_term" => d.arg \in Range(u.groupby)
  BY <1>1, <1>5, OtherArgument DEF Fits
<1>7. /\ \A r \in Taken(Todo) : r \in Taken(Todo \ {c}) \/ r \in n.refs
      /\ \A r \in Leaving(Todo) : r \in Leaving(Todo \ {c}) \/ r \in n.refs
  BY DEF Taken, Leaving
<1>8. CallDoes(c, u, op)
  BY <1>4, <1>6, <1>7, LosingCall
<1> QED BY <1>3, <1>8

\* So is the ORDERBY term.
LEMMA SortTermCall ==
  ASSUME SelectInv, VarsInv, Kept, NEW c \in Todo, c = Head(agenda), c.call = "remove_sort_term"
  PROVE  CallDoes(c, CallEdit(c).tree, CallEdit(c).op)
<1> DEFINE r  == c.arg
           u  == Unsorted(tree, r)
           op == [type |-> "RemoveSort", node |-> r, index |-> IndexOf(tree.orderby, r)]
<1>1. /\ tree \in SoundTrees
      /\ \A d \in Todo : Fits(d, tree, Todo) /\ d \in Call
  BY ChainFacts, ListRange DEF SelectInv, AgendaInv, Todo
<1>2. r \in Range(tree.orderby)
  BY <1>1 DEF Fits
<1>3. CallEdit(c) = [tree |-> u, op |-> op]
  BY DEF CallEdit
<1>4. GoodEdit(tree, op, u) /\ Loses(tree, u, {r})
  BY <1>1, <1>2, UnsortEdit
<1>5. /\ u.where = tree.where /\ u.groupby = tree.groupby
      /\ Range(u.orderby) = Range(tree.orderby) \ {r}
  <2>1. u.where = tree.where /\ u.groupby = tree.groupby /\ u.orderby = RemoveFirst(tree.orderby, r)
    BY <1>1, SoundFacts DEF Unsorted
  <2>2. tree.orderby \in Seq(Ref) /\ IsInjective(tree.orderby)
    BY <1>1, SoundFacts
  <2>3. Range(RemoveFirst(tree.orderby, r)) = Range(tree.orderby) \ {r}
    BY <1>2, <2>2, RemoveThenInsert
  <2> QED BY <2>1, <2>3
<1> HIDE DEF u
<1>6. \A d \in Todo \ {c} :
        /\ d.call = "remove_node" => d.arg \in u.where
        /\ d.call = "remove_sort_term" => d.arg \in Range(u.orderby)
        /\ d.call = "remove_group_term" => d.arg \in Range(u.groupby)
  BY <1>1, <1>5, OtherArgument DEF Fits
<1>7. /\ \A q \in Taken(Todo) : q \in Taken(Todo \ {c}) \/ q \in {r}
      /\ \A q \in Leaving(Todo) : q \in Leaving(Todo \ {c}) \/ q \in {r}
  BY DEF Taken, Leaving
<1>8. CallDoes(c, u, op)
  BY <1>4, <1>6, <1>7, LosingCall
<1> QED BY <1>3, <1>8

\* So is the GROUPBY term.
LEMMA GroupTermCall ==
  ASSUME SelectInv, VarsInv, Kept, NEW c \in Todo, c = Head(agenda), c.call = "remove_group_term"
  PROVE  CallDoes(c, CallEdit(c).tree, CallEdit(c).op)
<1> DEFINE r  == c.arg
           u  == Ungrouped(tree, r)
           op == [type |-> "RemoveGroup", node |-> r, index |-> IndexOf(tree.groupby, r)]
<1>1. /\ tree \in SoundTrees
      /\ \A d \in Todo : Fits(d, tree, Todo) /\ d \in Call
  BY ChainFacts, ListRange DEF SelectInv, AgendaInv, Todo
<1>2. r \in Range(tree.groupby)
  BY <1>1 DEF Fits
<1>3. CallEdit(c) = [tree |-> u, op |-> op]
  BY DEF CallEdit
<1>4. GoodEdit(tree, op, u) /\ Loses(tree, u, {r})
  BY <1>1, <1>2, UngroupEdit
<1>5. /\ u.where = tree.where /\ u.orderby = tree.orderby
      /\ Range(u.groupby) = Range(tree.groupby) \ {r}
  <2>1. tree.groupby \in Seq(Ref) /\ IsInjective(tree.groupby) /\ ~HasEquivalents(tree.groupby)
    BY <1>1, SoundFacts
  <2>2. RemoveFirstMatch(tree.groupby, LAMBDA q : Equivalent(r, q)) = RemoveFirst(tree.groupby, r)
    BY <1>2, <2>1, FirstEquivalentIsIt
  <2>3. /\ u.where = tree.where /\ u.orderby = tree.orderby
        /\ u.groupby = RemoveFirst(tree.groupby, r)
    BY <1>1, <2>2, SoundFacts DEF Ungrouped
  <2>4. Range(RemoveFirst(tree.groupby, r)) = Range(tree.groupby) \ {r}
    BY <1>2, <2>1, RemoveThenInsert
  <2> QED BY <2>3, <2>4
<1> HIDE DEF u
<1>6. \A d \in Todo \ {c} :
        /\ d.call = "remove_node" => d.arg \in u.where
        /\ d.call = "remove_sort_term" => d.arg \in Range(u.orderby)
        /\ d.call = "remove_group_term" => d.arg \in Range(u.groupby)
  BY <1>1, <1>5, OtherArgument DEF Fits
<1>7. /\ \A q \in Taken(Todo) : q \in Taken(Todo \ {c}) \/ q \in {r}
      /\ \A q \in Leaving(Todo) : q \in Leaving(Todo \ {c}) \/ q \in {r}
  BY DEF Taken, Leaving
<1>8. CallDoes(c, u, op)
  BY <1>4, <1>6, <1>7, LosingCall
<1> QED BY <1>3, <1>8

-----------------------------------------------------------------------------
\* The inductive invariant holds after every step that keeps the log intact and
\* makes no edit that the code does not take back.

\* What every recorded edit does to the log.
LEMMA ChangeFacts ==
  ASSUME NEW u, NEW op, Log!HChange(u, op)
  PROVE  /\ Log!Idle /\ Log!Idle' /\ tree' = u
         /\ saved' = saved /\ target' = NoTree /\ intact' = intact
  BY DEF Log!HChange, Log!Change, Log!AddOperation, Log!mgr, Log!Idle

\* A good edit keeps the chain.
LEMMA ChangeKeepsChain ==
  ASSUME ChainInv, NEW u, NEW op, Log!HChange(u, op), GoodEdit(tree, op, u)
  PROVE  ChainInv'
<1>1. Chain!HEdit
  BY ChainFacts, ChainEdit
<1>2. [Chain!HNext]_(Chain!hvars)
  BY <1>1 DEF Chain!HNext
<1> QED BY <1>2, ChainStep

\* A method that makes one good edit keeps the invariant.
LEMMA EditOnceStep ==
  ASSUME SelectInv, VarsInv, Kept, strayed \subseteq strayed',
         NEW u, NEW op, EditOnce(u, op), EditsWell(u, op)
  PROVE  SelectInv' /\ VarsInv'
<1>1. agenda = <<>> /\ agenda' = <<>> /\ Log!HChange(u, op)
  BY DEF EditOnce
<1>2. GoodEdit(tree, op, u)
  BY DEF EditsWell
<1>3. ChainInv'
  BY <1>1, <1>2, ChangeKeepsChain DEF SelectInv
<1>4. AgendaInv' /\ Leaving(Todo)' = {}
  BY <1>1, NoAgenda
<1>5. TreeInv'
  <2>1. /\ \A r \in InTree(tree) : VarOf[r] \in tree.defined_vars
        /\ strayed = {} => tree.references = InTree(tree)
    BY <1>1, ChangeFacts, NothingLeaves DEF VarsInv, TreeInv
  <2>2. VarsDefined(u)
    BY <2>1 DEF EditsWell, VarsDefined
  <2>3. strayed' = {} => u.references = InTree(u)
    BY <2>1 DEF EditsWell
  <2>4. \A r \in InTree(u) : VarOf[r] \in u.defined_vars
    BY <2>2 DEF VarsDefined
  <2>5. tree' = u
    BY <1>1, ChangeFacts
  <2> QED BY <2>3, <2>4, <2>5 DEF TreeInv
<1>6. SavedInv' /\ TargetInv'
  <2>1. saved' = saved /\ target' = NoTree
    BY <1>1, ChangeFacts
  <2> QED BY <2>1, SavedStay DEF VarsInv
<1> QED BY <1>3, <1>4, <1>5, <1>6 DEF SelectInv, VarsInv

\* The next call is one of those to do.
LEMMA HeadOfAgenda ==
  ASSUME SelectInv, Kept, agenda # <<>>
  PROVE  /\ Head(agenda) \in Todo /\ Head(agenda) \in Call
         /\ Tail(agenda) \in Seq(Call) /\ IsInjective(Tail(agenda))
         /\ Range(Tail(agenda)) = Todo \ {Head(agenda)}
<1>1. agenda \in Seq(Call) /\ IsInjective(agenda)
  BY DEF SelectInv, AgendaInv
<1>2. Todo \subseteq Call
  BY <1>1, ListRange DEF Todo
<1> QED BY <1>1, <1>2, TailOfAgenda DEF Todo

\* So does a call of the running method.
LEMMA ProceedStep ==
  ASSUME SelectInv, VarsInv, Kept, Proceed
  PROVE  SelectInv' /\ VarsInv'
<1> DEFINE c  == Head(agenda)
           u  == CallEdit(c).tree
           op == CallEdit(c).op
<1>1. /\ agenda # <<>> /\ c.call # "drop" /\ Log!HChange(u, op)
      /\ agenda' = Tail(agenda) /\ strayed' = strayed
  BY DEF Proceed
<1>2. /\ c \in Todo /\ c \in Call
      /\ agenda' \in Seq(Call) /\ IsInjective(agenda') /\ Todo' = Todo \ {c}
  BY <1>1, HeadOfAgenda DEF Todo
<1>3. CallDoes(c, u, op)
  <2>1. c.call \in {"undefine", "remove_node", "remove_sort_term", "remove_group_term"}
    BY <1>1, <1>2 DEF Call
  <2> QED BY <1>2, <2>1, UndefineCall, RemoveNodeCall, SortTermCall, GroupTermCall
<1> HIDE DEF c, u, op
<1>4. ChainInv'
  BY <1>1, <1>3, ChangeKeepsChain DEF SelectInv, CallDoes
<1>5. tree' = u /\ Log!Idle /\ Log!Idle' /\ saved' = saved /\ target' = NoTree
  BY <1>1, ChangeFacts
<1>6. AgendaInv'
  <2>1. \A d \in Todo \ {c} : Fits(d, u, Todo \ {c})
    BY <1>3 DEF CallDoes
  <2>2. \A d \in Todo \ {c} : d.call # "drop"
    BY <1>1, <1>2 DEF SelectInv, AgendaInv, c
  <2> QED BY <1>2, <1>5, <2>1, <2>2 DEF AgendaInv
<1>7. TreeInv'
  <2>1. \A r \in InTree(u) \ Leaving(Todo \ {c}) : VarOf[r] \in u.defined_vars
    BY <1>3, <1>5 DEF CallDoes
  <2>2. strayed' = {} => u.references = InTree(u)
    BY <1>1, <1>3, <1>5 DEF CallDoes, VarsInv, TreeInv
  <2> QED BY <1>2, <1>5, <2>1, <2>2 DEF TreeInv
<1>8. SavedInv' /\ TargetInv'
  BY <1>1, <1>5, SavedStay DEF VarsInv
<1> QED BY <1>4, <1>6, <1>7, <1>8 DEF SelectInv, VarsInv

\* The calls that wait behind a drop are of undefine.
LEMMA OnlyUndefineWaits ==
  ASSUME SelectInv, Kept, Dropping
  PROVE  LET c == Head(agenda)
         IN  /\ agenda # <<>> /\ c \in Todo /\ c.call = "drop" /\ c \in Call
             /\ \A d \in Todo \ {c} : d.call = "undefine" /\ Fits(d, tree, Todo)
             /\ Leaving(Todo) = {}
<1> DEFINE c == Head(agenda)
<1>1. agenda # <<>> /\ c.call = "drop"
  BY DEF Dropping
<1>2. c \in Todo /\ c \in Call
  BY <1>1, HeadOfAgenda
<1>3. \A d \in Todo \ {c} : d.call = "undefine" /\ Fits(d, tree, Todo)
  BY <1>1, <1>2 DEF SelectInv, AgendaInv
<1> HIDE DEF c
<1>4. Leaving(Todo) = {}
  BY <1>1, <1>3 DEF Leaving
<1> QED BY <1>1, <1>2, <1>3, <1>4 DEF c

\* So does a turn of the loop of undefine_variable.
LEMMA DropStep ==
  ASSUME SelectInv, VarsInv, Kept, NEW r \in Ref, Drop(r)
  PROVE  SelectInv' /\ VarsInv'
<1> DEFINE c  == Head(agenda)
           u  == DropEdit(tree, r).tree
           op == DropEdit(tree, r).op
           c2 == [call |-> "drop", arg |-> c.arg \ {r}]
<1>1. /\ Dropping /\ r \in c.arg /\ ~DropRaises(tree, r) /\ Log!HChange(u, op) /\ strayed' = strayed
      /\ agenda' = IF c.arg = {r} THEN Tail(agenda) ELSE [agenda EXCEPT ![1].arg = @ \ {r}]
  BY DEF Drop
<1>2. /\ agenda # <<>> /\ c \in Todo /\ c.call = "drop" /\ c \in Call
      /\ \A d \in Todo \ {c} : d.call = "undefine" /\ Fits(d, tree, Todo)
      /\ Leaving(Todo) = {}
  BY <1>1, OnlyUndefineWaits
<1>3. tree \in SoundTrees
  BY ChainFacts DEF SelectInv
<1>4. GoodEdit(tree, op, u) /\ \E refs \in SUBSET Ref : r \in refs /\ Loses(tree, u, refs)
  BY <1>1, <1>3, DropIsAnEdit
<1>5. PICK refs \in SUBSET Ref : r \in refs /\ Loses(tree, u, refs)
  BY <1>4
<1>6. ChainInv'
  BY <1>1, <1>4, ChangeKeepsChain DEF SelectInv
<1>7. tree' = u /\ Log!Idle /\ Log!Idle' /\ saved' = saved /\ target' = NoTree
  BY <1>1, ChangeFacts
<1>8. /\ agenda \in Seq(Call) /\ IsInjective(agenda) /\ c.arg \subseteq Ref
      /\ c = [call |-> "drop", arg |-> c.arg]
  BY <1>2 DEF SelectInv, AgendaInv, Call
\* The agenda after the step.
<1>9. /\ agenda' \in Seq(Call) /\ IsInjective(agenda')
      /\ Todo' = (Todo \ {c}) \cup (IF c.arg = {r} THEN {} ELSE {c2})
      /\ c.arg # {r} => Head(agenda') = c2
  <2>1. CASE c.arg = {r}
    <3>1. /\ agenda' \in Seq(Call) /\ IsInjective(agenda') /\ Todo' = Todo \ {c}
      BY <1>1, <1>2, <2>1, HeadOfAgenda DEF Todo
    <3> QED BY <2>1, <3>1
  <2>2. CASE c.arg # {r}
    <3>1. c2 \in Call
      BY <1>8 DEF Call
    <3>2. c2 \notin Todo
      <4>1. c2 # c
        BY <1>1
      <4>2. c2.call # "undefine"
        OBVIOUS
      <4> QED BY <1>2, <4>1, <4>2
    <3>3. agenda' = [agenda EXCEPT ![1] = c2]
      <4>1. agenda[1] = c
        BY <1>2, <1>8, EmptySeq
      <4>2. [c EXCEPT !.arg = @ \ {r}] = c2
        <5>1. \A a, b : [[call |-> "drop", arg |-> a] EXCEPT !.arg = b] = [call |-> "drop", arg |-> b]
          OBVIOUS
        <5> HIDE DEF c
        <5> QED BY <1>8, <5>1
      <4> HIDE DEF c, c2
      <4>3. [agenda EXCEPT ![1].arg = @ \ {r}] = [agenda EXCEPT ![1] = [c EXCEPT !.arg = @ \ {r}]]
        BY <4>1
      <4> QED BY <1>1, <2>2, <4>2, <4>3
    <3> HIDE DEF c2
    <3>4. /\ agenda' \in Seq(Call) /\ IsInjective(agenda') /\ Head(agenda') = c2
          /\ Range(agenda') = (Range(agenda) \ {Head(agenda)}) \cup {c2}
      <4>1. Len(agenda) \in Nat \ {0} /\ c2 \in Call \ Range(agenda)
        BY <1>2, <1>8, <3>1, <3>2, EmptySeq, LenProperties DEF Todo
      <4>2. agenda \in Seq(Call) /\ IsInjective(agenda)
        BY <1>8
      <4>3. /\ agenda' \in Seq(Call) /\ Len(agenda') = Len(agenda) /\ agenda'[1] = c2
            /\ \A i \in 1 .. Len(agenda) : i # 1 => agenda'[i] = agenda[i]
        BY <3>3, <4>1, <4>2, ExceptSeq
      <4> QED BY <4>1, <4>2, <4>3, HeadReplaced
    <3> QED BY <2>2, <3>4 DEF Todo
  <2> QED BY <2>1, <2>2
<1> DEFINE todo == Todo'
<1> HIDE DEF u, op
<1>10. \A q \in Taken(Todo) : q \in Taken(todo) \/ q \in refs
  <2> SUFFICES ASSUME NEW q \in Taken(Todo), q \notin refs
               PROVE  q \in Taken(todo)
    OBVIOUS
  <2>1. q \in Ref /\ q # r /\ \E d \in Todo : d.call = "drop" /\ q \in d.arg
    BY <1>2, <1>5 DEF Taken
  <2>2. q \in c.arg
    BY <1>2, <2>1
  <2>3. c2 \in todo /\ c2.call = "drop" /\ q \in c2.arg
    BY <1>9, <2>1, <2>2
  <2> HIDE DEF todo, c2
  <2> QED BY <2>1, <2>3 DEF Taken
<1>11. /\ InTree(u) = InTree(tree) \ refs /\ u.references = tree.references \ refs
       /\ u.defined_vars = tree.defined_vars
  BY <1>5 DEF Loses
<1>12. \A d \in todo : d.call = "drop" \/ (d \in Todo \ {c} /\ d.call = "undefine")
  BY <1>2, <1>9
<1>13. ASSUME NEW d \in todo
       PROVE  Fits(d, u, todo)
  <2>1. CASE d.call = "drop"
    BY <2>1 DEF Fits
  <2>2. CASE d \in Todo \ {c} /\ d.call = "undefine"
    <3>1. d.arg \in tree.defined_vars /\ References(tree, d.arg) \subseteq Taken(Todo)
      BY <1>2, <2>2 DEF Fits
    <3>2. \A q \in References(u, d.arg) : q \in References(tree, d.arg) /\ q \notin refs
      BY <1>11 DEF References
    <3>3. References(u, d.arg) \subseteq Taken(todo)
      BY <1>10, <3>1, <3>2
    <3> QED BY <1>11, <2>2, <3>1, <3>3 DEF Fits
  <2> QED BY <1>12, <2>1, <2>2
<1>14. AgendaInv'
  <2>1. \A d \in todo : d.call = "drop" =>
          d = Head(agenda') /\ \A e \in todo \ {d} : e.call = "undefine"
    BY <1>2, <1>9
  <2>2. todo = Todo'
    OBVIOUS
  <2> HIDE DEF todo
  <2> QED BY <1>7, <1>9, <1>13, <2>1, <2>2 DEF AgendaInv
<1>15. TreeInv'
  <2>1. /\ \A q \in InTree(tree) : VarOf[q] \in tree.defined_vars
        /\ strayed = {} => tree.references = InTree(tree)
    BY <1>2, <1>7 DEF VarsInv, TreeInv
  <2>2. \A q \in InTree(u) : VarOf[q] \in u.defined_vars
    BY <1>11, <2>1
  <2>3. strayed' = {} => u.references = InTree(u)
    BY <1>1, <1>11, <2>1
  <2> QED BY <1>7, <2>2, <2>3 DEF TreeInv
<1>16. SavedInv' /\ TargetInv'
  BY <1>1, <1>7, SavedStay DEF VarsInv
<1> QED BY <1>6, <1>14, <1>15, <1>16 DEF SelectInv, VarsInv

\* So does the exception that ends this loop.
LEMMA DropFailsStep ==
  ASSUME SelectInv, VarsInv, Kept, NEW r, DropFails(r)
  PROVE  SelectInv' /\ VarsInv'
<1>1. /\ Dropping /\ agenda' = <<>> /\ strayed' = strayed
      /\ UNCHANGED <<tree, op_list, state_stack, memorizing, undoing, remaining,
                     saved, target, trail, intact>>
  BY DEF DropFails, log
<1>2. ChainInv'
  <2>1. [Chain!HNext]_(Chain!hvars)
    BY <1>1 DEF Chain!hvars, Chain!vars, Chain!mgr, Chain!history
  <2> QED BY <2>1, ChainStep DEF SelectInv
<1>3. AgendaInv' /\ Leaving(Todo)' = {}
  BY <1>1, NoAgenda
<1>4. TreeInv'
  <2>1. Leaving(Todo) = {}
    BY <1>1, OnlyUndefineWaits
  <2>2. Log!Idle' = Log!Idle
    BY <1>1 DEF Log!Idle
  <2> QED BY <1>1, <2>1, <2>2 DEF VarsInv, TreeInv
<1>5. SavedInv' /\ TargetInv'
  BY <1>1, SavedStay DEF VarsInv
<1> QED BY <1>2, <1>3, <1>4, <1>5 DEF SelectInv, VarsInv

\* So do save_state(), recover(), its undo() calls and flush().
LEMMA ManagerStep ==
  ASSUME SelectInv, VarsInv, Kept, Kept', agenda = <<>>, agenda' = <<>>, strayed' = strayed,
         Log!HManager
  PROVE  SelectInv' /\ VarsInv'
<1>1. ChainInv /\ intact /\ intact'
  BY DEF SelectInv, Kept
<1>2. Chain!HManager /\ ~Log!HUndoRaises
  BY <1>1, ChainManager
<1>3. ChainInv'
  <2>1. [Chain!HNext]_(Chain!hvars)
    BY <1>2 DEF Chain!HNext
  <2> QED BY <1>1, <2>1, ChainStep
<1>4. AgendaInv' /\ Leaving(Todo)' = {}
  BY NoAgenda
<1>5. Log!Idle => /\ \A r \in InTree(tree) : VarOf[r] \in tree.defined_vars
                  /\ strayed = {} => tree.references = InTree(tree)
  BY NothingLeaves DEF VarsInv, TreeInv
<1>6. Log!Idle => Good(tree)
  BY <1>5 DEF Good, VarsDefined
<1>7. TreeInv' /\ SavedInv' /\ TargetInv'
  <2>1. CASE Log!HSaveState
    <3>1. /\ Log!Idle /\ tree' = tree /\ saved' = Append(saved, tree) /\ target' = NoTree
      BY <2>1 DEF Log!HSaveState, Log!SaveState
    <3>2. TreeInv'
      BY <1>5, <3>1 DEF TreeInv
    <3>3. SavedInv'
      <4>1. saved \in Seq(SoundTrees) /\ tree \in SoundTrees
        BY <1>1, ChainFacts
      <4>2. /\ DOMAIN saved = 1 .. Len(saved) /\ DOMAIN Append(saved, tree) = 1 .. Len(saved) + 1
            /\ Len(saved) \in Nat
            /\ \A i \in 1 .. Len(saved) + 1 :
                 Append(saved, tree)[i] = IF i <= Len(saved) THEN saved[i] ELSE tree
        BY <4>1, AppendProperties, LenProperties
      <4>3. \A i \in 1 .. Len(saved) : Good(saved[i])
        BY <4>2 DEF VarsInv, SavedInv
      <4>4. \A i \in 1 .. Len(saved) + 1 : Good(Append(saved, tree)[i])
        BY <1>6, <3>1, <4>2, <4>3
      <4> QED BY <3>1, <4>2, <4>4 DEF SavedInv, Good
    <3> QED BY <3>1, <3>2, <3>3 DEF TargetInv
  <2>2. CASE Log!HRecover
    <3>1. /\ Log!Idle /\ tree' = tree /\ state_stack # <<>>
          /\ saved' = Log!Front(saved) /\ target' = Log!Last(saved)
      BY <2>2 DEF Log!HRecover, Log!Recover
    <3>2. TreeInv'
      BY <1>5, <3>1 DEF TreeInv
    <3>3. /\ saved \in Seq(SoundTrees) /\ Len(saved) = Len(state_stack)
          /\ state_stack \in Seq(Nat)
      BY <1>1, ChainFacts DEF ChainInv, Chain!HTypeOK, Chain!TypeOK
    <3>4. Len(saved) \in Nat \ {0} /\ DOMAIN saved = 1 .. Len(saved)
      BY <3>1, <3>3, EmptySeq, LenProperties
    <3>5. \A i \in 1 .. Len(saved) : Good(saved[i])
      BY <3>4 DEF VarsInv, SavedInv
    <3>6. /\ DOMAIN Log!Front(saved) = 1 .. Len(saved) - 1
          /\ \A i \in 1 .. Len(saved) - 1 : Log!Front(saved)[i] = saved[i]
      <4> DEFINE n == Len(saved) - 1
      <4>1. n \in Int /\ n >= 0 /\ \A i \in 1 .. n : saved[i] \in SoundTrees
        BY <3>3, <3>4, ElementOfSeq
      <4>2. Log!Front(saved) = SubSeq(saved, 1, n)
        BY DEF Log!Front
      <4> HIDE DEF n
      <4>3. /\ SubSeq(saved, 1, n) \in Seq(SoundTrees)
            /\ Len(SubSeq(saved, 1, n)) = IF 1 <= n THEN n - 1 + 1 ELSE 0
            /\ \A i \in 1 .. n - 1 + 1 : SubSeq(saved, 1, n)[i] = saved[1 + i - 1]
        BY <4>1, SubSeqProperties
      <4>4. Len(SubSeq(saved, 1, n)) = n /\ \A i \in 1 .. n : SubSeq(saved, 1, n)[i] = saved[i]
        BY <4>1, <4>3
      <4>5. DOMAIN SubSeq(saved, 1, n) = 1 .. n
        BY <4>3, <4>4, LenProperties
      <4> QED BY <4>2, <4>4, <4>5 DEF n
    <3>7. Log!Last(saved) = saved[Len(saved)]
      BY DEF Log!Last
    <3>8. SavedInv'
      BY <3>1, <3>4, <3>5, <3>6 DEF SavedInv, Good
    <3>9. TargetInv'
      BY <3>1, <3>4, <3>5, <3>7 DEF TargetInv, Good
    <3> QED BY <3>2, <3>8, <3>9
  <2>3. CASE Log!HRecoverRefused
    BY <1>1, <2>3 DEF Log!HRecoverRefused
  <2>4. CASE Log!HUndo
    <3>1. saved' = saved /\ target' = target
      BY <2>4 DEF Log!HUndo
    <3>2. remaining > 0
      BY <2>4 DEF Log!HUndo, Log!Undo
    <3>3. target # NoTree /\ Good(target)
      BY <1>1, <3>2, ChainFacts DEF VarsInv, TargetInv
    <3>4. (Log!Idle /\ target # NoTree => tree = target)'
      BY <1>1, <1>3, ChainFacts, PTL
    <3>5. TreeInv'
      BY <3>1, <3>3, <3>4 DEF TreeInv, Good, VarsDefined
    <3> QED BY <3>1, <3>5, SavedStay DEF VarsInv
  <2>5. CASE Log!HFlush
    <3>1. Log!Idle /\ tree' = tree /\ saved' = saved /\ target' = NoTree
      BY <2>5 DEF Log!HFlush, Log!Flush
    <3>2. TreeInv'
      BY <1>5, <3>1 DEF TreeInv
    <3> QED BY <3>1, <3>2, SavedStay DEF VarsInv
  <2> QED BY <1>2, <2>1, <2>2, <2>3, <2>4, <2>5 DEF Log!HManager
<1> QED BY <1>3, <1>4, <1>7 DEF SelectInv, VarsInv

-----------------------------------------------------------------------------
\* The theorems.

\* The log is intact, and the tree not strayed, only if they were before.
LEMMA KeptBefore ==
  ASSUME [Next]_vars, Kept'
  PROVE  Kept /\ strayed \subseteq strayed'
<1> USE DEF Kept
<1>1. ASSUME NEW u, NEW op, EditOnce(u, op)
      PROVE  intact' = intact
  BY <1>1, ChangeFacts DEF EditOnce
<1>2. ASSUME NEW calls, Begin(calls)
      PROVE  intact' = intact
  BY <1>2 DEF Begin, log
<1>3. CASE \/ \E v \in Var, wrapped, first \in BOOLEAN : AddSelected(v, wrapped, first)
           \/ \E r \in Ref : RemoveSelected(r)
           \/ \E v \in Var : AddGroupVar(v)
           \/ \E v \in Var, wrapped \in BOOLEAN : AddSortTerm(v, wrapped)
           \/ \E v \in Var : SetHaving(v)
           \/ \E v, w \in Var : AddRelation(v, w)
           \/ MakeVariable
  BY <1>1, <1>3 DEF AddSelected, RemoveSelected, AddGroupVar, AddSortTerm, SetHaving, AddRelation,
                    MakeVariable
<1>4. CASE \/ \E n \in tree.where, undefine \in BOOLEAN : RemoveNode(n, undefine)
           \/ \E r \in Ref : RemoveTermNode(r)
           \/ \E r \in Ref : RemoveSortTerm(r)
           \/ \E r \in Ref : RemoveGroupTerm(r)
           \/ RemoveSortTerms
           \/ RemoveGroups
           \/ \E v \in Var : UndefineVariable(v)
  BY <1>2, <1>4 DEF RemoveNode, RemoveTermNode, RemoveSortTerm, RemoveGroupTerm, RemoveSortTerms,
                    RemoveGroups, UndefineVariable
<1>5. CASE Proceed \/ \E r \in Ref : Drop(r)
  BY <1>5, ChangeFacts DEF Proceed, Drop
<1>6. CASE \E r \in Ref : DropFails(r)
  BY <1>6 DEF DropFails, log
<1>7. CASE agenda = <<>> /\ Log!HManager /\ UNCHANGED <<agenda, strayed>>
  BY <1>7 DEF Log!HManager, Log!HSaveState, Log!HRecover, Log!HRecoverRefused, Log!HUndo,
              Log!HUndoRaises, Log!HFlush
<1>8. CASE UNCHANGED vars
  BY <1>8 DEF vars, log
<1> QED BY <1>3, <1>4, <1>5, <1>6, <1>7, <1>8 DEF Next

\* Every step keeps the invariant.
LEMMA InvariantStep ==
  ASSUME SelectInv, VarsInv, [Next]_vars
  PROVE  SelectInv' /\ VarsInv'
<1> SUFFICES ASSUME Kept'
             PROVE  SelectInv' /\ VarsInv'
  BY DEF SelectInv, VarsInv
<1>1. Kept /\ strayed \subseteq strayed'
  BY KeptBefore
<1>2. tree \in SoundTrees
  BY <1>1, ChainFacts DEF SelectInv
<1>3. ASSUME NEW u, NEW op, EditOnce(u, op), EditsWell(u, op)
      PROVE  SelectInv' /\ VarsInv'
  BY <1>1, <1>3, EditOnceStep
<1>4. ASSUME NEW v \in Var, NEW wrapped \in BOOLEAN, NEW first \in BOOLEAN,
             AddSelected(v, wrapped, first)
      PROVE  SelectInv' /\ VarsInv'
  BY <1>2, <1>3, <1>4, AddSelectedEdits
<1>5. ASSUME NEW r \in Ref, RemoveSelected(r)
      PROVE  SelectInv' /\ VarsInv'
  BY <1>2, <1>3, <1>5, RemoveSelectedEdits
<1>6. ASSUME NEW v \in Var, AddGroupVar(v)
      PROVE  SelectInv' /\ VarsInv'
  BY <1>2, <1>3, <1>6, AddGroupVarEdits
<1>7. ASSUME NEW v \in Var, NEW wrapped \in BOOLEAN, AddSortTerm(v, wrapped)
      PROVE  SelectInv' /\ VarsInv'
  BY <1>2, <1>3, <1>7, AddSortTermEdits
<1>8. ASSUME NEW v \in Var, SetHaving(v)
      PROVE  SelectInv' /\ VarsInv'
  BY <1>2, <1>3, <1>8, SetHavingEdits
<1>9. ASSUME NEW v \in Var, NEW w \in Var, AddRelation(v, w)
      PROVE  SelectInv' /\ VarsInv'
  BY <1>2, <1>3, <1>9, AddRelationEdits
<1>10. CASE MakeVariable
  BY <1>2, <1>3, <1>10, MakeVariableEdits
<1>11. ASSUME NEW n \in tree.where, NEW undefine \in BOOLEAN, RemoveNode(n, undefine)
       PROVE  SelectInv' /\ VarsInv'
  BY <1>1, <1>11, RemoveNodeBegins
<1>12. ASSUME NEW r \in Ref, RemoveTermNode(r)
       PROVE  FALSE
  BY <1>12 DEF RemoveTermNode, Kept
<1>13. ASSUME NEW r \in Ref, RemoveSortTerm(r) \/ RemoveGroupTerm(r)
       PROVE  SelectInv' /\ VarsInv'
  <2> DEFINE s == <<r>>
  <2>1. s \in Seq(Ref) /\ IsInjective(s) /\ Range(s) = {r}
    BY DEF IsInjective, Range
  <2> HIDE DEF s
  <2>2. CASE RemoveSortTerm(r)
    <3>1. Range(s) \subseteq Range(tree.orderby) /\ strayed' = strayed
          /\ Begin(Calls("remove_sort_term", s))
      BY <2>1, <2>2 DEF RemoveSortTerm, s
    <3> QED BY <1>1, <2>1, <3>1, TermsBegin
  <2>3. CASE RemoveGroupTerm(r)
    <3>1. Range(s) \subseteq Range(tree.groupby) /\ strayed' = strayed
          /\ Begin(Calls("remove_group_term", s))
      BY <2>1, <2>3 DEF RemoveGroupTerm, s
    <3> QED BY <1>1, <2>1, <3>1, TermsBegin
  <2> QED BY <1>13, <2>2, <2>3
<1>14. CASE RemoveSortTerms
  <2>1. tree.orderby \in Seq(Ref) /\ IsInjective(tree.orderby)
    BY <1>2, SoundFacts
  <2>2. strayed' = strayed /\ Begin(Calls("remove_sort_term", tree.orderby))
    BY <1>14 DEF RemoveSortTerms
  <2> QED BY <1>1, <2>1, <2>2, TermsBegin
<1>15. CASE RemoveGroups
  <2>1. tree.groupby \in Seq(Ref) /\ IsInjective(tree.groupby)
    BY <1>2, SoundFacts
  <2>2. strayed' = strayed /\ Begin(Calls("remove_group_term", tree.groupby))
    BY <1>15 DEF RemoveGroups
  <2> QED BY <1>1, <2>1, <2>2, TermsBegin
<1>16. ASSUME NEW v \in Var, UndefineVariable(v)
       PROVE  SelectInv' /\ VarsInv'
  BY <1>1, <1>16, UndefineVariableBegins
<1>17. CASE Proceed
  BY <1>1, <1>17, ProceedStep
<1>18. ASSUME NEW r \in Ref, Drop(r) \/ DropFails(r)
       PROVE  SelectInv' /\ VarsInv'
  BY <1>1, <1>18, DropStep, DropFailsStep
<1>19. CASE agenda = <<>> /\ Log!HManager /\ UNCHANGED <<agenda, strayed>>
  BY <1>1, <1>19, ManagerStep
<1>20. CASE UNCHANGED vars
  BY <1>20 DEF vars, log, SelectInv, VarsInv, Kept, ChainInv, AgendaInv, TreeInv, SavedInv,
       TargetInv, Good, Todo, Log!Idle,
       Chain!HTypeOK, Chain!TypeOK, Chain!LogInv, Chain!LengthsAgree, Chain!Recording,
       Chain!ChainUndoes, Chain!MarksInOrder, Chain!MarksKeepTrees, Chain!TargetIsAhead,
       Chain!TreeAfter, Chain!TreeAt
<1> QED BY <1>4, <1>5, <1>6, <1>7, <1>8, <1>9, <1>10, <1>11, <1>12, <1>13, <1>14, <1>15, <1>16,
           <1>17, <1>18, <1>19, <1>20 DEF Next

\* It holds at the start.
LEMMA InvariantInit ==
  ASSUME Init
  PROVE  SelectInv /\ VarsInv
<1> SUFFICES ASSUME Kept
             PROVE  SelectInv /\ VarsInv
  BY DEF SelectInv, VarsInv
<1>1. agenda = <<>> /\ saved = <<>> /\ target = NoTree
  BY DEF Init, Log!HistoryInit
<1>2. agenda \in Seq(Call) /\ IsInjective(agenda) /\ Todo = {}
  BY <1>1, NothingLeaves DEF IsInjective
<1>3. AgendaInv
  BY <1>1, <1>2 DEF AgendaInv
<1>4. VarsDefined(tree) /\ tree.references = InTree(tree)
  BY ParsedAssumption DEF Init
<1>5. TreeInv /\ SavedInv /\ TargetInv
  BY <1>1, <1>4 DEF TreeInv, SavedInv, TargetInv, VarsDefined
<1> QED BY <1>3, <1>5, InitialChain DEF SelectInv, VarsInv

\* The editing methods keep the log a chain of sound trees, whatever the variables,
\* the references, the parsed trees and the edits.
THEOREM EditsKeepTheLog == Spec => [](SelectInv /\ VarsInv)
<1>1. Init => SelectInv /\ VarsInv
  BY InvariantInit
<1>2. SelectInv /\ VarsInv /\ [Next]_vars => (SelectInv /\ VarsInv)'
  BY InvariantStep
<1> QED BY <1>1, <1>2, PTL DEF Spec

\* What the methods record undoes what they did: recover() gives the SELECT of its
\* save_state() back, no undo() raises on the way, and make_variable is undone when
\* nothing refers to the variable any more.
THEOREM SelectUndoIsExact == Spec => []UndoIsExact
<1>1. SelectInv /\ VarsInv => UndoIsExact
  <2> SUFFICES ASSUME SelectInv, Kept
               PROVE  /\ Log!Idle /\ target # NoTree => tree = target
                      /\ ~Log!Idle => ~Fails(Head(op_list), tree)
    BY DEF UndoIsExact, RecoverRestoresSelect, UndoNeverRaises, Settled, Kept, Fails
  <2>1. ChainInv /\ intact
    BY DEF SelectInv, Kept
  <2>2. Log!Idle /\ target # NoTree => tree = target
    BY <2>1, ChainFacts
  <2>3. ~Log!Idle => remaining > 0
    BY <2>1, ChainFacts DEF Log!Idle
  <2> QED BY <2>1, <2>2, <2>3, HeadIsUndone
<1> QED BY <1>1, EditsKeepTheLog, PTL

\* Lists that share no element, one after the other.
LEMMA ConcatInjective ==
  ASSUME NEW S, NEW a \in Seq(S), NEW b \in Seq(S), IsInjective(a), IsInjective(b),
         Range(a) \cap Range(b) = {}
  PROVE  /\ a \o b \in Seq(S) /\ IsInjective(a \o b)
         /\ Range(a \o b) = Range(a) \cup Range(b)
<1> DEFINE m == Len(a)
           n == Len(b)
           c == a \o b
<1>1. /\ m \in Nat /\ n \in Nat /\ c \in Seq(S) /\ Len(c) = m + n
      /\ \A i \in 1 .. m + n : c[i] = IF i <= m THEN a[i] ELSE b[i - m]
  BY LenProperties, ConcatProperties
<1>2. /\ Range(a) = {a[i] : i \in 1 .. m} /\ Range(b) = {b[i] : i \in 1 .. n}
      /\ \A i, j \in 1 .. m : a[i] = a[j] => i = j
      /\ \A i, j \in 1 .. n : b[i] = b[j] => i = j
  BY ListRange
<1> HIDE DEF c, m, n
<1>3. Range(c) = {c[i] : i \in 1 .. m + n}
  <2>0. c \in Seq(S)
    BY <1>1
  <2>1. Range(c) = {c[i] : i \in 1 .. Len(c)}
    BY ONLY <2>0, ListRange
  <2> QED BY <1>1, <2>1
<1>4. \A i \in 1 .. m + n : \/ i \in 1 .. m /\ c[i] = a[i]
                            \/ i > m /\ i - m \in 1 .. n /\ c[i] = b[i - m]
  BY <1>1
<1>5. IsInjective(c)
  <2> SUFFICES ASSUME NEW i \in 1 .. m + n, NEW j \in 1 .. m + n, c[i] = c[j]
               PROVE  i = j
    BY <1>1, ListRange
  <2>1. CASE i \in 1 .. m /\ c[i] = a[i] /\ j \in 1 .. m /\ c[j] = a[j]
    BY <1>2, <2>1
  <2>2. CASE i > m /\ i - m \in 1 .. n /\ c[i] = b[i - m] /\ j > m /\ j - m \in 1 .. n /\ c[j] = b[j - m]
    <3>1. i - m = j - m
      BY <1>2, <2>2
    <3> QED BY <1>1, <3>1
  <2>3. ASSUME NEW k \in 1 .. m, NEW l \in 1 .. n
        PROVE  a[k] # b[l]
    <3>1. a[k] \in Range(a) /\ b[l] \in Range(b)
      BY <1>2
    <3> QED BY <3>1
  <2> QED BY <1>4, <2>1, <2>2, <2>3
<1>6. Range(c) = Range(a) \cup Range(b)
  <2>1. Range(c) \subseteq Range(a) \cup Range(b)
    BY <1>2, <1>3, <1>4
  <2>2. ASSUME NEW k \in 1 .. m
        PROVE  a[k] \in Range(c)
    <3>1. k \in 1 .. m + n /\ c[k] = a[k]
      BY <1>1
    <3> QED BY <1>3, <3>1
  <2>3. ASSUME NEW k \in 1 .. n
        PROVE  b[k] \in Range(c)
    <3>1. m + k \in 1 .. m + n /\ ~(m + k <= m) /\ (m + k) - m = k
      BY <1>1
    <3>2. c[m + k] = b[(m + k) - m]
      BY <1>1, <3>1
    <3> QED BY <1>3, <3>1, <3>2
  <2> QED BY <1>2, <2>1, <2>2, <2>3
<1> QED BY <1>1, <1>5, <1>6 DEF c

\* Between two calls of a client the SELECT is sound, also when undefine_variable
\* has failed half-way.
THEOREM SelectIsSound == Spec => []SettledTreeIsSound
<1>1. SelectInv /\ VarsInv => SettledTreeIsSound
  <2> SUFFICES ASSUME SelectInv, VarsInv, Settled, strayed = {}
               PROVE  /\ CheckReferences
                      /\ IsInjective(tree.selection \o tree.groupby \o tree.orderby \o tree.having)
                      /\ VarsDefined(tree) /\ tree.solutions \subseteq tree.defined_vars
    BY DEF SettledTreeIsSound
  <2>1. Kept /\ agenda = <<>> /\ Log!Idle
    BY DEF Settled, Kept
  <2>2. tree \in SoundTrees
    BY <2>1, ChainFacts DEF SelectInv
  <2>3. Leaving(Todo) = {}
    BY <2>1, NothingLeaves
  <2>4. CheckReferences /\ VarsDefined(tree)
    BY <2>1, <2>3 DEF VarsInv, TreeInv, CheckReferences, VarsDefined
  <2>5. tree.solutions \subseteq tree.defined_vars
    BY <2>2 DEF SoundTrees, Sound
  <2> DEFINE a == tree.selection
             b == tree.groupby
             c == tree.orderby
             d == tree.having
  <2>6. \A s \in {a, b, c, d} : s \in Seq(Ref) /\ IsInjective(s)
    BY <2>2, SoundFacts
  <2>7. /\ Range(a) \cap Range(b) = {} /\ Range(a) \cap Range(c) = {} /\ Range(a) \cap Range(d) = {}
        /\ Range(b) \cap Range(c) = {} /\ Range(b) \cap Range(d) = {} /\ Range(c) \cap Range(d) = {}
    BY <2>2 DEF SoundTrees, Sound, OnePlace
  <2> HIDE DEF a, b, c, d
  <2>8. a \o b \in Seq(Ref) /\ IsInjective(a \o b) /\ Range(a \o b) = Range(a) \cup Range(b)
    BY <2>6, <2>7, ConcatInjective
  <2> DEFINE ab == a \o b
  <2>9. ab \in Seq(Ref) /\ IsInjective(ab) /\ Range(ab) \cap Range(c) = {} /\ Range(ab) \cap Range(d) = {}
        /\ Range(ab) = Range(a) \cup Range(b)
    BY <2>7, <2>8
  <2> HIDE DEF ab
  <2>10. ab \o c \in Seq(Ref) /\ IsInjective(ab \o c) /\ Range(ab \o c) = Range(ab) \cup Range(c)
    BY <2>6, <2>9, ConcatInjective
  <2> DEFINE abc == ab \o c
  <2>11. abc \in Seq(Ref) /\ IsInjective(abc) /\ Range(abc) \cap Range(d) = {}
    BY <2>7, <2>9, <2>10
  <2> HIDE DEF abc
  <2>12. IsInjective(abc \o d)
    BY <2>6, <2>11, ConcatInjective
  <2> QED BY <2>4, <2>5, <2>12 DEF a, b, c, d, ab, abc
<1> QED BY <1>1, EditsKeepTheLog, PTL

-----------------------------------------------------------------------------
\* Types, whatever the client did.

\* The first index that passes a test.
LEMMA FirstIndex ==
  ASSUME NEW I, NEW n \in Nat, I \in SUBSET (1 .. n), I # {}
  PROVE  Min(I) \in I
<1>1. I \in SUBSET Nat
  OBVIOUS
<1>2. \E i \in I : \A j \in I : i <= j
  BY <1>1, LeastNat
<1> QED BY <1>2 DEF Min

\* insert() gives a list.
LEMMA InsertTyped ==
  ASSUME NEW S, NEW s \in Seq(S), NEW e \in S, NEW i \in Nat \ {0}
  PROVE  Insert(s, i, e) \in Seq(S)
<1>1. PICK k : k = IF i <= Len(s) THEN i ELSE Len(s) + 1
  OBVIOUS
<1>2. k \in 1 .. Len(s) + 1
  <2>1. Len(s) \in Nat
    OBVIOUS
  <2> QED BY <1>1, <2>1
<1> QED BY <1>1, <1>2, InsertAtPlace DEF Insert

\* What remove_group_term leaves.
WithoutEquivalent(s, r) == RemoveFirstMatch(s, LAMBDA q : Equivalent(r, q))

\* remove() gives a list, whether the element is there or not.
LEMMA RemoveTyped ==
  ASSUME NEW S, NEW s \in Seq(S), NEW r
  PROVE  RemoveFirst(s, r) \in Seq(S) /\ WithoutEquivalent(s, r) \in Seq(S)
<1>1. Len(s) \in Nat
  OBVIOUS
<1>2. RemoveFirst(s, r) \in Seq(S)
  <2> DEFINE I == {i \in 1 .. Len(s) : s[i] = r}
  <2>1. CASE \E i \in 1 .. Len(s) : s[i] = r
    <3>1. I # {} /\ I \in SUBSET (1 .. Len(s))
      BY <2>1
    <3>2. SelectInSeq(s, LAMBDA v : v = r) = Min(I)
      BY <3>1 DEF SelectInSeq
    <3> HIDE DEF I
    <3>3. Min(I) \in 1 .. Len(s)
      BY <1>1, <3>1, FirstIndex
    <3> QED BY <2>1, <3>2, <3>3, RemoveAtPlace DEF RemoveFirst
  <2>2. CASE ~(\E i \in 1 .. Len(s) : s[i] = r)
    BY <2>2 DEF RemoveFirst
  <2> QED BY <2>1, <2>2
<1>3. WithoutEquivalent(s, r) \in Seq(S)
  <2> DEFINE I == {i \in 1 .. Len(s) : Equivalent(r, s[i])}
  <2>1. CASE \E i \in 1 .. Len(s) : Equivalent(r, s[i])
    <3>1. I # {} /\ I \in SUBSET (1 .. Len(s))
      BY <2>1
    <3>2. SelectInSeq(s, LAMBDA q : Equivalent(r, q)) = Min(I)
      BY <3>1 DEF SelectInSeq
    <3> HIDE DEF I
    <3>3. Min(I) \in 1 .. Len(s)
      BY <1>1, <3>1, FirstIndex
    <3> QED BY <2>1, <3>2, <3>3, RemoveAtPlace DEF RemoveFirstMatch, WithoutEquivalent
  <2>2. CASE ~(\E i \in 1 .. Len(s) : Equivalent(r, s[i]))
    BY <2>2 DEF RemoveFirstMatch, WithoutEquivalent
  <2> QED BY <2>1, <2>2
<1> QED BY <1>2, <1>3

\* index() of an element is a place in the list.
LEMMA IndexTyped ==
  ASSUME NEW S, NEW s \in Seq(S), NEW r \in Range(s)
  PROVE  IndexOf(s, r) \in 1 .. Len(s)
<1> DEFINE I == {i \in 1 .. Len(s) : s[i] = r}
<1>1. I # {} /\ I \in SUBSET (1 .. Len(s)) /\ Len(s) \in Nat
  BY ListRange
<1>2. IndexOf(s, r) = Min(I)
  BY <1>1 DEF IndexOf, SelectInSeq
<1> HIDE DEF I
<1> QED BY <1>1, <1>2, FirstIndex

\* The first of a list is its own first equivalent.
LEMMA RemoveHead ==
  ASSUME NEW S, NEW s \in Seq(S), s # <<>>
  PROVE  /\ RemoveFirst(s, Head(s)) = Tail(s)
         /\ WithoutEquivalent(s, Head(s)) = Tail(s)
<1>1. Len(s) \in Nat \ {0} /\ Head(s) = s[1] /\ 1 \in 1 .. Len(s)
  BY EmptySeq, LenProperties
<1>2. ASSUME NEW I, I \in SUBSET (1 .. Len(s)), 1 \in I
      PROVE  Min(I) = 1
  <2>1. \A j \in I : 1 <= j
    BY <1>1, <1>2
  <2>2. I # {} /\ Len(s) \in Nat
    BY <1>1, <1>2
  <2>3. Min(I) \in I /\ \A j \in I : Min(I) <= j
    <3>1. 1 \in I /\ \A j \in I : 1 <= j
      BY <1>2, <2>1
    <3> QED BY <3>1 DEF Min
  <2>4. PICK m : m = Min(I)
    OBVIOUS
  <2>5. m \in 1 .. Len(s) /\ m <= 1
    BY <1>2, <2>3, <2>4
  <2> QED BY <1>1, <2>4, <2>5
<1>3. RemoveAt(s, 1) = Tail(s)
  <2>1. /\ RemoveAt(s, 1) \in Seq(S) /\ Len(RemoveAt(s, 1)) = Len(s) - 1
        /\ \A i \in 1 .. Len(s) - 1 : RemoveAt(s, 1)[i] = IF i < 1 THEN s[i] ELSE s[i + 1]
    BY <1>1, RemoveAtPlace
  <2>2. PICK a, b : a = RemoveAt(s, 1) /\ b = Tail(s)
    OBVIOUS
  <2>3. b \in Seq(S) /\ Len(b) = Len(s) - 1 /\ \A i \in 1 .. Len(s) - 1 : b[i] = s[i + 1]
    BY <1>1, <2>2
  <2>4. \A i \in 1 .. Len(s) - 1 : ~(i < 1)
    BY <1>1
  <2>5. a \in Seq(S) /\ Len(a) = Len(b) /\ \A i \in 1 .. Len(a) : a[i] = b[i]
    BY <2>1, <2>2, <2>3, <2>4
  <2>6. a = b
    BY <2>3, <2>5, SeqEqual
  <2> QED BY <2>2, <2>6
<1>4. RemoveFirst(s, Head(s)) = Tail(s)
  <2> DEFINE I == {i \in 1 .. Len(s) : s[i] = Head(s)}
  <2>1. 1 \in I /\ I \in SUBSET (1 .. Len(s)) /\ (\E i \in 1 .. Len(s) : s[i] = Head(s))
    BY <1>1
  <2>2. SelectInSeq(s, LAMBDA v : v = Head(s)) = Min(I)
    BY <2>1 DEF SelectInSeq
  <2> HIDE DEF I
  <2>3. Min(I) = 1
    BY <1>2, <2>1
  <2> QED BY <1>3, <2>1, <2>2, <2>3 DEF RemoveFirst
<1>5. WithoutEquivalent(s, Head(s)) = Tail(s)
  <2> DEFINE I == {i \in 1 .. Len(s) : Equivalent(Head(s), s[i])}
  <2>1. 1 \in I /\ I \in SUBSET (1 .. Len(s)) /\ (\E i \in 1 .. Len(s) : Equivalent(Head(s), s[i]))
    BY <1>1 DEF Equivalent
  <2>2. SelectInSeq(s, LAMBDA q : Equivalent(Head(s), q)) = Min(I)
    BY <2>1 DEF SelectInSeq
  <2> HIDE DEF I
  <2>3. Min(I) = 1
    BY <1>2, <2>1
  <2> QED BY <1>3, <2>1, <2>2, <2>3 DEF RemoveFirstMatch, WithoutEquivalent
<1> QED BY <1>4, <1>5

\* What a tree is made of.
LEMMA TreeFacts ==
  ASSUME NEW t \in Tree
  PROVE  /\ t.selection \in Seq(Ref) /\ t.groupby \in Seq(Ref)
         /\ t.orderby \in Seq(Ref) /\ t.having \in Seq(Ref)
         /\ t.where \in SUBSET Node /\ t.references \in SUBSET Ref
         /\ t.defined_vars \in SUBSET Var /\ t.solutions \in SUBSET Var
  BY DEF Tree

\* Each elementary edit gives a tree.
LEMMA EditsAreTyped ==
  ASSUME NEW t \in Tree, NEW r \in Ref, NEW i \in Nat \ {0}, NEW n \in Node, NEW v \in Var
  PROVE  /\ Selected(t, r, i) \in Tree /\ Unselected(t, r) \in Tree
         /\ Grouped(t, r, i) \in Tree /\ Ungrouped(t, r) \in Tree
         /\ Sorted(t, r, i) \in Tree /\ Unsorted(t, r) \in Tree
         /\ Restricted(t, n) \in Tree /\ Unrestricted(t, n) \in Tree
         /\ Undefined(t, v) \in Tree
<1>1. PICK a, b, c :
        /\ a = Insert(t.selection, i, r) /\ b = Insert(t.groupby, i, r) /\ c = Insert(t.orderby, i, r)
  OBVIOUS
<1>2. a \in Seq(Ref) /\ b \in Seq(Ref) /\ c \in Seq(Ref)
  BY <1>1, TreeFacts, InsertTyped
<1>3. PICK d, e, f :
        /\ d = RemoveFirst(t.selection, r) /\ e = RemoveFirst(t.orderby, r)
        /\ f = WithoutEquivalent(t.groupby, r)
  OBVIOUS
<1>4. d \in Seq(Ref) /\ e \in Seq(Ref) /\ f \in Seq(Ref)
  BY <1>3, TreeFacts, RemoveTyped
<1>5. n.refs \in SUBSET Ref
  BY DEF Node
<1>6. Selected(t, r, i) \in Tree /\ Grouped(t, r, i) \in Tree /\ Sorted(t, r, i) \in Tree
  BY <1>1, <1>2 DEF Selected, Grouped, Sorted, Tree
<1>7. Unselected(t, r) \in Tree /\ Ungrouped(t, r) \in Tree /\ Unsorted(t, r) \in Tree
  BY <1>3, <1>4 DEF Unselected, Ungrouped, Unsorted, WithoutEquivalent, Tree
<1>8. Restricted(t, n) \in Tree /\ Unrestricted(t, n) \in Tree
  BY <1>5 DEF Restricted, Unrestricted, Tree
<1>9. Undefined(t, v) \in Tree
  BY DEF Undefined, Tree
<1> QED BY <1>6, <1>7, <1>8, <1>9

\* A turn of the loop of undefine_variable gives a tree, and records an operation.
LEMMA DropIsTyped ==
  ASSUME NEW t \in Tree, NEW r \in Ref
  PROVE  /\ DropEdit(t, r).tree \in Tree
         /\ ~DropRaises(t, r) => DropEdit(t, r).op \in Op
<1>1. /\ Unsorted(t, r) \in Tree /\ Ungrouped(t, r) \in Tree /\ Unselected(t, r) \in Tree
      /\ \A n \in Node : Unrestricted(t, n) \in Tree
  <2>1. 1 \in Nat \ {0} /\ VarOf[r] \in Var
    BY VarOfAssumption
  <2>2. Unsorted(t, r) \in Tree /\ Ungrouped(t, r) \in Tree /\ Unselected(t, r) \in Tree
    <3>1. [kind |-> "term", refs |-> {}] \in Node
      BY DEF Node
    <3> QED BY <2>1, <3>1, EditsAreTyped
  <2> QED BY <2>1, <2>2, EditsAreTyped
<1>2. CASE RelationsOf(t, r) # {}
  <2>1. PICK n : n = CHOOSE m \in RelationsOf(t, r) : TRUE
    OBVIOUS
  <2>2. n \in RelationsOf(t, r)
    BY <1>2, <2>1
  <2>3. n \in Node
    BY <2>2, TreeFacts DEF RelationsOf
  <2>4. DropEdit(t, r) = [tree |-> Unrestricted(t, n), op |-> [type |-> "RemoveNode", node |-> n]]
    BY <1>2, <2>1 DEF DropEdit
  <2> QED BY <1>1, <2>3, <2>4 DEF Op
<1>3. CASE RelationsOf(t, r) = {} /\ r \in Range(t.orderby)
  <2>1. PICK i : i = IndexOf(t.orderby, r)
    OBVIOUS
  <2>2. i \in Nat \ {0}
    BY <1>3, <2>1, TreeFacts, IndexTyped, LenProperties
  <2>3. DropEdit(t, r) = [tree |-> Unsorted(t, r), op |-> [type |-> "RemoveSort", node |-> r, index |-> i]]
    BY <1>3, <2>1 DEF DropEdit
  <2> QED BY <1>1, <2>2, <2>3 DEF Op
<1>4. CASE RelationsOf(t, r) = {} /\ r \in Range(t.groupby) \ Range(t.orderby)
  <2>1. PICK i : i = IndexOf(t.groupby, r)
    OBVIOUS
  <2>2. i \in Nat \ {0}
    BY <1>4, <2>1, TreeFacts, IndexTyped, LenProperties
  <2>3. DropEdit(t, r) = [tree |-> Ungrouped(t, r), op |-> [type |-> "RemoveGroup", node |-> r, index |-> i]]
    BY <1>4, <2>1 DEF DropEdit
  <2> QED BY <1>1, <2>2, <2>3 DEF Op
<1>5. CASE RelationsOf(t, r) = {} /\ r \notin Range(t.groupby) \cup Range(t.orderby)
  <2>1. PICK i : i = IndexOf(t.selection, r)
    OBVIOUS
  <2>2. DropEdit(t, r) = [tree |-> Unselected(t, r), op |-> [type |-> "UnselectVar", node |-> r, index |-> i]]
    BY <1>5, <2>1 DEF DropEdit
  <2>3. ASSUME ~DropRaises(t, r)
        PROVE  i \in Nat \ {0}
    <3>1. r \in Range(t.selection)
      BY <1>5, <2>3 DEF DropRaises
    <3> QED BY <2>1, <3>1, TreeFacts, IndexTyped, LenProperties
  <2> QED BY <1>1, <2>2, <2>3 DEF Op
<1> QED BY <1>2, <1>3, <1>4, <1>5

\* undefine_variable, whatever it drops.
LEMMA DropAllIsTyped ==
  ASSUME NEW t \in Tree, NEW v
  PROVE  DropAll(t, v) \in Tree
<1> DEFINE S == References(t, v)
           D == SUBSET S
           V == Tree
           Pick(s) == CHOOSE x \in s : TRUE
           Uses == [s \in D |-> IF s = {} THEN {} ELSE {s \ {Pick(s)}}]
           Turn(r, u) == IF DropRaises(u, r) THEN u ELSE DropEdit(u, r).tree
           Body(f, s) == IF s = {} THEN t ELSE Turn(Pick(s), f[s \ {Pick(s)}])
           H == [s \in D |-> [f \in [D -> V] |-> Body(f, s)]]
           iter == CHOOSE iter : iter = [s \in SUBSET S |-> Body(iter, s)]
<1>1. S \in SUBSET Ref /\ IsFiniteSet(S)
  <2>1. S \in SUBSET Ref
    BY TreeFacts DEF References
  <2> QED BY <2>1, FiniteAssumption, FS_Subset
<1>2. DropAll(t, v) = iter[S]
  BY DEF DropAll, FoldSet, MapThenFoldSet
<1> HIDE DEF S
<1>3. \A s \in D : s # {} => Pick(s) \in s /\ s \ {Pick(s)} \in D
  OBVIOUS
<1> HIDE DEF Pick
<1>4. Uses \in [D -> SUBSET D] /\ Ends(D, Uses)
  <2>1. Uses \in [D -> SUBSET D]
    BY <1>3
  <2>2. ASSUME NEW W \in SUBSET D, W # {}
        PROVE  \E s \in W : Uses[s] \cap W = {}
    <3>1. PICK s \in W : \A q \in W : q \subseteq s => q = s
      <4> HIDE DEF Uses
      <4> QED BY <1>1, <2>2, LeastSet
    <3>2. s \in D /\ (s # {} => s \ {Pick(s)} \notin W)
      BY <1>3, <3>1
    <3> QED BY <3>2
  <2> HIDE DEF Uses, D
  <2> QED BY <2>1, <2>2 DEF Ends
<1>5. V # {}
  OBVIOUS
<1>6. \A r \in Ref, u \in V : Turn(r, u) \in V
  BY DropIsTyped
<1> HIDE DEF Turn
<1>7. ASSUME NEW f, NEW s \in D, s # {} => f[s \ {Pick(s)}] \in V
      PROVE  Body(f, s) \in V
  BY <1>1, <1>3, <1>6, <1>7
<1>8. H \in [D -> [[D -> V] -> V]]
  <2>1. \A f \in [D -> V], s \in D : Body(f, s) \in V
    <3>1. SUFFICES ASSUME NEW f \in [D -> V], NEW s \in D
                   PROVE  Body(f, s) \in V
      OBVIOUS
    <3>2. s # {} => f[s \ {Pick(s)}] \in V
      <4> HIDE DEF V
      <4> QED BY <1>3, <3>1
    <3> HIDE DEF Body
    <3> QED BY <1>7, <3>2
  <2> HIDE DEF Body, D, V
  <2> QED BY <2>1
<1>9. Depends(D, V, Uses, H)
  <2>1. SUFFICES ASSUME NEW s \in D, NEW f \in [D -> V], NEW g \in [D -> V], \A w \in Uses[s] : f[w] = g[w]
                 PROVE  Body(f, s) = Body(g, s)
    <3> HIDE DEF Body, D, V, Uses
    <3> QED BY DEF Depends
  <2>2. s # {} => f[s \ {Pick(s)}] = g[s \ {Pick(s)}]
    BY <2>1
  <2> QED BY <2>2
<1>10. PICK f \in [D -> V] : Solves(D, H, f)
  <2> HIDE DEF H, D, V, Uses
  <2> QED BY ONLY <1>4, <1>5, <1>8, <1>9, Recursion
<1>11. f = [s \in D |-> Body(f, s)]
  <2>1. \A s \in D : f[s] = Body(f, s)
    <3> HIDE DEF Body, D, V
    <3> QED BY <1>10 DEF H, Solves
  <2> HIDE DEF Body, V, D
  <2> QED BY <1>10, <2>1
<1>12. iter = [s \in SUBSET S |-> Body(iter, s)]
  <2> HIDE DEF Body
  <2> QED BY <1>11
<1> HIDE DEF iter
<1>13. \A s \in D : iter[s] = Body(iter, s)
  <2> HIDE DEF Body
  <2> QED BY <1>12
<1>14. \A s \in D : iter[s] \in V
  <2> DEFINE Bad == {s \in D : iter[s] \notin V}
  <2>1. SUFFICES ASSUME Bad # {}
                 PROVE  FALSE
    OBVIOUS
  <2>2. PICK s \in Bad : Uses[s] \cap Bad = {}
    <3>1. Bad \in SUBSET D
      OBVIOUS
    <3> HIDE DEF Bad, Uses, D
    <3> QED BY <1>4, <2>1, <3>1 DEF Ends
  <2>3. s \in D /\ iter[s] \notin V
    BY <2>2
  <2>4. s # {} => iter[s \ {Pick(s)}] \in V
    <3>1. s # {} => s \ {Pick(s)} \in D /\ s \ {Pick(s)} \in Uses[s]
      BY <1>3, <2>3
    <3> HIDE DEF Uses, D
    <3> QED BY <2>2, <3>1
  <2> HIDE DEF Body, V, D, Bad, Uses
  <2> QED BY <1>7, <1>13, <2>3, <2>4
<1> QED BY <1>2, <1>14

\* The undo() of every operation gives a tree, whatever the tree.
LEMMA UndoneIsTyped ==
  ASSUME NEW op \in Op, NEW t \in Tree
  PROVE  Undone(op, t) \in Tree
<1>1. [kind |-> "term", refs |-> {}] \in Node /\ 1 \in Nat \ {0}
  BY DEF Node
<1>2. \A r \in Ref : VarOf[r] \in Var
  BY VarOfAssumption
<1>3. \A r \in Ref : /\ Unselected(t, r) \in Tree /\ Ungrouped(t, r) \in Tree /\ Unsorted(t, r) \in Tree
                     /\ \A i \in Nat \ {0} : /\ Selected(t, r, i) \in Tree /\ Grouped(t, r, i) \in Tree
                                             /\ Sorted(t, r, i) \in Tree
  BY <1>1, <1>2, EditsAreTyped
<1>4. CASE op.type \in {"SelectVar", "AddGroup", "AddSort"}
  <2>1. op.node \in Ref
    BY <1>4 DEF Op
  <2> QED BY <1>3, <1>4, <2>1 DEF Undone
<1>5. CASE op.type \in {"UnselectVar", "RemoveGroup", "RemoveSort"}
  <2>1. op.node \in Ref /\ op.index \in Nat \ {0}
    BY <1>5 DEF Op
  <2> QED BY <1>3, <1>5, <2>1 DEF Undone
<1>6. CASE op.type \in {"AddNode", "RemoveNode"}
  <2>1. op.node \in Node
    BY <1>6 DEF Op
  <2>2. Restricted(t, op.node) \in Tree /\ Unrestricted(t, op.node) \in Tree
    BY <2>1, TreeFacts DEF Restricted, Unrestricted, Tree, Node
  <2>3. [t EXCEPT !.where = {op.node}, !.references = @ \cup op.node.refs] \in Tree
    BY <2>1 DEF Tree, Node
  <2> QED BY <1>6, <2>2, <2>3 DEF Undone, UndoRemoveNode
<1>7. CASE op.type = "MakeVar"
  <2>1. op.node \in Var
    BY <1>7 DEF Op
  <2>2. \A u \in Tree : Undefined(u, op.node) \in Tree
    BY <2>1 DEF Undefined, Tree
  <2>3. DropAll(t, op.node) \in Tree
    BY DropAllIsTyped
  <2> QED BY <1>7, <2>2, <2>3 DEF Undone, UndoMakeVar
<1>8. CASE op.type = "UndefineVar"
  <2>1. op.node \in Var /\ op.solutions \in SUBSET Var
    BY <1>8 DEF Op
  <2> QED BY <1>8, <2>1 DEF Undone, Tree
<1>9. CASE op.type = "SetHaving"
  <2>1. op.value \in Seq(Ref)
    BY <1>9 DEF Op
  <2> QED BY <1>9, <2>1 DEF Undone, Tree
<1>10. op.type \in {"SelectVar", "AddGroup", "AddSort", "UnselectVar", "RemoveGroup", "RemoveSort",
                    "AddNode", "RemoveNode", "MakeVar", "UndefineVar", "SetHaving"}
  BY DEF Op
<1> QED BY <1>4, <1>5, <1>6, <1>7, <1>8, <1>9, <1>10

\* The log as the manager sees it, which never asks what the edits are.
NoEdit(t, op, u) == FALSE

Typed == INSTANCE UndoHistory_proofs WITH Edits <- NoEdit

\* These edits, being none, meet the assumptions of the undo log.
LEMMA TypedAssumptions ==
  /\ Typed!BoundsAssumption
  /\ Typed!NoTreeAssumption
  /\ Typed!EditsAreUndoable
  /\ Typed!UndoneIsATree
<1>1. Typed!BoundsAssumption /\ Typed!NoTreeAssumption
  BY BoundsAssumption, NoTreeAssumption DEF Typed!BoundsAssumption, Typed!NoTreeAssumption
<1>2. Typed!EditsAreUndoable
  BY DEF Typed!EditsAreUndoable, NoEdit
<1>3. Typed!UndoneIsATree
  BY UndoneIsTyped DEF Typed!UndoneIsATree
<1> QED BY <1>1, <1>2, <1>3

LogTyped == Log!HTypeOK /\ Log!LengthsAgree

LogTypedHere == Typed!HTypeOK /\ Typed!LengthsAgree

\* The types of the log are the same, whatever the edits are.
LEMMA LogTypedIs ==
  (LogTyped <=> LogTypedHere) /\ (LogTyped' <=> LogTypedHere')
  BY DEF LogTyped, LogTypedHere, Log!HTypeOK, Log!TypeOK, Log!LengthsAgree,
         Typed!HTypeOK, Typed!TypeOK, Typed!LengthsAgree

\* The manager's steps keep the types of the log.
LEMMA ManagerTyped ==
  ASSUME LogTyped, Log!HManager
  PROVE  LogTyped'
<1> USE TypedAssumptions
<1>1. Typed!HManager
  <2> USE DEF Log!Idle, Log!mgr, Typed!Idle, Typed!mgr, Typed!HManager
  <2>1. CASE Log!HSaveState
    BY <2>1 DEF Log!HSaveState, Log!SaveState, Typed!HSaveState, Typed!SaveState
  <2>2. CASE Log!HRecover
    BY <2>2 DEF
       Log!HRecover, Log!Recover, Log!Overshoots, Log!LastStateIndex, Log!RecoverCount, Log!Last, Log!Front,
       Typed!HRecover, Typed!Recover, Typed!Overshoots, Typed!LastStateIndex, Typed!RecoverCount,
       Typed!Last, Typed!Front
  <2>3. CASE Log!HRecoverRefused
    BY <2>3 DEF Log!HRecoverRefused, Log!RecoverRefused, Typed!HRecoverRefused, Typed!RecoverRefused
  <2>4. CASE Log!HUndo
    BY <2>4 DEF Log!HUndo, Log!Undo, Typed!HUndo, Typed!Undo
  <2>5. CASE Log!HUndoRaises
    BY <2>5 DEF Log!HUndoRaises, Log!UndoRaises, Typed!HUndoRaises, Typed!UndoRaises
  <2>6. CASE Log!HFlush
    BY <2>6 DEF Log!HFlush, Log!Flush, Typed!HFlush, Typed!Flush
  <2> QED BY <2>1, <2>2, <2>3, <2>4, <2>5, <2>6 DEF Log!HManager
<1>2. [Typed!HNext]_(Typed!hvars)
  BY <1>1 DEF Typed!HNext
<1>3. Typed!HTypeOK /\ Typed!LengthsAgree
  BY LogTypedIs DEF LogTypedHere
<1>4. Typed!HTypeOK' /\ Typed!LengthsAgree'
  BY <1>2, <1>3, Typed!TypeStep, Typed!LengthsStep
<1> QED BY <1>4, LogTypedIs DEF LogTypedHere

\* So does an edit that turns the tree into one, and has an operation to record.
LEMMA ChangeTyped ==
  ASSUME LogTyped, NEW u \in Tree, NEW op \in Op, Log!HChange(u, op)
  PROVE  LogTyped'
<1> USE DEF LogTyped, Log!HTypeOK, Log!TypeOK, Log!LengthsAgree
<1>1. CASE Log!ShouldRegisterOp
  <2>1. /\ op_list' = <<op>> \o op_list /\ trail' = <<tree>> \o trail /\ tree' = u /\ target' = NoTree
        /\ UNCHANGED <<state_stack, memorizing, undoing, remaining, saved, intact>> /\ remaining = 0
    BY <1>1 DEF Log!HChange, Log!Change, Log!AddOperation, Log!Idle
  <2>2. /\ op_list' \in Seq(Op) /\ trail' \in Seq(Tree)
        /\ Len(op_list') = Len(op_list) + 1 /\ Len(trail') = Len(trail) + 1 /\ Len(op_list) \in Nat
    BY <2>1, PushHead
  <2> QED BY <2>1, <2>2
<1>2. CASE ~Log!ShouldRegisterOp
  BY <1>2 DEF Log!HChange, Log!Change, Log!mgr
<1> QED BY <1>1, <1>2

-----------------------------------------------------------------------------
\* A method that removes terms finds each of them when its turn comes: they are
\* all the terms of the clause, in order, or there is one, and it is the next.

TermsFit(name, s) ==
  \/ agenda = Calls(name, s)
  \/ \A i \in 1 .. Len(agenda) : agenda[i].call = name => i = 1 /\ agenda[i].arg \in Range(s)

TypedInv ==
  /\ LogTyped
  /\ agenda \in Seq(Call)
  /\ strayed \subseteq {"equivalent groups", "having again", "term as a node"}
  /\ TermsFit("remove_sort_term", tree.orderby)
  /\ TermsFit("remove_group_term", tree.groupby)

Removal == {"remove_sort_term", "remove_group_term"}

\* Nothing to do, or nothing but other calls.
LEMMA NoTerms ==
  ASSUME \A i \in 1 .. Len(agenda') : agenda'[i].call \notin Removal
  PROVE  TermsFit("remove_sort_term", tree.orderby)' /\ TermsFit("remove_group_term", tree.groupby)'
  BY DEF TermsFit, Removal

\* The agenda that no method has.
LEMMA EmptyAgenda ==
  ASSUME agenda' = <<>>
  PROVE  /\ agenda' \in Seq(Call)
         /\ TermsFit("remove_sort_term", tree.orderby)' /\ TermsFit("remove_group_term", tree.groupby)'
<1>1. agenda' \in Seq(Call) /\ Len(agenda') = 0
  OBVIOUS
<1> QED BY <1>1, NoTerms

\* A method that makes one edit.
LEMMA EditOnceTyped ==
  ASSUME TypedInv, strayed' \subseteq {"equivalent groups", "having again", "term as a node"},
         NEW u \in Tree, NEW op \in Op, EditOnce(u, op)
  PROVE  TypedInv'
<1>1. LogTyped'
  BY ChangeTyped DEF TypedInv, EditOnce
<1>2. agenda' = <<>>
  BY DEF EditOnce
<1> QED BY <1>1, <1>2, EmptyAgenda DEF TypedInv

\* A list of calls.
LEMMA CallsAre ==
  ASSUME NEW S, NEW s \in Seq(S), NEW name
  PROVE  /\ Len(Calls(name, s)) = Len(s) /\ Len(s) \in Nat
         /\ \A i \in 1 .. Len(s) : Calls(name, s)[i] = [call |-> name, arg |-> s[i]] /\ s[i] \in S
         /\ (\A e \in S : [call |-> name, arg |-> e] \in Call) => Calls(name, s) \in Seq(Call)
<1>1. PICK n : n = Len(s)
  OBVIOUS
<1>2. n \in Nat /\ DOMAIN s = 1 .. n /\ \A i \in 1 .. n : s[i] \in S
  BY <1>1, LenProperties, ElementOfSeq
<1>3. Calls(name, s) = [i \in 1 .. n |-> [call |-> name, arg |-> s[i]]]
  BY <1>2 DEF Calls
<1>4. Len(Calls(name, s)) = n
  BY <1>2, <1>3
<1>5. (\A e \in S : [call |-> name, arg |-> e] \in Call) => Calls(name, s) \in Seq(Call)
  BY <1>2, <1>3
<1> QED BY <1>1, <1>2, <1>3, <1>4, <1>5

-----------------------------------------------------------------------------
\* Every step keeps the types.

\* The tree is one.
LEMMA TypedTree ==
  ASSUME TypedInv
  PROVE  tree \in Tree
  BY DEF TypedInv, LogTyped, Log!HTypeOK, Log!TypeOK

\* The methods that add a term, a relation or a variable.
LEMMA AddingTyped ==
  ASSUME TypedInv, NEW v \in Var, NEW w \in Var, NEW wrapped, NEW first,
         \/ AddSelected(v, wrapped, first) \/ AddGroupVar(v) \/ AddSortTerm(v, wrapped)
         \/ SetHaving(v) \/ AddRelation(v, w) \/ MakeVariable
  PROVE  TypedInv'
<1>0. tree \in Tree /\ strayed \subseteq {"equivalent groups", "having again", "term as a node"}
  BY TypedTree DEF TypedInv
<1>1. /\ Len(tree.selection) + 1 \in Nat \ {0} /\ Len(tree.groupby) + 1 \in Nat \ {0}
      /\ Len(tree.orderby) + 1 \in Nat \ {0} /\ 1 \in Nat \ {0}
  <2>1. tree.selection \in Seq(Ref) /\ tree.groupby \in Seq(Ref) /\ tree.orderby \in Seq(Ref)
    BY <1>0, TreeFacts
  <2>2. Len(tree.selection) \in Nat /\ Len(tree.groupby) \in Nat /\ Len(tree.orderby) \in Nat
    BY <2>1, LenProperties
  <2> QED BY <2>2
<1>2. [kind |-> "relation", refs |-> {}] \in Node
  BY DEF Node
<1>3. CASE AddSelected(v, wrapped, first)
  <2>1. PICK r, i : r = NewRef(v, wrapped) /\ i = IF first THEN 1 ELSE Len(tree.selection) + 1
    OBVIOUS
  <2>2. r \in Ref /\ i \in Nat \ {0}
    BY <1>1, <1>3, <2>1, NewRefIsNew DEF AddSelected, MayAdd
  <2>3. Selected(tree, r, i) \in Tree /\ [type |-> "SelectVar", node |-> r] \in Op
    BY <1>0, <1>2, <2>2, EditsAreTyped DEF Op
  <2>4. EditOnce(Selected(tree, r, i), [type |-> "SelectVar", node |-> r]) /\ strayed' = strayed
    BY <1>3, <2>1 DEF AddSelected
  <2> QED BY <1>0, <2>3, <2>4, EditOnceTyped
<1>4. CASE AddGroupVar(v)
  <2>1. PICK r, i : r = NewRef(v, FALSE) /\ i = Len(tree.groupby) + 1
    OBVIOUS
  <2>2. r \in Ref /\ i \in Nat \ {0}
    BY <1>1, <1>4, <2>1, NewRefIsNew DEF AddGroupVar, MayAdd
  <2>3. Grouped(tree, r, i) \in Tree /\ [type |-> "AddGroup", node |-> r] \in Op
    BY <1>0, <1>2, <2>2, EditsAreTyped DEF Op
  <2>4. /\ EditOnce(Grouped(tree, r, i), [type |-> "AddGroup", node |-> r])
        /\ strayed' \subseteq {"equivalent groups", "having again", "term as a node"}
    BY <1>0, <1>4, <2>1 DEF AddGroupVar
  <2> QED BY <2>3, <2>4, EditOnceTyped
<1>5. CASE AddSortTerm(v, wrapped)
  <2>1. PICK r, i : r = NewRef(v, wrapped) /\ i = Len(tree.orderby) + 1
    OBVIOUS
  <2>2. r \in Ref /\ i \in Nat \ {0}
    BY <1>1, <1>5, <2>1, NewRefIsNew DEF AddSortTerm, MayAdd
  <2>3. Sorted(tree, r, i) \in Tree /\ [type |-> "AddSort", node |-> r] \in Op
    BY <1>0, <1>2, <2>2, EditsAreTyped DEF Op
  <2>4. EditOnce(Sorted(tree, r, i), [type |-> "AddSort", node |-> r]) /\ strayed' = strayed
    BY <1>5, <2>1 DEF AddSortTerm
  <2> QED BY <1>0, <2>3, <2>4, EditOnceTyped
<1>6. CASE SetHaving(v)
  <2>1. PICK r : r = NewRef(v, TRUE)
    OBVIOUS
  <2>2. r \in Ref
    BY <1>6, <2>1, NewRefIsNew DEF SetHaving, MayAdd
  <2>3. <<r>> \in Seq(Ref)
    BY <2>2
  <2>4. PICK u, op : /\ u = [tree EXCEPT !.having = <<r>>, !.references = @ \cup {r}]
                     /\ op = [type |-> "SetHaving", value |-> tree.having]
    OBVIOUS
  <2>5. u \in Tree
    BY <1>0, <2>2, <2>3, <2>4 DEF Tree
  <2>6. op \in Op
    <3>1. tree.having \in Seq(Ref)
      BY <1>0, TreeFacts
    <3> QED BY <2>4, <3>1 DEF Op
  <2>7. EditOnce(u, op) /\ strayed' \subseteq {"equivalent groups", "having again", "term as a node"}
    BY <1>0, <1>6, <2>1, <2>4 DEF SetHaving
  <2> QED BY <2>5, <2>6, <2>7, EditOnceTyped
<1>7. CASE AddRelation(v, w)
  <2>1. PICK q \in Fresh(w, FALSE) :
          LET n == [kind |-> "relation", refs |-> {NewRef(v, FALSE), q}]
          IN  EditOnce(Restricted(tree, n), [type |-> "AddNode", node |-> n])
    BY <1>7 DEF AddRelation
  <2>2. PICK n : n = [kind |-> "relation", refs |-> {NewRef(v, FALSE), q}]
    OBVIOUS
  <2>3. q \in Ref /\ NewRef(v, FALSE) \in Ref
    BY <1>7, <2>1, NewRefIsNew DEF AddRelation, MayAdd, Fresh
  <2>4. n \in Node
    BY <2>2, <2>3 DEF Node
  <2>5. Restricted(tree, n) \in Tree /\ [type |-> "AddNode", node |-> n] \in Op
    BY <1>0, <2>4, TreeFacts DEF Restricted, Tree, Node, Op
  <2>6. EditOnce(Restricted(tree, n), [type |-> "AddNode", node |-> n]) /\ strayed' = strayed
    BY <1>7, <2>1, <2>2 DEF AddRelation
  <2> QED BY <1>0, <2>5, <2>6, EditOnceTyped
<1>8. CASE MakeVariable
  <2>1. PICK x \in Var : EditOnce([tree EXCEPT !.defined_vars = @ \cup {x}], [type |-> "MakeVar", node |-> x])
    BY <1>8 DEF MakeVariable
  <2>2. [tree EXCEPT !.defined_vars = @ \cup {x}] \in Tree /\ [type |-> "MakeVar", node |-> x] \in Op
    BY <1>0 DEF Tree, Op
  <2>3. strayed' = strayed
    BY <1>8 DEF MakeVariable
  <2> QED BY <1>0, <2>1, <2>2, <2>3, EditOnceTyped
<1> QED BY <1>3, <1>4, <1>5, <1>6, <1>7, <1>8

\* remove_selected.
LEMMA RemoveSelectedTyped ==
  ASSUME TypedInv, NEW r \in Ref, RemoveSelected(r)
  PROVE  TypedInv'
<1>0. tree \in Tree /\ strayed \subseteq {"equivalent groups", "having again", "term as a node"}
  BY TypedTree DEF TypedInv
<1>1. PICK i : i = IndexOf(tree.selection, r)
  OBVIOUS
<1>2. i \in Nat \ {0}
  <2>1. tree.selection \in Seq(Ref) /\ r \in Range(tree.selection)
    BY <1>0, TreeFacts DEF RemoveSelected
  <2>2. i \in 1 .. Len(tree.selection) /\ Len(tree.selection) \in Nat
    BY <1>1, <2>1, IndexTyped, LenProperties
  <2> QED BY <2>2
<1>3. Unselected(tree, r) \in Tree /\ [type |-> "UnselectVar", node |-> r, index |-> i] \in Op
  <2>1. [kind |-> "relation", refs |-> {}] \in Node /\ VarOf[r] \in Var
    BY VarOfAssumption DEF Node
  <2> QED BY <1>0, <1>2, <2>1, EditsAreTyped DEF Op
<1>4. EditOnce(Unselected(tree, r), [type |-> "UnselectVar", node |-> r, index |-> i]) /\ strayed' = strayed
  BY <1>1 DEF RemoveSelected
<1> QED BY <1>0, <1>3, <1>4, EditOnceTyped

\* A method that goes through calls changes nothing else when it begins.
LEMMA BeginTyped ==
  ASSUME TypedInv, strayed' \subseteq {"equivalent groups", "having again", "term as a node"},
         NEW calls \in Seq(Call), Begin(calls),
         /\ TermsFit("remove_sort_term", tree.orderby)'
         /\ TermsFit("remove_group_term", tree.groupby)'
  PROVE  TypedInv'
<1>1. agenda' = calls /\ UNCHANGED log
  BY DEF Begin
<1>2. LogTyped'
  BY <1>1 DEF TypedInv, LogTyped, log, Log!HTypeOK, Log!TypeOK, Log!LengthsAgree
<1> QED BY <1>1, <1>2 DEF TypedInv

OtherCalls(calls) == \A i \in 1 .. Len(calls) : calls[i].call \notin Removal

\* Calls that remove no term.
LEMMA OtherCallsConcat ==
  ASSUME NEW a \in Seq(Call), NEW b \in Seq(Call), OtherCalls(a), OtherCalls(b)
  PROVE  a \o b \in Seq(Call) /\ OtherCalls(a \o b)
<1>1. /\ a \o b \in Seq(Call) /\ Len(a \o b) = Len(a) + Len(b)
      /\ \A i \in 1 .. Len(a) + Len(b) : (a \o b)[i] = IF i <= Len(a) THEN a[i] ELSE b[i - Len(a)]
      /\ Len(a) \in Nat /\ Len(b) \in Nat
  BY ConcatProperties, LenProperties
<1>2. ASSUME NEW i \in 1 .. Len(a) + Len(b)
      PROVE  (a \o b)[i].call \notin Removal
  <2>1. CASE i <= Len(a)
    BY <1>1, <2>1 DEF OtherCalls
  <2>2. CASE ~(i <= Len(a))
    <3>1. i - Len(a) \in 1 .. Len(b)
      BY <1>1, <2>2
    <3> QED BY <1>1, <2>2, <3>1 DEF OtherCalls
  <2> QED BY <2>1, <2>2
<1> QED BY <1>1, <1>2 DEF OtherCalls

\* ... and a list of such calls.
LEMMA OtherCallsOf ==
  ASSUME NEW S, NEW s \in Seq(S), NEW name, name \notin Removal,
         \A e \in S : [call |-> name, arg |-> e] \in Call
  PROVE  Calls(name, s) \in Seq(Call) /\ OtherCalls(Calls(name, s))
<1>1. PICK calls : calls = Calls(name, s)
  OBVIOUS
<1>2. calls \in Seq(Call)
  BY <1>1, CallsAre
<1>3. Len(calls) = Len(s) /\ \A i \in 1 .. Len(s) : calls[i] = [call |-> name, arg |-> s[i]]
  BY <1>1, CallsAre
<1>4. ASSUME NEW i \in 1 .. Len(calls)
      PROVE  calls[i].call = name
  <2>1. calls[i] = [call |-> name, arg |-> s[i]]
    BY <1>3
  <2> QED BY <2>1
<1> QED BY <1>1, <1>2, <1>4 DEF OtherCalls

\* A method that removes no term.
LEMMA OthersBegin ==
  ASSUME TypedInv, strayed' = strayed, NEW calls \in Seq(Call), OtherCalls(calls), Begin(calls)
  PROVE  TypedInv'
<1>1. agenda' = calls
  BY DEF Begin
<1>2. /\ TermsFit("remove_sort_term", tree.orderby)' /\ TermsFit("remove_group_term", tree.groupby)'
  BY <1>1, NoTerms DEF OtherCalls
<1>3. strayed' \subseteq {"equivalent groups", "having again", "term as a node"}
  BY DEF TypedInv
<1> QED BY <1>2, <1>3, BeginTyped

\* remove_node of a relation.
LEMMA RemoveNodeTyped ==
  ASSUME TypedInv, NEW n, NEW undefine, RemoveNode(n, undefine)
  PROVE  TypedInv'
<1> DEFINE unused == {v \in tree.defined_vars :
                        References(tree, v) # {} /\ References(tree, v) \subseteq n.refs}
           S      == IF undefine THEN unused ELSE {}
<1>1. n \in Node /\ strayed' = strayed /\ tree.defined_vars \subseteq Var
  BY TypedTree, TreeFacts DEF RemoveNode
<1>2. PICK s \in SetToSeqs(S) : Begin(Calls("undefine", s) \o Calls("remove_node", <<n>>))
  BY DEF RemoveNode
<1>3. S \in SUBSET Var
  BY <1>1
<1> HIDE DEF S
<1>4. s \in Seq(Var)
  <2>1. Cardinality(S) \in Nat
    BY <1>3, FiniteAssumption, FS_Subset, FS_CardinalityType
  <2>2. s \in [1 .. Cardinality(S) -> S]
    BY DEF SetToSeqs
  <2>3. s \in [1 .. Cardinality(S) -> Var]
    BY <1>3, <2>2
  <2> QED BY <2>1, <2>3
<1>5. <<n>> \in Seq(Node)
  BY <1>1
<1>6. /\ \A e \in Var : [call |-> "undefine", arg |-> e] \in Call
      /\ \A e \in Node : [call |-> "remove_node", arg |-> e] \in Call
      /\ "undefine" \notin Removal /\ "remove_node" \notin Removal
  BY DEF Call, Removal
<1>7. Calls("undefine", s) \in Seq(Call) /\ OtherCalls(Calls("undefine", s))
  BY <1>4, <1>6, OtherCallsOf
<1>8. Calls("remove_node", <<n>>) \in Seq(Call) /\ OtherCalls(Calls("remove_node", <<n>>))
  BY <1>5, <1>6, OtherCallsOf
<1> QED BY <1>1, <1>2, <1>7, <1>8, OtherCallsConcat, OthersBegin

\* undefine_variable.
LEMMA UndefineVariableTyped ==
  ASSUME TypedInv, NEW v, UndefineVariable(v)
  PROVE  TypedInv'
<1> DEFINE refs == References(tree, v)
           a == IF refs = {} THEN <<>> ELSE Calls("drop", <<refs>>)
<1>1. v \in Var /\ strayed' = strayed /\ Begin(a \o Calls("undefine", <<v>>)) /\ refs \in SUBSET Ref
  BY TypedTree, TreeFacts DEF UndefineVariable, References
<1> HIDE DEF refs
<1>2. /\ \A e \in Var : [call |-> "undefine", arg |-> e] \in Call
      /\ \A e \in SUBSET Ref : [call |-> "drop", arg |-> e] \in Call
      /\ "undefine" \notin Removal /\ "drop" \notin Removal
  BY DEF Call, Removal
<1>3. a \in Seq(Call) /\ OtherCalls(a)
  <2>1. <<refs>> \in Seq(SUBSET Ref)
    BY <1>1
  <2>2. Calls("drop", <<refs>>) \in Seq(Call) /\ OtherCalls(Calls("drop", <<refs>>))
    BY <1>2, <2>1, OtherCallsOf
  <2>3. <<>> \in Seq(Call) /\ OtherCalls(<<>>)
    BY DEF OtherCalls
  <2> QED BY <2>2, <2>3
<1>4. Calls("undefine", <<v>>) \in Seq(Call) /\ OtherCalls(Calls("undefine", <<v>>))
  <2>1. <<v>> \in Seq(Var)
    BY <1>1
  <2> QED BY <1>2, <2>1, OtherCallsOf
<1> HIDE DEF a
<1> QED BY <1>1, <1>3, <1>4, OtherCallsConcat, OthersBegin

\* The methods that remove terms.
LEMMA RemoveTermTyped ==
  ASSUME TypedInv, NEW r \in Ref, RemoveSortTerm(r) \/ RemoveGroupTerm(r) \/ RemoveTermNode(r)
  PROVE  TypedInv'
<1>1. PICK name : name = IF RemoveSortTerm(r) \/ (RemoveTermNode(r) /\ r \in Range(tree.orderby))
                         THEN "remove_sort_term" ELSE "remove_group_term"
  OBVIOUS
<1>2. PICK c, d : /\ c = [call |-> name, arg |-> r]
                  /\ d = [call |-> "remove_node", arg |-> [kind |-> "term", refs |-> {r}]]
  OBVIOUS
<1>3. c \in Call /\ d \in Call
  <2>1. [kind |-> "term", refs |-> {r}] \in Node
    BY DEF Node
  <2> QED BY <1>1, <1>2, <2>1 DEF Call
<1>4. Calls(name, <<r>>) = <<c>> /\ Calls("remove_node", <<[kind |-> "term", refs |-> {r}]>>) = <<d>>
  BY <1>2 DEF Calls
<1>5. PICK one, two : one = <<c>> /\ two = <<c>> \o <<d>>
  OBVIOUS
<1>6. PICK calls \in {one, two} : Begin(calls)
  <2>1. CASE RemoveSortTerm(r)
    BY <1>1, <1>4, <1>5, <2>1 DEF RemoveSortTerm
  <2>2. CASE ~RemoveSortTerm(r) /\ RemoveTermNode(r)
    BY <1>1, <1>4, <1>5, <2>2 DEF RemoveTermNode
  <2>3. CASE ~RemoveSortTerm(r) /\ ~RemoveTermNode(r)
    BY <1>1, <1>4, <1>5, <2>3 DEF RemoveGroupTerm
  <2> QED BY <2>1, <2>2, <2>3
<1>7. /\ name = "remove_sort_term" => r \in Range(tree.orderby)
      /\ name = "remove_group_term" => r \in Range(tree.groupby)
  BY <1>1 DEF RemoveSortTerm, RemoveGroupTerm, RemoveTermNode
<1>8. /\ calls \in Seq(Call) /\ Len(calls) \in 1 .. 2 /\ calls[1] = c
      /\ Len(calls) = 2 => calls[2] = d
  <2> DEFINE a == <<c>>
             b == <<d>>
  <2>1. a \in Seq(Call) /\ b \in Seq(Call) /\ Len(a) = 1 /\ Len(b) = 1 /\ a[1] = c /\ b[1] = d
    BY <1>3
  <2>2. one = a /\ two = a \o b
    BY <1>5
  <2> HIDE DEF a, b
  <2>3. /\ a \o b \in Seq(Call) /\ Len(a \o b) = Len(a) + Len(b)
        /\ \A i \in 1 .. Len(a) + Len(b) : (a \o b)[i] = IF i <= Len(a) THEN a[i] ELSE b[i - Len(a)]
    BY <2>1, ConcatProperties
  <2>4. two \in Seq(Call) /\ Len(two) = 2 /\ two[1] = c /\ two[2] = d
    BY <2>1, <2>2, <2>3
  <2>5. CASE calls = one
    BY <2>1, <2>2, <2>5
  <2>6. CASE calls = two
    BY <2>4, <2>6
  <2> QED BY <1>6, <2>5, <2>6
<1>9. \A i \in 1 .. Len(calls) : calls[i].call \in Removal => i = 1 /\ calls[i].call = name /\ calls[i].arg = r
  BY <1>2, <1>8 DEF Removal
<1>10. agenda' = calls /\ tree' = tree
  BY <1>6 DEF Begin, log
<1>11. /\ TermsFit("remove_sort_term", tree.orderby)' /\ TermsFit("remove_group_term", tree.groupby)'
  BY <1>7, <1>9, <1>10 DEF TermsFit, Removal
<1>12. strayed' \subseteq {"equivalent groups", "having again", "term as a node"}
  BY DEF TypedInv, RemoveSortTerm, RemoveGroupTerm, RemoveTermNode
<1> QED BY <1>6, <1>8, <1>11, <1>12, BeginTyped

\* remove_sort_terms and remove_groups.
LEMMA RemoveTermsTyped ==
  ASSUME TypedInv, RemoveSortTerms \/ RemoveGroups
  PROVE  TypedInv'
<1>1. tree.orderby \in Seq(Ref) /\ tree.groupby \in Seq(Ref)
  BY TypedTree, TreeFacts
<1>2. \A e \in Ref, name \in Removal : [call |-> name, arg |-> e] \in Call
  BY DEF Call, Removal
<1>3. strayed' \subseteq {"equivalent groups", "having again", "term as a node"}
  BY DEF TypedInv, RemoveSortTerms, RemoveGroups
<1>4. ASSUME NEW name \in Removal, NEW other \in Removal, name # other, NEW s \in Seq(Ref), NEW z,
             agenda' = Calls(name, s)
      PROVE  agenda' \in Seq(Call) /\ TermsFit(name, s)' /\ TermsFit(other, z)'
  <2>1. Calls(name, s) \in Seq(Call)
    BY <1>2, CallsAre
  <2>2. \A i \in 1 .. Len(agenda') : agenda'[i].call = name
    <3>1. PICK calls : calls = Calls(name, s)
      OBVIOUS
    <3>2. Len(calls) = Len(s) /\ \A i \in 1 .. Len(s) : calls[i] = [call |-> name, arg |-> s[i]]
      BY <3>1, CallsAre
    <3>3. ASSUME NEW i \in 1 .. Len(calls)
          PROVE  calls[i].call = name
      <4>1. calls[i] = [call |-> name, arg |-> s[i]]
        BY <3>2
      <4> QED BY <4>1
    <3> QED BY <1>4, <3>1, <3>3
  <2> QED BY <1>4, <2>1, <2>2 DEF TermsFit, Calls
<1>5. CASE RemoveSortTerms
  <2>1. Begin(Calls("remove_sort_term", tree.orderby))
    BY <1>5 DEF RemoveSortTerms
  <2>2. agenda' = Calls("remove_sort_term", tree.orderby) /\ tree' = tree
    BY <2>1 DEF Begin, log
  <2>3. /\ Calls("remove_sort_term", tree.orderby) \in Seq(Call)
        /\ TermsFit("remove_sort_term", tree.orderby)' /\ TermsFit("remove_group_term", tree.groupby)'
    BY <1>1, <1>4, <2>2 DEF Removal
  <2> QED BY <1>3, <2>1, <2>3, BeginTyped
<1>6. CASE RemoveGroups
  <2>1. Begin(Calls("remove_group_term", tree.groupby))
    BY <1>6 DEF RemoveGroups
  <2>2. agenda' = Calls("remove_group_term", tree.groupby) /\ tree' = tree
    BY <2>1 DEF Begin, log
  <2>3. /\ Calls("remove_group_term", tree.groupby) \in Seq(Call)
        /\ TermsFit("remove_sort_term", tree.orderby)' /\ TermsFit("remove_group_term", tree.groupby)'
    BY <1>1, <1>4, <2>2 DEF Removal
  <2> QED BY <1>3, <2>1, <2>3, BeginTyped
<1> QED BY <1>5, <1>6

\* The calls that remain are those on the terms that remain.
LEMMA CallsTail ==
  ASSUME NEW S, NEW s \in Seq(S), s # <<>>, NEW name
  PROVE  /\ Head(Calls(name, s)) = [call |-> name, arg |-> Head(s)]
         /\ Tail(Calls(name, s)) = Calls(name, Tail(s))
         /\ \A i \in 1 .. Len(Tail(Calls(name, s))) : Tail(Calls(name, s))[i].call = name
<1>1. PICK T : T = {[call |-> name, arg |-> e] : e \in S}
  OBVIOUS
<1>2. PICK a, b, c : a = Calls(name, s) /\ b = Tail(a) /\ c = Calls(name, Tail(s))
  OBVIOUS
<1>3. Len(s) \in Nat \ {0} /\ Tail(s) \in Seq(S) /\ Len(Tail(s)) = Len(s) - 1
      /\ Head(s) = s[1] /\ \A i \in 1 .. Len(s) - 1 : Tail(s)[i] = s[i + 1]
  BY EmptySeq, LenProperties
<1>4. a \in Seq(T) /\ Len(a) = Len(s) /\ \A i \in 1 .. Len(s) : a[i] = [call |-> name, arg |-> s[i]]
  <2>1. DOMAIN s = 1 .. Len(s) /\ \A i \in 1 .. Len(s) : s[i] \in S
    BY LenProperties, ElementOfSeq
  <2>2. a = [i \in 1 .. Len(s) |-> [call |-> name, arg |-> s[i]]]
    BY <1>2, <2>1 DEF Calls
  <2>3. \A i \in 1 .. Len(s) : [call |-> name, arg |-> s[i]] \in T
    BY <1>1, <2>1
  <2>4. Len(s) \in Nat
    BY <1>3
  <2>5. a \in Seq(T)
    BY <2>2, <2>3, <2>4
  <2>6. Len(a) = Len(s)
    BY <2>2, <2>4
  <2> QED BY <2>2, <2>5, <2>6
<1>5. c \in Seq(T) /\ Len(c) = Len(s) - 1 /\ \A i \in 1 .. Len(s) - 1 : c[i] = [call |-> name, arg |-> s[i + 1]]
  <2>1. PICK t, n : t = Tail(s) /\ n = Len(s) - 1
    OBVIOUS
  <2>2. n \in Nat /\ t \in Seq(S) /\ Len(t) = n /\ \A i \in 1 .. n : t[i] = s[i + 1]
    BY <1>3, <2>1
  <2>3. DOMAIN t = 1 .. n /\ \A i \in 1 .. n : t[i] \in S
    BY <2>2, LenProperties, ElementOfSeq
  <2>4. c = [i \in 1 .. n |-> [call |-> name, arg |-> t[i]]]
    BY <1>2, <2>1, <2>3 DEF Calls
  <2>5. \A i \in 1 .. n : [call |-> name, arg |-> t[i]] \in T
    BY <1>1, <2>3
  <2>6. c \in Seq(T)
    BY <2>2, <2>4, <2>5
  <2>7. Len(c) = n
    BY <2>2, <2>4
  <2> QED BY <2>1, <2>2, <2>4, <2>6, <2>7
<1>6. b \in Seq(T) /\ Len(b) = Len(s) - 1 /\ (\A i \in 1 .. Len(s) - 1 : b[i] = a[i + 1]) /\ Head(a) = a[1]
  BY <1>2, <1>3, <1>4
<1>7. \A i \in 1 .. Len(s) - 1 : b[i] = [call |-> name, arg |-> s[i + 1]]
  <2>1. SUFFICES ASSUME NEW i \in 1 .. Len(s) - 1
                 PROVE  b[i] = [call |-> name, arg |-> s[i + 1]]
    OBVIOUS
  <2>2. i + 1 \in 1 .. Len(s)
    BY <1>3
  <2> QED BY <1>4, <1>6, <2>2
<1>8. b = c
  <2>1. Len(b) = Len(c) /\ \A i \in 1 .. Len(b) : b[i] = c[i]
    BY <1>5, <1>6, <1>7
  <2> QED BY <1>5, <1>6, <2>1, SeqEqual
<1>9. ASSUME NEW i \in 1 .. Len(b)
      PROVE  b[i].call = name
  <2>1. b[i] = [call |-> name, arg |-> s[i + 1]]
    BY <1>6, <1>7
  <2> QED BY <2>1
<1>10. Head(a) = [call |-> name, arg |-> Head(s)]
  <2>1. 1 \in 1 .. Len(s)
    BY <1>3
  <2> QED BY <1>3, <1>4, <1>6, <2>1
<1> QED BY <1>2, <1>8, <1>9, <1>10

\* Whatever comes next, nothing after it is in the way.
LEMMA RestOfAgenda ==
  ASSUME agenda \in Seq(Call), agenda # <<>>, NEW name, NEW s \in Seq(Ref), TermsFit(name, s)
  PROVE  \/ agenda = Calls(name, s) /\ s # <<>>
         \/ /\ Head(agenda).call = name => Head(agenda).arg \in Range(s)
            /\ \A i \in 1 .. Len(Tail(agenda)) : Tail(agenda)[i].call # name
<1>1. /\ Len(agenda) \in Nat \ {0} /\ Head(agenda) = agenda[1] /\ Len(Tail(agenda)) = Len(agenda) - 1
      /\ \A i \in 1 .. Len(agenda) - 1 : Tail(agenda)[i] = agenda[i + 1]
  BY EmptySeq, LenProperties
<1>2. CASE agenda = Calls(name, s)
  <2>1. Len(Calls(name, s)) = Len(s)
    BY CallsAre
  <2>2. s # <<>>
    BY <1>1, <1>2, <2>1
  <2> QED BY <1>2, <2>2
<1>3. CASE \A i \in 1 .. Len(agenda) : agenda[i].call = name => i = 1 /\ agenda[i].arg \in Range(s)
  <2>1. 1 \in 1 .. Len(agenda)
    BY <1>1
  <2>2. Head(agenda).call = name => Head(agenda).arg \in Range(s)
    BY <1>1, <1>3, <2>1
  <2>3. ASSUME NEW i \in 1 .. Len(Tail(agenda))
        PROVE  Tail(agenda)[i].call # name
    <3>1. i + 1 \in 1 .. Len(agenda) /\ i + 1 # 1 /\ Tail(agenda)[i] = agenda[i + 1]
      BY <1>1
    <3> QED BY <1>3, <3>1
  <2> QED BY <2>2, <2>3
<1> QED BY <1>2, <1>3 DEF TermsFit

\* The agenda of a method whose next call is another.
LEMMA OtherNext ==
  ASSUME TypedInv, agenda # <<>>, Head(agenda).call \notin Removal
  PROVE  OtherCalls(Tail(agenda))
<1>1. tree.orderby \in Seq(Ref) /\ tree.groupby \in Seq(Ref) /\ agenda \in Seq(Call)
  BY TypedTree, TreeFacts DEF TypedInv
<1>2. ASSUME NEW name \in Removal, NEW s \in Seq(Ref), TermsFit(name, s)
      PROVE  \A i \in 1 .. Len(Tail(agenda)) : Tail(agenda)[i].call # name
  <2>1. CASE agenda = Calls(name, s) /\ s # <<>>
    <3>1. Head(agenda) = [call |-> name, arg |-> Head(s)]
      BY <2>1, CallsTail
    <3> QED BY <3>1
  <2> QED BY <1>1, <1>2, <2>1, RestOfAgenda
<1>3. /\ \A i \in 1 .. Len(Tail(agenda)) : Tail(agenda)[i].call # "remove_sort_term"
      /\ \A i \in 1 .. Len(Tail(agenda)) : Tail(agenda)[i].call # "remove_group_term"
  BY <1>1, <1>2 DEF TypedInv, Removal
<1> QED BY <1>3 DEF OtherCalls, Removal

\* One call of a method that removes terms: it finds its term.
LEMMA TermCallTyped ==
  ASSUME TypedInv, agenda # <<>>,
         NEW name \in Removal, NEW other \in Removal, name # other, Head(agenda).call = name,
         NEW s \in Seq(Ref), NEW z \in Seq(Ref), TermsFit(name, s), TermsFit(other, z),
         agenda' = Tail(agenda)
  PROVE  /\ Head(agenda).arg \in Range(s)
         /\ \/ \A i \in 1 .. Len(agenda') : agenda'[i].call \notin Removal
            \/ /\ Head(agenda).arg = Head(s) /\ s # <<>>
               /\ agenda' = Calls(name, Tail(s))
               /\ \A i \in 1 .. Len(agenda') : agenda'[i].call # other
<1>1. agenda \in Seq(Call)
  BY DEF TypedInv
<1>2. \A i \in 1 .. Len(agenda') : agenda'[i].call # other
  <2>1. CASE agenda = Calls(other, z) /\ z # <<>>
    <3>1. Head(agenda) = [call |-> other, arg |-> Head(z)]
      BY <2>1, CallsTail
    <3> QED BY <3>1
  <2> QED BY <1>1, <2>1, RestOfAgenda
<1>3. CASE agenda = Calls(name, s) /\ s # <<>>
  <2>1. Head(agenda) = [call |-> name, arg |-> Head(s)] /\ agenda' = Calls(name, Tail(s))
    BY <1>3, CallsTail
  <2>2. Head(s) \in Range(s)
    <3>1. Len(s) \in Nat \ {0} /\ Head(s) = s[1]
      BY <1>3, EmptySeq, LenProperties
    <3>2. 1 \in 1 .. Len(s)
      BY <3>1
    <3> QED BY <3>1, <3>2, ListRange
  <2> QED BY <1>2, <1>3, <2>1, <2>2
<1>4. CASE /\ Head(agenda).call = name => Head(agenda).arg \in Range(s)
           /\ \A i \in 1 .. Len(Tail(agenda)) : Tail(agenda)[i].call # name
  <2>1. \A k : k # name /\ k # other => k \notin Removal
    BY DEF Removal
  <2> QED BY <1>2, <1>4, <2>1
<1> QED BY <1>1, <1>3, <1>4, RestOfAgenda

\* The next call and those after it.
LEMMA FirstOf ==
  ASSUME NEW S, NEW s \in Seq(S), s # <<>>
  PROVE  /\ Len(s) \in Nat \ {0} /\ Head(s) = s[1] /\ s[1] \in S
         /\ Tail(s) \in Seq(S) /\ Len(Tail(s)) = Len(s) - 1
         /\ \A i \in 1 .. Len(s) - 1 : Tail(s)[i] = s[i + 1]
<1>1. Len(s) > 0
  BY EmptySeq, LenProperties
<1> QED BY <1>1, PopHead

\* Another call in the place of the next one.
LEMMA FirstReplaced ==
  ASSUME NEW S, NEW s \in Seq(S), s # <<>>, NEW c \in S, NEW t, t = [s EXCEPT ![1] = c]
  PROVE  /\ t \in Seq(S) /\ Len(t) = Len(s) /\ t[1] = c
         /\ \A i \in 1 .. Len(s) : i # 1 => t[i] = s[i]
<1>1. PICK n : n = Len(s)
  OBVIOUS
<1>2. n \in Nat \ {0} /\ DOMAIN s = 1 .. n /\ \A i \in 1 .. n : s[i] \in S
  BY <1>1, FirstOf, LenProperties, ElementOfSeq
<1>3. t = [i \in 1 .. n |-> IF i = 1 THEN c ELSE s[i]]
  BY <1>2
<1>4. t \in Seq(S)
  BY <1>2, <1>3
<1>5. Len(t) = n
  BY <1>2, <1>3
<1>6. 1 \in 1 .. n
  BY <1>2
<1>7. t[1] = c /\ \A i \in 1 .. n : i # 1 => t[i] = s[i]
  BY <1>3, <1>6
<1> QED BY <1>1, <1>4, <1>5, <1>7

\* A call of the running method.
LEMMA ProceedTyped ==
  ASSUME TypedInv, Proceed
  PROVE  TypedInv'
<1>1. PICK c : c = Head(agenda)
  OBVIOUS
<1>2. /\ agenda \in Seq(Call) /\ agenda # <<>> /\ agenda' = Tail(agenda) /\ strayed' = strayed
      /\ c.call # "drop" /\ Log!HChange(CallEdit(c).tree, CallEdit(c).op)
  BY <1>1 DEF TypedInv, Proceed
<1>3. c \in Call /\ agenda' \in Seq(Call)
  BY <1>1, <1>2, FirstOf
<1>4. /\ tree \in Tree /\ tree.orderby \in Seq(Ref) /\ tree.groupby \in Seq(Ref)
      /\ LogTyped /\ TermsFit("remove_sort_term", tree.orderby) /\ TermsFit("remove_group_term", tree.groupby)
      /\ strayed \subseteq {"equivalent groups", "having again", "term as a node"}
  BY TypedTree, TreeFacts DEF TypedInv
<1>5. ASSUME NEW u \in Tree, NEW op \in Op, Log!HChange(u, op),
             TermsFit("remove_sort_term", tree.orderby)', TermsFit("remove_group_term", tree.groupby)'
      PROVE  TypedInv'
  BY <1>2, <1>3, <1>4, <1>5, ChangeTyped DEF TypedInv
<1>6. CASE c.call = "undefine"
  <2>1. c.arg \in Var
    BY <1>3, <1>6 DEF Call
  <2>2. PICK u, op : u = CallEdit(c).tree /\ op = CallEdit(c).op
    OBVIOUS
  <2>3. u = Undefined(tree, c.arg)
        /\ op = [type |-> "UndefineVar", node |-> c.arg, solutions |-> tree.solutions]
    BY <1>6, <2>2 DEF CallEdit
  <2>4. u \in Tree /\ op \in Op
    BY <1>4, <2>1, <2>3 DEF Undefined, Tree, Op
  <2>5. OtherCalls(Tail(agenda))
    BY <1>1, <1>2, <1>6, OtherNext DEF Removal
  <2> QED BY <1>2, <1>5, <2>2, <2>4, <2>5, NoTerms DEF OtherCalls
<1>7. CASE c.call = "remove_node"
  <2>1. c.arg \in Node
    BY <1>3, <1>7 DEF Call
  <2>2. PICK u, op : u = CallEdit(c).tree /\ op = CallEdit(c).op
    OBVIOUS
  <2>3. u = Unrestricted(tree, c.arg) /\ op = [type |-> "RemoveNode", node |-> c.arg]
    BY <1>7, <2>2 DEF CallEdit
  <2>4. u \in Tree /\ op \in Op
    BY <1>4, <2>1, <2>3 DEF Unrestricted, Tree, Node, Op
  <2>5. OtherCalls(Tail(agenda))
    BY <1>1, <1>2, <1>7, OtherNext DEF Removal
  <2> QED BY <1>2, <1>5, <2>2, <2>4, <2>5, NoTerms DEF OtherCalls
<1>8. CASE c.call = "remove_sort_term"
  <2>1. c.arg \in Ref
    BY <1>3, <1>8 DEF Call
  <2>2. PICK u, i : u = Unsorted(tree, c.arg) /\ i = IndexOf(tree.orderby, c.arg)
    OBVIOUS
  <2>3. CallEdit(c) = [tree |-> u, op |-> [type |-> "RemoveSort", node |-> c.arg, index |-> i]]
    BY <1>8, <2>2 DEF CallEdit
  <2>4. /\ c.arg \in Range(tree.orderby)
        /\ \/ \A k \in 1 .. Len(agenda') : agenda'[k].call \notin Removal
           \/ /\ c.arg = Head(tree.orderby) /\ tree.orderby # <<>>
              /\ agenda' = Calls("remove_sort_term", Tail(tree.orderby))
              /\ \A k \in 1 .. Len(agenda') : agenda'[k].call # "remove_group_term"
    <3>1. "remove_sort_term" \in Removal /\ "remove_group_term" \in Removal
      BY DEF Removal
    <3> QED BY <1>1, <1>2, <1>4, <1>8, <3>1, TermCallTyped
  <2>5. i \in Nat \ {0}
    <3>1. i \in 1 .. Len(tree.orderby) /\ Len(tree.orderby) \in Nat
      BY <1>4, <2>2, <2>4, IndexTyped, LenProperties
    <3> QED BY <3>1
  <2>6. u.orderby = RemoveFirst(tree.orderby, c.arg) /\ u \in Tree
    <3>1. RemoveFirst(tree.orderby, c.arg) \in Seq(Ref)
      BY <1>4, RemoveTyped
    <3> QED BY <1>4, <2>2, <3>1 DEF Unsorted, Tree
  <2>7. [type |-> "RemoveSort", node |-> c.arg, index |-> i] \in Op
    BY <2>1, <2>5 DEF Op
  <2>8. Log!HChange(u, [type |-> "RemoveSort", node |-> c.arg, index |-> i])
    BY <1>2, <2>3
  <2>9. tree' = u
    BY <2>8, ChangeFacts
  <2>10. TermsFit("remove_sort_term", tree.orderby)' /\ TermsFit("remove_group_term", tree.groupby)'
    <3>1. CASE \A k \in 1 .. Len(agenda') : agenda'[k].call \notin Removal
      BY <3>1, NoTerms
    <3>2. CASE /\ c.arg = Head(tree.orderby) /\ tree.orderby # <<>>
               /\ agenda' = Calls("remove_sort_term", Tail(tree.orderby))
               /\ \A k \in 1 .. Len(agenda') : agenda'[k].call # "remove_group_term"
      <4>1. tree'.orderby = Tail(tree.orderby)
        BY <1>4, <2>6, <2>9, <3>2, RemoveHead
      <4>2. TermsFit("remove_sort_term", tree.orderby)'
        BY <3>2, <4>1 DEF TermsFit, Calls
      <4> QED BY <3>2, <4>2 DEF TermsFit
    <3> QED BY <2>4, <3>1, <3>2
  <2> QED BY <1>5, <2>6, <2>7, <2>8, <2>10
<1>9. CASE c.call = "remove_group_term"
  <2>1. c.arg \in Ref
    BY <1>3, <1>9 DEF Call
  <2>2. PICK u, i : u = Ungrouped(tree, c.arg) /\ i = IndexOf(tree.groupby, c.arg)
    OBVIOUS
  <2>3. CallEdit(c) = [tree |-> u, op |-> [type |-> "RemoveGroup", node |-> c.arg, index |-> i]]
    BY <1>9, <2>2 DEF CallEdit
  <2>4. /\ c.arg \in Range(tree.groupby)
        /\ \/ \A k \in 1 .. Len(agenda') : agenda'[k].call \notin Removal
           \/ /\ c.arg = Head(tree.groupby) /\ tree.groupby # <<>>
              /\ agenda' = Calls("remove_group_term", Tail(tree.groupby))
              /\ \A k \in 1 .. Len(agenda') : agenda'[k].call # "remove_sort_term"
    <3>1. "remove_sort_term" \in Removal /\ "remove_group_term" \in Removal
      BY DEF Removal
    <3> QED BY <1>1, <1>2, <1>4, <1>9, <3>1, TermCallTyped
  <2>5. i \in Nat \ {0}
    <3>1. i \in 1 .. Len(tree.groupby) /\ Len(tree.groupby) \in Nat
      BY <1>4, <2>2, <2>4, IndexTyped, LenProperties
    <3> QED BY <3>1
  <2>6. u.groupby = WithoutEquivalent(tree.groupby, c.arg) /\ u \in Tree
    <3>1. PICK f : f = WithoutEquivalent(tree.groupby, c.arg)
      OBVIOUS
    <3>2. f \in Seq(Ref)
      BY <1>4, <3>1, RemoveTyped
    <3>3. u = [tree EXCEPT !.groupby = f, !.references = @ \ {c.arg}]
      BY <2>2, <3>1 DEF Ungrouped, WithoutEquivalent
    <3> QED BY <1>4, <3>1, <3>2, <3>3 DEF Tree
  <2>7. [type |-> "RemoveGroup", node |-> c.arg, index |-> i] \in Op
    BY <2>1, <2>5 DEF Op
  <2>8. Log!HChange(u, [type |-> "RemoveGroup", node |-> c.arg, index |-> i])
    BY <1>2, <2>3
  <2>9. tree' = u
    BY <2>8, ChangeFacts
  <2>10. TermsFit("remove_sort_term", tree.orderby)' /\ TermsFit("remove_group_term", tree.groupby)'
    <3>1. CASE \A k \in 1 .. Len(agenda') : agenda'[k].call \notin Removal
      BY <3>1, NoTerms
    <3>2. CASE /\ c.arg = Head(tree.groupby) /\ tree.groupby # <<>>
               /\ agenda' = Calls("remove_group_term", Tail(tree.groupby))
               /\ \A k \in 1 .. Len(agenda') : agenda'[k].call # "remove_sort_term"
      <4>1. tree'.groupby = Tail(tree.groupby)
        BY <1>4, <2>6, <2>9, <3>2, RemoveHead
      <4>2. TermsFit("remove_group_term", tree.groupby)'
        BY <3>2, <4>1 DEF TermsFit, Calls
      <4> QED BY <3>2, <4>2 DEF TermsFit
    <3> QED BY <2>4, <3>1, <3>2
  <2> QED BY <1>5, <2>6, <2>7, <2>8, <2>10
<1>10. c.call \in {"undefine", "remove_node", "remove_sort_term", "remove_group_term"}
  BY <1>2, <1>3 DEF Call
<1> QED BY <1>6, <1>7, <1>8, <1>9, <1>10

\* A turn of the loop of undefine_variable.
LEMMA DropTyped ==
  ASSUME TypedInv, NEW r \in Ref, Drop(r)
  PROVE  TypedInv'
<1>1. /\ agenda \in Seq(Call) /\ agenda # <<>> /\ Head(agenda).call = "drop" /\ strayed' = strayed
      /\ Log!HChange(DropEdit(tree, r).tree, DropEdit(tree, r).op) /\ ~DropRaises(tree, r)
      /\ strayed \subseteq {"equivalent groups", "having again", "term as a node"}
  BY DEF TypedInv, Drop, Dropping
<1>2. LogTyped'
  <2>1. DropEdit(tree, r).tree \in Tree /\ DropEdit(tree, r).op \in Op
    BY <1>1, TypedTree, DropIsTyped
  <2> QED BY <1>1, <2>1, ChangeTyped DEF TypedInv
<1>3. OtherCalls(Tail(agenda))
  BY <1>1, OtherNext DEF Removal
<1>4. /\ Len(agenda) \in Nat \ {0} /\ Head(agenda) = agenda[1] /\ agenda[1] \in Call
      /\ Tail(agenda) \in Seq(Call) /\ Len(Tail(agenda)) = Len(agenda) - 1
      /\ \A i \in 1 .. Len(agenda) - 1 : Tail(agenda)[i] = agenda[i + 1]
  <2>1. agenda \in Seq(Call) /\ agenda # <<>>
    BY <1>1
  <2> QED BY ONLY <2>1, FirstOf
<1>5. CASE Head(agenda).arg = {r}
  <2>1. agenda' = Tail(agenda)
    BY <1>5 DEF Drop
  <2>2. TermsFit("remove_sort_term", tree.orderby)' /\ TermsFit("remove_group_term", tree.groupby)'
    BY <1>3, <2>1, NoTerms DEF OtherCalls
  <2> QED BY <1>1, <1>2, <1>4, <2>1, <2>2 DEF TypedInv
<1>6. CASE Head(agenda).arg # {r}
  <2>1. PICK c : c = [agenda[1] EXCEPT !.arg = @ \ {r}]
    OBVIOUS
  <2>2. agenda' = [agenda EXCEPT ![1] = c]
    BY <1>6, <2>1 DEF Drop
  <2>3. c \in Call /\ c.call = "drop"
    <3>1. agenda[1] \in [call : {"drop"}, arg : SUBSET Ref]
      BY <1>1, <1>4 DEF Call
    <3> QED BY <2>1, <3>1 DEF Call
  <2>4. /\ agenda' \in Seq(Call) /\ Len(agenda') = Len(agenda) /\ agenda'[1] = c
        /\ \A i \in 1 .. Len(agenda) : i # 1 => agenda'[i] = agenda[i]
    <3>1. agenda \in Seq(Call) /\ agenda # <<>> /\ c \in Call
      BY <1>1, <2>3
    <3> QED BY ONLY <2>2, <3>1, FirstReplaced
  <2>5. ASSUME NEW i \in 1 .. Len(agenda')
        PROVE  agenda'[i].call \notin Removal
    <3>1. CASE i = 1
      <4>1. agenda'[i] = c
        BY <2>4, <3>1
      <4> QED BY <2>3, <4>1 DEF Removal
    <3>2. CASE i # 1
      <4>1. agenda'[i] = agenda[i] /\ i - 1 \in 1 .. Len(agenda) - 1 /\ (i - 1) + 1 = i
        BY <1>4, <2>4, <3>2
      <4>2. agenda'[i] = Tail(agenda)[i - 1]
        BY <1>4, <4>1
      <4> QED BY <1>3, <1>4, <4>1, <4>2 DEF OtherCalls
    <3> QED BY <3>1, <3>2
  <2>6. TermsFit("remove_sort_term", tree.orderby)' /\ TermsFit("remove_group_term", tree.groupby)'
    BY <2>5, NoTerms
  <2> QED BY <1>1, <1>2, <2>4, <2>6 DEF TypedInv
<1> QED BY <1>5, <1>6

\* The steps that leave the log as it is.
LEMMA LogStays ==
  ASSUME LogTyped, UNCHANGED log
  PROVE  LogTyped'
  BY DEF LogTyped, log, Log!HTypeOK, Log!TypeOK, Log!LengthsAgree

\* The exception that ends this loop.
LEMMA DropFailsTyped ==
  ASSUME TypedInv, NEW r, DropFails(r)
  PROVE  TypedInv'
<1>1. LogTyped' /\ agenda' = <<>> /\ strayed' = strayed
  BY LogStays DEF TypedInv, DropFails
<1> QED BY <1>1, EmptyAgenda DEF TypedInv

\* Every step keeps the types.
LEMMA TypedStep ==
  ASSUME TypedInv, [Next]_vars
  PROVE  TypedInv'
<1>1. ASSUME NEW v \in Var, NEW wrapped \in BOOLEAN, NEW first \in BOOLEAN, AddSelected(v, wrapped, first)
      PROVE  TypedInv'
  BY <1>1, AddingTyped
<1>2. ASSUME NEW r \in Ref, RemoveSelected(r)
      PROVE  TypedInv'
  BY <1>2, RemoveSelectedTyped
<1>3. ASSUME NEW v \in Var, AddGroupVar(v) \/ SetHaving(v)
      PROVE  TypedInv'
  BY <1>3, AddingTyped
<1>4. ASSUME NEW v \in Var, NEW wrapped \in BOOLEAN, AddSortTerm(v, wrapped)
      PROVE  TypedInv'
  BY <1>4, AddingTyped
<1>5. ASSUME NEW v \in Var, NEW w \in Var, AddRelation(v, w)
      PROVE  TypedInv'
  BY <1>5, AddingTyped
<1>6. CASE MakeVariable
  <2>1. PICK v \in Var : TRUE
    BY <1>6 DEF MakeVariable
  <2> QED BY <1>6, <2>1, AddingTyped
<1>7. ASSUME NEW n \in tree.where, NEW undefine \in BOOLEAN, RemoveNode(n, undefine)
      PROVE  TypedInv'
  BY <1>7, RemoveNodeTyped
<1>8. ASSUME NEW r \in Ref, RemoveTermNode(r) \/ RemoveSortTerm(r) \/ RemoveGroupTerm(r)
      PROVE  TypedInv'
  BY <1>8, RemoveTermTyped
<1>9. CASE RemoveSortTerms \/ RemoveGroups
  BY <1>9, RemoveTermsTyped
<1>10. ASSUME NEW v \in Var, UndefineVariable(v)
       PROVE  TypedInv'
  BY <1>10, UndefineVariableTyped
<1>11. CASE Proceed
  BY <1>11, ProceedTyped
<1>12. ASSUME NEW r \in Ref, Drop(r) \/ DropFails(r)
       PROVE  TypedInv'
  BY <1>12, DropTyped, DropFailsTyped
<1>13. CASE agenda = <<>> /\ Log!HManager /\ UNCHANGED <<agenda, strayed>>
  <2>1. LogTyped' /\ agenda' = <<>> /\ strayed' = strayed
    BY <1>13, ManagerTyped DEF TypedInv
  <2> QED BY <2>1, EmptyAgenda DEF TypedInv
<1>14. CASE UNCHANGED vars
  <2>1. UNCHANGED log /\ agenda' = agenda /\ strayed' = strayed /\ tree' = tree
    BY <1>14 DEF vars, log
  <2>2. LogTyped'
    BY <2>1, LogStays DEF TypedInv
  <2> QED BY <2>1, <2>2 DEF TypedInv, TermsFit, Calls
<1> QED BY <1>1, <1>2, <1>3, <1>4, <1>5, <1>6, <1>7, <1>8, <1>9, <1>10, <1>11, <1>12, <1>13, <1>14 DEF Next

\* They hold at the start.
LEMMA TypedInit ==
  ASSUME Init
  PROVE  TypedInv
<1>1. tree \in Tree
  BY ParsedAssumption DEF Init
<1>2. \A S : <<>> \in Seq(S) /\ Len(<<>>) = 0
  OBVIOUS
<1>3. /\ op_list = <<>> /\ state_stack = <<>> /\ saved = <<>> /\ trail = <<>> /\ memorizing = 0
      /\ undoing = FALSE /\ remaining = 0 /\ target = NoTree /\ intact = TRUE /\ agenda = <<>>
  BY DEF Init, Log!MgrInit, Log!HistoryInit
<1>4. Log!TypeOK
  <2>1. op_list \in Seq(Op) /\ state_stack \in Seq(Nat) /\ Len(op_list) = 0
    BY <1>2, <1>3
  <2>2. memorizing \in Int
    BY <1>3
  <2>3. undoing \in BOOLEAN
    BY <1>3
  <2>4. remaining \in 0 .. Len(op_list)
    <3>1. remaining = 0
      BY <1>3
    <3> QED BY <2>1, <3>1
  <2> QED BY <1>1, <2>1, <2>2, <2>3, <2>4 DEF Log!TypeOK
<1>5. LogTyped
  BY <1>2, <1>3, <1>4 DEF LogTyped, Log!HTypeOK, Log!LengthsAgree
<1>6. agenda \in Seq(Call) /\ strayed \subseteq {"equivalent groups", "having again", "term as a node"}
  BY <1>2, <1>3 DEF Init
<1>7. \A i : i \notin 1 .. Len(agenda)
  BY <1>3
<1> QED BY <1>5, <1>6, <1>7 DEF TypedInv, TermsFit

\* What the editing methods record, and what undo() makes of it, is a list of
\* operations and a SELECT, whatever the client does; and a method that removes the
\* terms of a clause finds each of them.
THEOREM SelectIsTyped == Spec => []TypedInv
<1>1. Init => TypedInv
  BY TypedInit
<1>2. TypedInv /\ [Next]_vars => TypedInv'
  BY TypedStep
<1> QED BY <1>1, <1>2, PTL DEF Spec

\* Every SELECT, operation and call has its type, and between two calls of a client
\* the SELECT is sound.
THEOREM SelectTreeIsSound == Spec => []TreeIsSound
<1>1. TypedInv => TypeOK
  BY DEF TypedInv, LogTyped, TypeOK
<1>2. TypedInv /\ SettledTreeIsSound => TreeIsSound
  BY <1>1 DEF TreeIsSound
<1> QED BY <1>2, SelectIsTyped, SelectIsSound, PTL
=============================================================================
