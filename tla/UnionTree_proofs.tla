-------------------------- MODULE UnionTree_proofs --------------------------
(***************************************************************************)
(* Proofs about the SELECTs of a union, for any numbers of SELECTs, unions *)
(* and types, any parsed trees, arguments and bounds: wherever it wraps,   *)
(* removes and narrows SELECTs, the union stays a tree whose parents lead  *)
(* up and whose types are located, and its log gives the SELECTs back.     *)
(***************************************************************************)
EXTENDS UnionTree, Basics_proofs

-----------------------------------------------------------------------------
\* The inductive invariant.

\* A set of SELECTs that holds what is in the subqueries of those it holds.
Closed(t, S) == \A s \in S : t.query[s] # None => Range(t.children[t.query[s]]) \subseteq S

\* The SELECTs of X and all those below them.
Under(t, X) == {s \in Select : \A S \in SUBSET Select : X \subseteq S /\ Closed(t, S) => s \in S}

\* The SELECTs of the subqueries there.
Nested(t, X) == {r \in Select : \E s \in Under(t, X) : t.query[s] # None /\ r \in Range(t.children[t.query[s]])}

\* No subquery is below itself.
Founded(t) ==
  \A W \in SUBSET (UnionNode \ {Root}) :
    W # {} => \E u \in W : \A s \in Range(t.children[u]) : t.query[s] \notin W

\* What is true of every tree, those that the log remembers included.
SoundTree(t) ==
  /\ t \in Tree
  /\ \A s \in Select : Good(t.limit[s]) /\ t.offset[s] >= 0
  /\ \A u \in UnionNode : IsInjective(t.children[u])
  /\ \A r, s \in Select : t.query[r] = t.query[s] /\ t.query[r] # None => r = s
  /\ \A s \in Select : t.query[s] # Root
  /\ Founded(t)
  /\ Unmade(t)

\* The SELECTs of the root when i operations are undone.
RootAt(i) == IF i = 0 THEN tree.children[Root] ELSE trail[i].children[Root]

Levels == 0 .. Len(op_list)

\* What an operation says of the SELECTs of the root before and after the edit.
RootEdit(op, before, after) ==
  CASE op.type = "AppendSelect" -> op.select \notin Range(before) /\ after = Append(before, op.select)
    [] op.type = "RemoveSelect" -> /\ op.origindex \in 1 .. Len(before)
                                   /\ before[op.origindex] = op.select
                                   /\ after = RemoveAt(before, op.origindex)
    [] op.type = "SetLimit"     -> after = before /\ Good(op.value)
    [] op.type = "SetOffset"    -> after = before /\ op.value >= 0

RootInv ==
  /\ \A i \in 1 .. Len(op_list) : RootEdit(op_list[i], RootAt(i), RootAt(i - 1)) /\ op_list[i].select <= tree.selects
  /\ \A i \in Levels : RootAt(i) \in Seq(1 .. tree.selects) /\ IsInjective(RootAt(i))

\* The SELECTs whose parent the last i operations set when they are undone.
Moves(op) == op.type \in {"AppendSelect", "RemoveSelect"}
Touched(log, i) == {log[k].select : k \in {j \in 1 .. i : Moves(log[j])}}

\* The SELECTs that the root has until i operations are undone.
RootsTo(i) == UNION {Range(RootAt(j)) : j \in 0 .. i}

\* What is in a subquery below R has its union for parent, and keeps it when the parents of T
\* are set; what is in R has the root, or none, or is in T.
Parents(t, R, T) ==
  /\ \A s \in Under(t, R) : t.query[s] # None =>
       \A r \in Range(t.children[t.query[s]]) : t.parent[r] = t.query[s] /\ r \notin T
  /\ \A s \in R : t.parent[s] \in {Root, None} \/ s \in T

\* A SELECT on a subquery takes types that the subquery gives.
Types(t, R) ==
  \A s \in Under(t, R) : t.query[s] # None => t.types[s] \subseteq TypesOf(t, t.query[s])

\* The tree whose root has R, when the parents of T are set; O are the SELECTs that the root has
\* on the way: none of them is in a subquery.
Level(t, R, T, O) == Parents(t, R, T) /\ Nested(t, R) \cap O = {} /\ Types(t, R)

LevelInv == \A i \in Levels : Level(tree, Range(RootAt(i)), Touched(op_list, i), RootsTo(i))

\* What undoing the last d operations makes of an attribute that now has the value now.
BackTo(log, type, s, d, now, value) ==
  LET sets == {k \in 1 .. d : log[k].type = type /\ log[k].select = s}
  IN  \/ sets = {} /\ now = value
      \/ \E k \in sets : (\A j \in sets : j <= k) /\ log[k].value = value

\* Undoing d operations gives a tree back, as its reader sees it.
GivesBack(t, d) ==
  \A s \in Under(t, Range(t.children[Root])) :
    /\ tree.query[s] = t.query[s]
    /\ t.query[s] # None => tree.children[t.query[s]] = t.children[t.query[s]]
    /\ BackTo(op_list, "SetLimit", s, d, tree.limit[s], t.limit[s])
    /\ BackTo(op_list, "SetOffset", s, d, tree.offset[s], t.offset[s])

Mark(t, d) ==
  /\ SoundTree(t) /\ t.selects <= tree.selects /\ d \in Levels
  /\ t.children[Root] = RootAt(d)
  /\ ~stray => GivesBack(t, d)

MarkInv ==
  /\ \A i \in 1 .. Len(saved) : Mark(saved[i], Len(op_list) - state_stack[i])
  /\ target # NoTree => Mark(target, remaining)
  /\ remaining > 0 => target # NoTree

LogTypes ==
  /\ op_list \in Seq(Op) /\ trail \in Seq(Tree) /\ saved \in Seq(Tree) /\ state_stack \in Seq(Nat)
  /\ memorizing \in Int /\ stray \in BOOLEAN /\ edits \in Nat
  /\ remaining \in Levels

\* Nothing is recorded before the first save_state() that is pending.
SavesFirst ==
  /\ Len(state_stack) = 0 => remaining = Len(op_list)
  /\ Len(state_stack) > 0 => state_stack[1] = 0

\* Of the tree and what its log says of it, whatever recover() undoes.
EditInv ==
  /\ SoundTree(tree) /\ LogTypes
  /\ Log!LengthsAgree /\ Log!Recording /\ SavesFirst
  /\ RootInv /\ LevelInv

\* Of the trees that recover() promises.
PromiseInv == Log!MarksInOrder /\ MarkInv

\* No recover() came without a save_state().
Balanced == intact \/ MaxUnbalanced = 0

UnionInv == intact \in BOOLEAN /\ (Balanced => EditInv) /\ (intact => PromiseInv)

-----------------------------------------------------------------------------
\* What is below a set of SELECTs.

\* The least closed set that has X.
LEMMA UnderIsLeast ==
  ASSUME NEW t, NEW X \in SUBSET Select
  PROVE  /\ X \subseteq Under(t, X) /\ Under(t, X) \subseteq Select
         /\ \A S \in SUBSET Select : X \subseteq S /\ Closed(t, S) => Under(t, X) \subseteq S
  BY DEF Under

\* It is closed, when the lists of the subqueries are of SELECTs.
LEMMA UnderIsClosed ==
  ASSUME NEW t \in Tree, NEW X \in SUBSET Select
  PROVE  Closed(t, Under(t, X))
<1>1. SUFFICES ASSUME NEW s \in Under(t, X), t.query[s] # None, NEW r \in Range(t.children[t.query[s]])
               PROVE  r \in Under(t, X)
  BY DEF Closed
<1>2. r \in Select
  <2>1. s \in Select /\ t.query[s] \in UnionNode
    BY <1>1 DEF Under, Tree
  <2>2. t.children[t.query[s]] \in Seq(Select)
    BY <2>1 DEF Tree
  <2> QED BY <1>1, <2>2, ListRange
<1>3. ASSUME NEW S \in SUBSET Select, X \subseteq S, Closed(t, S)
      PROVE  r \in S
  BY <1>1, <1>3 DEF Under, Closed
<1> QED BY <1>2, <1>3 DEF Under

\* More SELECTs have more below them.
LEMMA UnderGrows ==
  ASSUME NEW t \in Tree, NEW Y \in SUBSET Select, NEW X \in SUBSET Y
  PROVE  Under(t, X) \subseteq Under(t, Y) /\ Nested(t, X) \subseteq Nested(t, Y)
<1>1. Under(t, X) \subseteq Under(t, Y)
  BY UnderIsLeast, UnderIsClosed
<1> QED BY <1>1 DEF Nested

\* What is below X is in X or in a subquery.
LEMMA UnderOrNested ==
  ASSUME NEW t \in Tree, NEW X \in SUBSET Select
  PROVE  Under(t, X) = X \cup Nested(t, X)
<1>1. X \cup Nested(t, X) \subseteq Under(t, X)
  BY UnderIsLeast, UnderIsClosed DEF Closed, Nested
<1>2. Closed(t, X \cup Nested(t, X))
  <2>1. SUFFICES ASSUME NEW s \in X \cup Nested(t, X), t.query[s] # None,
                        NEW r \in Range(t.children[t.query[s]])
                 PROVE  r \in Nested(t, X)
    BY DEF Closed
  <2>2. s \in Under(t, X)
    BY <1>1
  <2>3. r \in Under(t, X)
    BY <2>1, <2>2, UnderIsClosed DEF Closed
  <2> QED BY <2>1, <2>2, <2>3, UnderIsLeast DEF Nested
<1>3. X \cup Nested(t, X) \in SUBSET Select
  BY DEF Nested
<1> QED BY <1>1, <1>2, <1>3, UnderIsLeast

\* There is no more below X when the subqueries there only lost SELECTs.
LEMMA UnderShrinks ==
  ASSUME NEW t \in Tree, NEW u \in Tree, NEW X \in SUBSET Select,
         \A s \in Under(t, X) :
           /\ u.query[s] = t.query[s]
           /\ t.query[s] # None => Range(u.children[t.query[s]]) \subseteq Range(t.children[t.query[s]])
  PROVE  Under(u, X) \subseteq Under(t, X) /\ Nested(u, X) \subseteq Nested(t, X)
<1>1. Closed(u, Under(t, X))
  <2>1. SUFFICES ASSUME NEW s \in Under(t, X), u.query[s] # None, NEW r \in Range(u.children[u.query[s]])
                 PROVE  r \in Under(t, X)
    BY DEF Closed
  <2>2. r \in Range(t.children[t.query[s]]) /\ t.query[s] # None
    BY <2>1
  <2> QED BY <2>2, UnderIsClosed DEF Closed
<1>2. Under(u, X) \subseteq Under(t, X)
  BY <1>1, UnderIsLeast
<1> QED BY <1>2 DEF Nested

\* There is the same when they are the same.
LEMMA UnderStays ==
  ASSUME NEW t \in Tree, NEW u \in Tree, NEW X \in SUBSET Select,
         \A s \in Under(t, X) :
           /\ u.query[s] = t.query[s]
           /\ t.query[s] # None => u.children[t.query[s]] = t.children[t.query[s]]
  PROVE  Under(u, X) = Under(t, X) /\ Nested(u, X) = Nested(t, X)
<1>1. Under(u, X) \subseteq Under(t, X) /\ Nested(u, X) \subseteq Nested(t, X)
  BY UnderShrinks
<1>2. Under(t, X) \subseteq Under(u, X) /\ Nested(t, X) \subseteq Nested(u, X)
  <2>1. \A s \in Under(u, X) :
           /\ t.query[s] = u.query[s]
           /\ u.query[s] # None => Range(t.children[u.query[s]]) \subseteq Range(u.children[u.query[s]])
    BY <1>1
  <2> QED BY <2>1, UnderShrinks
<1> QED BY <1>1, <1>2

\* A SELECT that is in no union is only below itself.
LEMMA UnderNew ==
  ASSUME NEW t \in Tree, Unmade(t), NEW X \in SUBSET Select, NEW s \in Select, s > t.selects
  PROVE  s \notin Nested(t, X)
<1>1. ASSUME NEW u \in UnionNode
      PROVE  s \notin Range(t.children[u])
  <2>1. t.children[u] \in Seq(1 .. t.selects) /\ t.selects \in Nat
    BY DEF Unmade, Tree
  <2> QED BY <2>1, ListRange
<1> QED BY <1>1 DEF Nested, Under, Tree

\* SelectsBelow is defined by recursion on the unions: it is what is below.
LEMMA SelectsBelowIs ==
  ASSUME NEW t \in Tree, Founded(t), \A s \in Select : t.query[s] # Root, NEW u \in UnionNode
  PROVE  SelectsBelow(t, u) = Under(t, Range(t.children[u]))
<1> DEFINE Here(v) == Range(t.children[v])
           Next_(f) == [v \in UnionNode |->
                          Here(v) \cup UNION {f[t.query[s]] : s \in {r \in Here(v) : t.query[r] # None}}]
           f == CHOOSE f : f = Next_(f)
           g == [v \in UnionNode |-> Under(t, Here(v))]
<1>1. \A v \in UnionNode : Here(v) \in SUBSET Select
  BY ListRange DEF Tree
<1>2. \A s \in Select : t.query[s] # None => t.query[s] \in UnionNode \ {Root}
  BY DEF Tree
<1>3. g = Next_(g)
  <2>1. SUFFICES ASSUME NEW v \in UnionNode
                 PROVE  Under(t, Here(v))
                          = Here(v) \cup UNION {g[t.query[s]] : s \in {r \in Here(v) : t.query[r] # None}}
    OBVIOUS
  <2> DEFINE U == Here(v) \cup UNION {g[t.query[s]] : s \in {r \in Here(v) : t.query[r] # None}}
  <2>2. \A s \in Here(v) : t.query[s] # None => g[t.query[s]] = Under(t, Here(t.query[s]))
    BY <1>1, <1>2
  <2>3. U \subseteq Under(t, Here(v))
    <3>0. Here(v) \subseteq Under(t, Here(v))
      BY <1>1, UnderIsLeast
    <3>1. SUFFICES ASSUME NEW s \in Here(v), t.query[s] # None
                   PROVE  g[t.query[s]] \subseteq Under(t, Here(v))
      <4> HIDE DEF Here, g
      <4> QED BY <3>0
    <3>2. Here(t.query[s]) \subseteq Under(t, Here(v))
      BY <1>1, <3>1, UnderIsLeast, UnderIsClosed DEF Closed
    <3>3. t.query[s] \in UnionNode
      BY <1>1, <1>2, <3>1
    <3> QED BY <1>1, <2>2, <3>1, <3>2, <3>3, UnderIsLeast, UnderIsClosed
  <2>4. Closed(t, U)
    <3>1. SUFFICES ASSUME NEW s \in U, t.query[s] # None
                   PROVE  Here(t.query[s]) \subseteq U
      BY DEF Closed
    <3>2. CASE s \in Here(v)
      <4>1. t.query[s] \in UnionNode /\ g[t.query[s]] = Under(t, Here(t.query[s]))
        BY <1>1, <1>2, <2>2, <3>1, <3>2
      <4>2. Here(t.query[s]) \subseteq g[t.query[s]]
        BY <1>1, <4>1, UnderIsLeast
      <4> QED BY <3>1, <3>2, <4>2
    <3>3. CASE s \notin Here(v)
      <4>1. PICK r \in Here(v) : t.query[r] # None /\ s \in g[t.query[r]]
        BY <3>1, <3>3
      <4>2. t.query[r] \in UnionNode /\ g[t.query[r]] = Under(t, Here(t.query[r]))
        BY <1>1, <1>2, <2>2, <4>1
      <4>3. Here(t.query[s]) \subseteq g[t.query[r]]
        BY <1>1, <3>1, <4>1, <4>2, UnderIsClosed DEF Closed
      <4> QED BY <4>1, <4>3
    <3> QED BY <3>2, <3>3
  <2>5. U \in SUBSET Select
    BY <1>1, <2>3, UnderIsLeast
  <2> HIDE DEF U
  <2>6. Under(t, Here(v)) \subseteq U
    <3>1. Here(v) \subseteq U
      BY DEF U
    <3> QED BY <1>1, <2>4, <2>5, <3>1, UnderIsLeast
  <2> QED BY <2>3, <2>6 DEF U
<1>4. f = Next_(f)
  BY <1>3
<1>5. \A v \in UnionNode :
        f[v] = Here(v) \cup UNION {f[t.query[s]] : s \in {r \in Here(v) : t.query[r] # None}}
  <2> HIDE DEF f, Here
  <2> QED BY <1>4
<1>6. \A v \in UnionNode :
        g[v] = Here(v) \cup UNION {g[t.query[s]] : s \in {r \in Here(v) : t.query[r] # None}}
  <2> HIDE DEF g, Here
  <2> QED BY <1>3
<1>7. SelectsBelow(t, u) = f[u]
  BY DEF SelectsBelow
<1>8. g[u] = Under(t, Here(u))
  OBVIOUS
<1> DEFINE W == {v \in UnionNode \ {Root} : f[v] # g[v]}
<1> HIDE DEF f, g, Here
<1>9. ASSUME NEW v \in UnionNode, \A s \in Here(v) : t.query[s] # None => f[t.query[s]] = g[t.query[s]]
      PROVE  f[v] = g[v]
  <2>1. {f[t.query[s]] : s \in {r \in Here(v) : t.query[r] # None}}
           = {g[t.query[s]] : s \in {r \in Here(v) : t.query[r] # None}}
    BY <1>9
  <2> QED BY <1>5, <1>6, <2>1
<1>10. W = {}
  <2>1. SUFFICES ASSUME W # {}
                 PROVE  FALSE
    OBVIOUS
  <2>2. PICK v \in W : \A s \in Here(v) : t.query[s] \notin W
    <3>1. W \in SUBSET (UnionNode \ {Root})
      OBVIOUS
    <3> QED BY <2>1, <3>1 DEF Founded, Here
  <2>3. \A s \in Here(v) : t.query[s] # None => f[t.query[s]] = g[t.query[s]]
    BY <1>1, <1>2, <2>2
  <2> QED BY <1>9, <2>2, <2>3
<1>11. f[u] = g[u]
  <2>1. \A s \in Here(u) : t.query[s] # None => f[t.query[s]] = g[t.query[s]]
    BY <1>1, <1>2, <1>10
  <2> QED BY <1>9, <2>1
<1> QED BY <1>7, <1>8, <1>11 DEF Here

\* What a SELECT of a tree may have below it.
LEMMA InSubquery ==
  ASSUME NEW t \in Tree, NEW X \in SUBSET Select, NEW s \in Under(t, X), t.query[s] # None
  PROVE  /\ s \in Select /\ t.query[s] \in UnionNode
         /\ t.children[t.query[s]] \in Seq(Select)
         /\ Range(t.children[t.query[s]]) \subseteq Nested(t, X)
         /\ Nested(t, X) \subseteq Under(t, X)
<1>1. s \in Select /\ t.query[s] \in UnionNode
  BY UnderIsLeast DEF Tree
<1>2. t.children[t.query[s]] \in Seq(Select)
  BY <1>1 DEF Tree
<1>3. Range(t.children[t.query[s]]) \subseteq Select
  BY <1>2, ListRange
<1>4. Range(t.children[t.query[s]]) \subseteq Nested(t, X)
  BY <1>3 DEF Nested
<1> QED BY <1>1, <1>2, <1>4, UnderOrNested

\* A level stays one for fewer SELECTs, when the subqueries there only lost SELECTs.
LEMMA LevelKept ==
  ASSUME NEW t \in Tree, NEW u \in Tree, NEW R \in SUBSET Select, NEW Q \in SUBSET R,
         NEW T, NEW O, NEW T2, NEW O2, Level(t, R, T, O),
         \A s \in Under(t, R) :
           /\ u.query[s] = t.query[s]
           /\ t.query[s] # None => Range(u.children[t.query[s]]) \subseteq Range(t.children[t.query[s]]),
         \A r \in Nested(t, R) : u.parent[r] = t.parent[r] /\ r \notin T2 /\ r \notin O2,
         \A s \in Q : u.parent[s] \in {Root, None} \/ s \in T2,
         Types(u, Q)
  PROVE  Level(u, Q, T2, O2)
<1>1. Under(u, Q) \subseteq Under(t, R) /\ Nested(u, Q) \subseteq Nested(t, R)
  <2>1. Under(u, Q) \subseteq Under(u, R) /\ Nested(u, Q) \subseteq Nested(u, R)
    BY UnderGrows
  <2>2. Under(u, R) \subseteq Under(t, R) /\ Nested(u, R) \subseteq Nested(t, R)
    BY UnderShrinks
  <2> QED BY <2>1, <2>2
<1>2. ASSUME NEW s \in Under(u, Q), u.query[s] # None, NEW r \in Range(u.children[u.query[s]])
      PROVE  u.parent[r] = u.query[s] /\ r \notin T2
  <2>1. s \in Under(t, R) /\ t.query[s] # None /\ u.query[s] = t.query[s] /\ r \in Range(t.children[t.query[s]])
    BY <1>1, <1>2
  <2>2. t.parent[r] = t.query[s]
    BY <2>1 DEF Level, Parents
  <2>3. r \in Nested(t, R)
    BY <2>1, InSubquery
  <2> QED BY <2>1, <2>2, <2>3
<1>3. Parents(u, Q, T2)
  BY <1>2 DEF Parents
<1>4. Nested(u, Q) \cap O2 = {}
  BY <1>1
<1> QED BY <1>3, <1>4 DEF Level

\* The types are given when the subqueries and the types are the same.
LEMMA TypesKept ==
  ASSUME NEW t \in Tree, NEW u \in Tree, NEW R \in SUBSET Select, NEW Q \in SUBSET R, Types(t, R),
         \A s \in Under(t, R) :
           /\ u.query[s] = t.query[s] /\ u.types[s] = t.types[s]
           /\ t.query[s] # None => u.children[t.query[s]] = t.children[t.query[s]]
  PROVE  Types(u, Q)
<1>1. Under(u, Q) \subseteq Under(t, R)
  <2>1. Under(u, Q) \subseteq Under(u, R)
    BY UnderGrows
  <2>2. Under(u, R) \subseteq Under(t, R)
    BY UnderStays
  <2> QED BY <2>1, <2>2
<1>2. SUFFICES ASSUME NEW s \in Under(u, Q), u.query[s] # None
               PROVE  u.types[s] \subseteq TypesOf(u, u.query[s])
  BY DEF Types
<1>3. /\ s \in Under(t, R) /\ u.query[s] = t.query[s] /\ t.query[s] # None
      /\ u.types[s] = t.types[s] /\ u.children[u.query[s]] = t.children[t.query[s]]
  BY <1>1, <1>2
<1>4. \A r \in Range(t.children[t.query[s]]) : u.types[r] = t.types[r]
  BY <1>3, InSubquery
<1>5. TypesOf(u, u.query[s]) = TypesOf(t, t.query[s])
  <2>1. {u.types[r] : r \in Range(t.children[t.query[s]])} = {t.types[r] : r \in Range(t.children[t.query[s]])}
    BY <1>4
  <2> QED BY <1>3, <2>1 DEF TypesOf
<1> QED BY <1>3, <1>5 DEF Types

\* A level of a tree whose subqueries are the same.
LEMMA LevelStays ==
  ASSUME NEW t \in Tree, NEW u \in Tree, NEW R \in SUBSET Select, NEW Q \in SUBSET R,
         NEW T, NEW O, NEW T2, NEW O2, Level(t, R, T, O),
         \A s \in Under(t, R) :
           /\ u.query[s] = t.query[s] /\ u.types[s] = t.types[s]
           /\ t.query[s] # None => u.children[t.query[s]] = t.children[t.query[s]],
         \A r \in Nested(t, R) : u.parent[r] = t.parent[r] /\ r \notin T2 /\ r \notin O2,
         \A s \in Q : u.parent[s] \in {Root, None} \/ s \in T2
  PROVE  Level(u, Q, T2, O2)
<1>1. Types(u, Q)
  BY TypesKept DEF Level
<1>2. \A s \in Under(t, R) :
           /\ u.query[s] = t.query[s]
           /\ t.query[s] # None => Range(u.children[t.query[s]]) \subseteq Range(t.children[t.query[s]])
  OBVIOUS
<1> QED BY <1>1, <1>2, LevelKept

-----------------------------------------------------------------------------
\* The log: what more operations, or one less, make of what it says.

\* Log with more operations before those of log.
Longer(new, ops, log) ==
  /\ Len(new) = Len(ops) + Len(log)
  /\ \A k \in 1 .. Len(ops) : new[k] = ops[k]
  /\ \A k \in 1 .. Len(log) : new[Len(ops) + k] = log[k]

\* The SELECTs that the operations move, when some are recorded and when one is undone.
LEMMA MoreTouched ==
  ASSUME NEW ops, NEW log, NEW new, Longer(new, ops, log), Len(ops) \in Nat, Len(log) \in Nat,
         NEW i \in 0 .. Len(log)
  PROVE  Touched(new, Len(ops) + i) = Touched(ops, Len(ops)) \cup Touched(log, i)
<1> DEFINE n == Len(ops)
<1>1. n \in Nat /\ i \in Nat
  OBVIOUS
<1>2. \A k \in 1 .. n : new[k] = ops[k]
  BY DEF Longer
<1>3. \A k \in 1 .. i : new[n + k] = log[k]
  BY DEF Longer
<1> HIDE DEF n
<1>4. ASSUME NEW s \in Touched(new, n + i)
      PROVE  s \in Touched(ops, n) \cup Touched(log, i)
  <2>1. PICK k \in 1 .. n + i : Moves(new[k]) /\ s = new[k].select
    BY <1>4 DEF Touched
  <2>2. CASE k <= n
    BY <1>1, <1>2, <2>1, <2>2 DEF Touched
  <2>3. CASE k > n
    <3>1. k - n \in 1 .. i /\ n + (k - n) = k
      BY <1>1, <2>1, <2>3
    <3>2. new[k] = log[k - n]
      BY <1>3, <3>1
    <3> QED BY <2>1, <3>1, <3>2 DEF Touched
  <2> QED BY <1>1, <2>1, <2>2, <2>3
<1>5. Touched(ops, n) \subseteq Touched(new, n + i)
  <2>1. \A k \in 1 .. n : k \in 1 .. n + i
    BY <1>1
  <2> QED BY <1>2, <2>1 DEF Touched
<1>6. Touched(log, i) \subseteq Touched(new, n + i)
  <2>1. \A k \in 1 .. i : n + k \in 1 .. n + i
    BY <1>1
  <2> QED BY <1>3, <2>1 DEF Touched
<1> QED BY <1>4, <1>5, <1>6 DEF n

\* ... and when the latest operation is undone.
LEMMA LessTouched ==
  ASSUME NEW log, NEW new, Len(log) \in Nat \ {0}, \A k \in 1 .. Len(log) - 1 : new[k] = log[k + 1],
         NEW i \in 0 .. Len(log) - 1
  PROVE  /\ Touched(new, i) \subseteq Touched(log, i + 1)
         /\ Moves(log[1]) => Touched(log, i + 1) = Touched(new, i) \cup {log[1].select}
         /\ ~Moves(log[1]) => Touched(log, i + 1) = Touched(new, i)
<1>1. Touched(new, i) \subseteq Touched(log, i + 1)
  <2>1. \A k \in 1 .. i : k + 1 \in 1 .. i + 1 /\ new[k] = log[k + 1]
    OBVIOUS
  <2> QED BY <2>1 DEF Touched
<1>2. ASSUME NEW s \in Touched(log, i + 1)
      PROVE  s \in Touched(new, i) \/ (Moves(log[1]) /\ s = log[1].select)
  <2>1. PICK k \in 1 .. i + 1 : Moves(log[k]) /\ s = log[k].select
    BY <1>2 DEF Touched
  <2>2. CASE k # 1
    <3>1. k - 1 \in 1 .. i /\ k - 1 + 1 = k
      BY <2>1, <2>2
    <3>2. new[k - 1] = log[k]
      BY <3>1
    <3> QED BY <2>1, <3>1, <3>2 DEF Touched
  <2> QED BY <2>1, <2>2
<1>3. Moves(log[1]) => log[1].select \in Touched(log, i + 1)
  BY DEF Touched
<1> QED BY <1>1, <1>2, <1>3

\* More operations that do not set the attribute of s, or one that keeps its value.
LEMMA BackFurther ==
  ASSUME NEW ops, NEW log, NEW new, Longer(new, ops, log), Len(ops) \in Nat, Len(log) \in Nat,
         NEW d \in 0 .. Len(log), NEW type, NEW s, NEW now, NEW now2, NEW value,
         BackTo(log, type, s, d, now, value),
         \/ now2 = now /\ \A k \in 1 .. Len(ops) : ~(ops[k].type = type /\ ops[k].select = s)
         \/ Len(ops) = 1 /\ ops[1].type = type /\ ops[1].select = s /\ ops[1].value = now
  PROVE  BackTo(new, type, s, Len(ops) + d, now2, value)
<1> DEFINE n == Len(ops)
           old == {k \in 1 .. d : log[k].type = type /\ log[k].select = s}
           sets == {k \in 1 .. n + d : new[k].type = type /\ new[k].select = s}
<1>1. /\ n \in Nat /\ d \in Nat
      /\ \A k \in 1 .. n : new[k] = ops[k]
      /\ \A k \in 1 .. d : new[n + k] = log[k]
  BY DEF Longer
<1>2. \/ now2 = now /\ \A k \in 1 .. n : ~(ops[k].type = type /\ ops[k].select = s)
      \/ n = 1 /\ ops[1].type = type /\ ops[1].select = s /\ ops[1].value = now
  OBVIOUS
<1>3. \/ old = {} /\ now = value
      \/ \E k \in old : (\A j \in old : j <= k) /\ log[k].value = value
  BY DEF BackTo
<1> HIDE DEF n
<1>4. \A k \in old : n + k \in sets
  BY <1>1
<1>5. \A k \in sets : k > n => k - n \in old
  <2>1. SUFFICES ASSUME NEW k \in sets, k > n
                 PROVE  k - n \in old
    OBVIOUS
  <2>2. k - n \in 1 .. d /\ n + (k - n) = k
    BY <1>1, <2>1
  <2> QED BY <1>1, <2>1, <2>2
<1>6. CASE old # {}
  <2>1. PICK k \in old : (\A j \in old : j <= k) /\ log[k].value = value
    BY <1>3, <1>6
  <2>2. n + k \in sets /\ new[n + k].value = value
    BY <1>1, <1>4, <2>1
  <2>3. \A j \in sets : j <= n + k
    <3>1. SUFFICES ASSUME NEW j \in sets
                   PROVE  j <= n + k
      OBVIOUS
    <3>2. CASE j > n
      BY <1>1, <1>5, <2>1, <3>2
    <3>3. CASE ~(j > n)
      BY <1>1, <3>3
    <3> QED BY <3>2, <3>3
  <2> QED BY <2>2, <2>3 DEF BackTo, n
<1>7. CASE old = {}
  <2>1. now = value /\ \A k \in sets : k <= n
    <3>1. \A k \in sets : k \in Nat
      BY <1>1
    <3>2. \A k \in sets : ~(k > n)
      BY <1>5, <1>7
    <3> HIDE DEF sets, old
    <3>3. \A k \in sets : k <= n
      BY <1>1, <3>1, <3>2
    <3> QED BY <1>3, <1>7, <3>3
  <2>2. CASE now2 = now /\ \A k \in 1 .. n : ~(ops[k].type = type /\ ops[k].select = s)
    <3>1. sets = {}
      BY <1>1, <2>1, <2>2
    <3> QED BY <2>1, <2>2, <3>1 DEF BackTo, n
  <2>3. CASE n = 1 /\ ops[1].type = type /\ ops[1].select = s /\ ops[1].value = now
    <3>1. 1 \in sets /\ new[1].value = value
      BY <1>1, <2>1, <2>3
    <3> QED BY <2>1, <2>3, <3>1 DEF BackTo, n
  <2> QED BY <1>2, <2>2, <2>3
<1> QED BY <1>6, <1>7

\* The last operation is undone.
LEMMA BackNearer ==
  ASSUME NEW log, NEW new, Len(log) \in Nat \ {0}, \A k \in 1 .. Len(log) - 1 : new[k] = log[k + 1],
         NEW d \in 1 .. Len(log), NEW type, NEW s, NEW now, NEW now2, NEW value,
         BackTo(log, type, s, d, now, value),
         now2 = IF log[1].type = type /\ log[1].select = s THEN log[1].value ELSE now
  PROVE  BackTo(new, type, s, d - 1, now2, value)
<1> DEFINE sets == {k \in 1 .. d : log[k].type = type /\ log[k].select = s}
           less == {k \in 1 .. d - 1 : new[k].type = type /\ new[k].select = s}
<1>1. \A k \in less : k + 1 \in sets
  OBVIOUS
<1>2. \A k \in sets : k = 1 \/ k - 1 \in less
  <2>1. SUFFICES ASSUME NEW k \in sets, k # 1
                 PROVE  k - 1 \in less
    OBVIOUS
  <2>2. k - 1 \in 1 .. d - 1 /\ (k - 1) + 1 = k /\ k - 1 \in 1 .. Len(log) - 1
    BY <2>1
  <2>3. new[k - 1] = log[k]
    BY <2>2
  <2> QED BY <2>1, <2>2, <2>3
<1>3. CASE less = {}
  <2>1. sets \subseteq {1}
    BY <1>2, <1>3
  <2>2. (1 \in sets) <=> (log[1].type = type /\ log[1].select = s)
    OBVIOUS
  <2>3. now2 = value
    BY <2>1, <2>2 DEF BackTo
  <2> QED BY <1>3, <2>3 DEF BackTo
<1>4. CASE less # {}
  <2>1. PICK k \in sets : (\A j \in sets : j <= k) /\ log[k].value = value
    BY <1>1, <1>4 DEF BackTo
  <2>2. k # 1
    BY <1>1, <1>4, <2>1
  <2>3. k - 1 \in less /\ (k - 1) + 1 = k /\ k - 1 \in 1 .. Len(log) - 1
    BY <1>2, <2>1, <2>2
  <2>4. new[k - 1].value = value
    BY <2>1, <2>3
  <2>5. \A j \in less : j <= k - 1
    BY <1>1, <2>1
  <2> QED BY <2>3, <2>4, <2>5 DEF BackTo
<1> QED BY <1>3, <1>4

-----------------------------------------------------------------------------
\* An edit and what it records.

Ops(edit) == Reverse([i \in DOMAIN edit.steps |-> edit.steps[i].op])
Befores(edit) == Reverse([i \in DOMAIN edit.steps |-> edit.steps[i].before])
Steps == Seq([op : Op, before : Tree])

\* The latest operation comes first.
LEMMA ReversedSteps ==
  ASSUME NEW edit, edit.steps \in Steps
  PROVE  /\ Len(edit.steps) \in Nat
         /\ Ops(edit) \in Seq(Op) /\ Befores(edit) \in Seq(Tree)
         /\ Len(Ops(edit)) = Len(edit.steps) /\ Len(Befores(edit)) = Len(edit.steps)
         /\ \A j \in 1 .. Len(edit.steps) :
              /\ Ops(edit)[j] = edit.steps[Len(edit.steps) - j + 1].op
              /\ Befores(edit)[j] = edit.steps[Len(edit.steps) - j + 1].before
<1> DEFINE n == Len(edit.steps)
<1>1. n \in Nat /\ DOMAIN edit.steps = 1 .. n
  BY LenProperties DEF Steps
<1>2. \A i \in 1 .. n : edit.steps[i].op \in Op /\ edit.steps[i].before \in Tree
  <2>1. \A i \in 1 .. n : edit.steps[i] \in [op : Op, before : Tree]
    BY <1>1, ElementOfSeq DEF Steps
  <2> QED BY <2>1
<1> DEFINE a == [i \in DOMAIN edit.steps |-> edit.steps[i].op]
           b == [i \in DOMAIN edit.steps |-> edit.steps[i].before]
<1>3. a \in Seq(Op) /\ Len(a) = n /\ b \in Seq(Tree) /\ Len(b) = n
  <2>1. a \in [1 .. n -> Op] /\ b \in [1 .. n -> Tree]
    BY <1>1, <1>2
  <2> HIDE DEF a, b, n
  <2> QED BY <1>1, <2>1
<1>4. \A i \in 1 .. n : a[i] = edit.steps[i].op /\ b[i] = edit.steps[i].before
  BY <1>1
<1>5. Ops(edit) = [j \in 1 .. n |-> a[(n - j) + 1]] /\ Befores(edit) = [j \in 1 .. n |-> b[(n - j) + 1]]
  <2> HIDE DEF n
  <2>1. Ops(edit) = Reverse(a) /\ Befores(edit) = Reverse(b)
    BY DEF Ops, Befores
  <2> HIDE DEF a, b
  <2> QED BY <1>3, <2>1 DEF Reverse
<1> HIDE DEF a, b, n
<1>6. \A j \in 1 .. n : (n - j) + 1 \in 1 .. n
  BY <1>1
<1>7. Ops(edit) \in [1 .. n -> Op] /\ Befores(edit) \in [1 .. n -> Tree]
  BY <1>2, <1>4, <1>5, <1>6
<1>8. Ops(edit) \in Seq(Op) /\ Len(Ops(edit)) = n /\ Befores(edit) \in Seq(Tree) /\ Len(Befores(edit)) = n
  BY <1>1, <1>7
<1> QED BY <1>1, <1>4, <1>5, <1>6, <1>8 DEF n

\* Two lists, one after the other.
LEMMA LongerList ==
  ASSUME NEW S, NEW a \in Seq(S), NEW b \in Seq(S)
  PROVE  a \o b \in Seq(S) /\ Longer(a \o b, a, b) /\ Len(a) \in Nat /\ Len(b) \in Nat
<1>1. /\ Len(a) \in Nat /\ Len(b) \in Nat /\ a \o b \in Seq(S) /\ Len(a \o b) = Len(a) + Len(b)
      /\ \A i \in 1 .. Len(a) + Len(b) : (a \o b)[i] = IF i <= Len(a) THEN a[i] ELSE b[i - Len(a)]
  BY LenProperties, ConcatProperties
<1> DEFINE c == a \o b
<1> HIDE DEF c
<1>2. /\ Len(c) = Len(a) + Len(b)
      /\ \A i \in 1 .. Len(a) + Len(b) : c[i] = IF i <= Len(a) THEN a[i] ELSE b[i - Len(a)]
  BY <1>1 DEF c
<1>3. \A k \in 1 .. Len(a) : c[k] = a[k]
  BY <1>1, <1>2
<1>4. \A k \in 1 .. Len(b) : c[Len(a) + k] = b[k]
  <2>1. \A k \in 1 .. Len(b) : Len(a) + k \in 1 .. Len(a) + Len(b) /\ ~(Len(a) + k <= Len(a)) /\ Len(a) + k - Len(a) = k
    BY <1>1
  <2> QED BY <1>2, <2>1
<1> QED BY <1>1, <1>2, <1>3, <1>4 DEF Longer, c

\* What every edit leaves alone, and what the log becomes.
LEMMA PerformFacts ==
  ASSUME EditInv, NEW edit, NEW s, Perform(edit, s), edit.steps \in Steps
  PROVE  /\ tree' = edit.tree /\ target' = NoTree /\ remaining = 0
         /\ stray' \in BOOLEAN /\ (stray => stray') /\ (edit.silent /\ s \in SavedSelects => stray')
         /\ edits' \in Nat
         /\ UNCHANGED <<state_stack, memorizing, undoing, remaining, saved, intact>>
         /\ op_list' \in Seq(Op) /\ trail' \in Seq(Tree)
         /\ \/ Longer(op_list', Ops(edit), op_list) /\ Longer(trail', Befores(edit), trail)
            \/ /\ op_list = <<>> /\ trail = <<>> /\ state_stack = <<>> /\ saved = <<>>
               /\ op_list' = <<>> /\ trail' = <<>>
<1>1. /\ op_list \in Seq(Op) /\ trail \in Seq(Tree) /\ edits \in Nat /\ stray \in BOOLEAN
      /\ state_stack \in Seq(Nat) /\ saved \in Seq(Tree)
      /\ Len(op_list) = Len(trail) /\ Len(saved) = Len(state_stack)
      /\ ~undoing /\ memorizing = Len(state_stack)
      /\ (Len(state_stack) = 0 => remaining = Len(op_list))
  BY DEF EditInv, LogTypes, Log!LengthsAgree, Log!Recording, SavesFirst
<1>2. /\ tree' = edit.tree /\ target' = NoTree /\ remaining = 0 /\ edits' = edits + 1
      /\ stray' = (stray \/ (edit.silent /\ s \in SavedSelects))
      /\ UNCHANGED <<state_stack, memorizing, undoing, remaining, saved, intact>>
      /\ IF memorizing # 0 /\ ~undoing
         THEN op_list' = Ops(edit) \o op_list /\ trail' = Befores(edit) \o trail
         ELSE UNCHANGED <<op_list, trail>>
  BY DEF Perform, Log!Idle, Log!ShouldRegisterOp, Ops, Befores
<1>0. stray' \in BOOLEAN /\ (stray => stray') /\ (edit.silent /\ s \in SavedSelects => stray')
  BY ONLY <1>2, <1>1
<1>3. CASE memorizing # 0
  <2>1. op_list' = Ops(edit) \o op_list /\ trail' = Befores(edit) \o trail
    BY <1>1, <1>2, <1>3
  <2>2. Ops(edit) \in Seq(Op) /\ Befores(edit) \in Seq(Tree)
    BY ReversedSteps
  <2>3. op_list' \in Seq(Op) /\ Longer(op_list', Ops(edit), op_list)
    BY ONLY <1>1, <2>1, <2>2, LongerList
  <2>4. trail' \in Seq(Tree) /\ Longer(trail', Befores(edit), trail)
    BY ONLY <1>1, <2>1, <2>2, LongerList
  <2> QED BY <1>0, <1>1, <1>2, <2>3, <2>4
<1>4. CASE memorizing = 0
  <2>1. Len(state_stack) = 0 /\ Len(op_list) = 0 /\ Len(trail) = 0 /\ Len(saved) = 0
    BY <1>1, <1>2, <1>4
  <2>2. op_list = <<>> /\ trail = <<>> /\ state_stack = <<>> /\ saved = <<>>
    BY <1>1, <2>1, EmptySeq
  <2> QED BY <1>0, <1>1, <1>2, <1>4, <2>2
<1> QED BY <1>3, <1>4

\* The lists that the root has had once an edit of n steps is recorded.
LEMMA EditRoots ==
  ASSUME NEW olds, Longer(trail', olds, trail), Len(trail) = Len(op_list), Len(op_list) \in Nat,
         NEW n \in Nat, n = Len(olds), NEW roots,
         roots[0] = tree'.children[Root], roots[n] = tree.children[Root],
         \A j \in 1 .. n : olds[j].children[Root] = roots[j]
  PROVE  /\ \A j \in 0 .. n : RootAt(j)' = roots[j]
         /\ \A i \in Levels : RootAt(n + i)' = RootAt(i)
<1>1. /\ \A k \in 1 .. n : trail'[k] = olds[k]
      /\ \A k \in 1 .. Len(op_list) : trail'[n + k] = trail[k]
  BY DEF Longer
<1>2. \A j \in 0 .. n : RootAt(j)' = roots[j]
  <2>1. RootAt(0)' = roots[0]
    BY DEF RootAt
  <2>2. \A j \in 1 .. n : RootAt(j)' = roots[j]
    BY <1>1 DEF RootAt
  <2> QED BY <2>1, <2>2
<1>3. ASSUME NEW i \in Levels
      PROVE  RootAt(n + i)' = RootAt(i)
  <2>1. CASE i = 0
    BY <1>2, <2>1 DEF RootAt
  <2>2. CASE i # 0
    <3>1. i \in 1 .. Len(op_list) /\ n + i # 0
      BY <1>3, <2>2 DEF Levels
    <3> QED BY <1>1, <3>1 DEF RootAt
  <2> QED BY <2>1, <2>2
<1> QED BY <1>2, <1>3

\* What is in the lists up to the j-th.
Passed(roots, j) == UNION {Range(roots[k]) : k \in 0 .. j}

\* The lists that the root has had since an edit of n steps: roots[0] now, roots[n] before it.
LEMMA EditKeeps ==
  ASSUME EditInv, NEW edit, NEW s, Perform(edit, s), edit.steps \in Steps,
         NEW n \in Nat, n = Len(edit.steps), NEW roots,
         SoundTree(edit.tree), edit.tree.selects >= tree.selects,
         roots[0] = edit.tree.children[Root], roots[n] = tree.children[Root],
         \A j \in 1 .. n : Befores(edit)[j].children[Root] = roots[j],
         \A j \in 1 .. n : RootEdit(Ops(edit)[j], roots[j], roots[j - 1]) /\ Ops(edit)[j].select <= edit.tree.selects,
         \A j \in 0 .. n : roots[j] \in Seq(1 .. edit.tree.selects) /\ IsInjective(roots[j]),
         \A j \in 0 .. n - 1 :
           Level(edit.tree, Range(roots[j]), Touched(Ops(edit), j), Passed(roots, j)),
         \A i \in Levels :
           Level(edit.tree, Range(RootAt(i)), Touched(Ops(edit), n) \cup Touched(op_list, i),
                 Passed(roots, n) \cup RootsTo(i))
  PROVE  EditInv'
<1> DEFINE ops == Ops(edit)
           olds == Befores(edit)
<1>1. /\ tree' = edit.tree /\ remaining = 0 /\ stray' \in BOOLEAN /\ edits' \in Nat
      /\ UNCHANGED <<state_stack, memorizing, undoing, remaining, saved, intact>>
      /\ op_list' \in Seq(Op) /\ trail' \in Seq(Tree)
      /\ \/ Longer(op_list', ops, op_list) /\ Longer(trail', olds, trail)
         \/ /\ op_list = <<>> /\ trail = <<>> /\ state_stack = <<>> /\ saved = <<>>
            /\ op_list' = <<>> /\ trail' = <<>>
  BY PerformFacts
<1>2. ops \in Seq(Op) /\ Len(ops) = n /\ Len(olds) = n
  BY ReversedSteps
<1> HIDE DEF ops, olds
<1>3. /\ SoundTree(tree) /\ op_list \in Seq(Op) /\ trail \in Seq(Tree) /\ saved \in Seq(Tree)
      /\ state_stack \in Seq(Nat) /\ memorizing \in Int /\ Len(op_list) \in Nat
      /\ Len(trail) = Len(op_list) /\ Len(saved) = Len(state_stack) /\ Log!Recording /\ SavesFirst
      /\ tree.selects \in Nat /\ edit.tree.selects \in Nat
  BY LenProperties DEF EditInv, LogTypes, Log!LengthsAgree, SoundTree, Tree
<1>4. Log!Recording'
  BY <1>1, <1>3 DEF Log!Recording
<1>5. \A i \in Levels : RootAt(i) \in Seq(1 .. edit.tree.selects) /\ IsInjective(RootAt(i))
  <2>1. \A i \in Levels : RootAt(i) \in Seq(1 .. tree.selects) /\ IsInjective(RootAt(i))
    BY DEF EditInv, RootInv
  <2>2. \A i \in 1 .. tree.selects : i \in 1 .. edit.tree.selects
    BY <1>3
  <2>3. Seq(1 .. tree.selects) \subseteq Seq(1 .. edit.tree.selects)
    BY <2>2, SeqWithin
  <2> QED BY <2>1, <2>3
<1>6. CASE Longer(op_list', ops, op_list) /\ Longer(trail', olds, trail)
  <2>1. /\ Len(op_list') = n + Len(op_list) /\ Len(trail') = Len(op_list')
        /\ \A k \in 1 .. n : op_list'[k] = ops[k] /\ trail'[k] = olds[k]
        /\ \A k \in 1 .. Len(op_list) : op_list'[n + k] = op_list[k] /\ trail'[n + k] = trail[k]
    BY <1>2, <1>3, <1>6 DEF Longer
  <2>0. /\ Longer(trail', olds, trail) /\ Len(trail) = Len(op_list) /\ Len(op_list) \in Nat
        /\ n \in Nat /\ n = Len(olds) /\ roots[0] = tree'.children[Root] /\ roots[n] = tree.children[Root]
        /\ \A j \in 1 .. n : olds[j].children[Root] = roots[j]
    BY <1>1, <1>2, <1>3, <1>6 DEF olds
  <2>2. \A j \in 0 .. n : RootAt(j)' = roots[j]
    BY ONLY <2>0, EditRoots
  <2>3. \A i \in Levels : RootAt(n + i)' = RootAt(i)
    BY ONLY <2>0, EditRoots
  <2>4. \A j \in Levels' : j \in Nat /\ (j \in 0 .. n \/ (j - n \in Levels /\ j - n > 0 /\ n + (j - n) = j))
    <3>1. Levels' = 0 .. n + Len(op_list)
      BY <2>1 DEF Levels
    <3>2. ASSUME NEW j \in 0 .. n + Len(op_list)
          PROVE  j \in Nat /\ (j \in 0 .. n \/ (j - n \in 0 .. Len(op_list) /\ j - n > 0 /\ n + (j - n) = j))
      <4> DEFINE m == Len(op_list)
      <4>1. m \in Nat /\ j \in Nat /\ j <= n + m
        BY <1>3, <3>2
      <4> HIDE DEF m
      <4>2. j > n => j - n \in 0 .. m /\ j - n > 0 /\ n + (j - n) = j
        BY <4>1
      <4> QED BY <4>1, <4>2 DEF m
    <3> QED BY <3>1, <3>2 DEF Levels
  <2>5. RootInv'
    <3>1. ASSUME NEW j \in 1 .. Len(op_list')
          PROVE  RootEdit(op_list'[j], RootAt(j)', RootAt(j - 1)') /\ op_list'[j].select <= tree'.selects
      <4>1. CASE j <= n
        <5>1. j \in 1 .. n /\ j \in 0 .. n /\ j - 1 \in 0 .. n
          BY <3>1, <4>1
        <5> QED BY <1>1, <2>1, <2>2, <5>1 DEF ops
      <4>2. CASE ~(j <= n)
        <5> DEFINE i == j - n
        <5>1. i \in 1 .. Len(op_list) /\ i \in Levels /\ i - 1 \in Levels /\ n + i = j /\ n + (i - 1) = j - 1
          <6>1. PICK m \in Nat : m = Len(op_list)
            BY <1>3
          <6>2. j \in 1 .. n + m /\ n \in Nat
            BY ONLY <2>1, <3>1, <6>1, n \in Nat
          <6>3. i \in 1 .. m /\ i \in 0 .. m /\ i - 1 \in 0 .. m /\ n + i = j /\ n + (i - 1) = j - 1
            BY ONLY <4>2, <6>1, <6>2
          <6> QED BY <6>1, <6>3 DEF Levels
        <5> HIDE DEF i
        <5>2. RootEdit(op_list[i], RootAt(i), RootAt(i - 1)) /\ op_list[i].select <= tree.selects
          BY <5>1 DEF EditInv, RootInv
        <5>3. op_list'[j] = op_list[i] /\ RootAt(j)' = RootAt(i) /\ RootAt(j - 1)' = RootAt(i - 1)
          BY <2>1, <2>3, <5>1
        <5>4. op_list[i].select <= edit.tree.selects
          <6>1. op_list[i] \in Op
            BY <1>3, <5>1, ElementOfSeq
          <6>2. op_list[i].select \in Nat
            BY <6>1, NodesAssumption DEF Op
          <6> QED BY <1>3, <5>2, <6>2
        <5> QED BY <1>1, <5>2, <5>3, <5>4
      <4> QED BY <4>1, <4>2
    <3>2. ASSUME NEW j \in Levels'
          PROVE  RootAt(j)' \in Seq(1 .. tree.selects)' /\ IsInjective(RootAt(j)')
      <4>1. CASE j \in 0 .. n
        BY <1>1, <2>2, <4>1
      <4>2. CASE j \notin 0 .. n
        <5>1. j - n \in Levels /\ n + (j - n) = j
          BY <2>4, <3>2, <4>2
        <5>2. RootAt(j)' = RootAt(j - n)
          BY <2>3, <5>1
        <5> QED BY <1>1, <1>5, <5>1, <5>2
      <4> QED BY <4>1, <4>2
    <3> QED BY <3>1, <3>2 DEF RootInv
  <2>6. \A j \in 0 .. n : RootsTo(j)' = Passed(roots, j)
    <3>1. SUFFICES ASSUME NEW j \in 0 .. n
                   PROVE  {Range(RootAt(k)') : k \in 0 .. j} = {Range(roots[k]) : k \in 0 .. j}
      BY DEF RootsTo, Passed
    <3>2. \A k \in 0 .. j : RootAt(k)' = roots[k]
      BY <2>2
    <3> QED BY <3>2
  <2>7. \A i \in Levels : RootsTo(n + i)' \subseteq Passed(roots, n) \cup RootsTo(i)
    <3>1. SUFFICES ASSUME NEW i \in Levels, NEW k \in 0 .. n + i, NEW r \in Range(RootAt(k)')
                   PROVE  r \in Passed(roots, n) \cup RootsTo(i)
      BY DEF RootsTo
    <3>2. CASE k \in 0 .. n
      BY <2>2, <3>1, <3>2 DEF Passed
    <3>3. CASE k \notin 0 .. n
      <4>1. k - n \in Levels /\ k - n \in 0 .. i /\ n + (k - n) = k
        BY <1>3, <3>1, <3>3 DEF Levels
      <4>2. RootAt(k)' = RootAt(k - n)
        BY <2>3, <4>1
      <4> QED BY <3>1, <4>1, <4>2 DEF RootsTo
    <3> QED BY <3>2, <3>3
  <2>8. \A i \in Levels : Touched(op_list, i)' = Touched(op_list', i)
    BY DEF Touched
  <2>9. \A i \in Levels : Touched(op_list', n + i) = Touched(ops, n) \cup Touched(op_list, i)
    <3>1. Longer(op_list', ops, op_list) /\ Len(ops) \in Nat /\ Len(op_list) \in Nat
      BY <1>2, <1>3, <1>6
    <3>2. \A i \in 0 .. Len(op_list) :
            Touched(op_list', Len(ops) + i) = Touched(ops, Len(ops)) \cup Touched(op_list, i)
      BY ONLY <3>1, MoreTouched
    <3> QED BY <1>2, <3>2 DEF Levels
  <2>10. \A j \in 0 .. n : Touched(op_list', j) = Touched(ops, j)
    <3>1. \A j \in 0 .. n : \A k \in 1 .. j : op_list'[k] = ops[k]
      BY <2>1
    <3> QED BY <3>1 DEF Touched
  <2>11. LevelInv'
    <3>1. SUFFICES ASSUME NEW j \in Levels'
                   PROVE  Level(tree', Range(RootAt(j)'), Touched(op_list', j), RootsTo(j)')
      BY DEF LevelInv, Level, Parents, Types, Nested, Under, Touched, RootsTo, RootAt, TypesOf, Closed
    <3>2. CASE j \in 0 .. n - 1
      <4>1. j \in 0 .. n
        BY <3>2
      <4>2. /\ RootAt(j)' = roots[j] /\ RootsTo(j)' = Passed(roots, j)
            /\ Touched(op_list', j) = Touched(ops, j)
        BY <2>2, <2>6, <2>10, <4>1
      <4> QED BY <1>1, <3>2, <4>2 DEF ops
    <3>3. CASE j \notin 0 .. n - 1
      <4> DEFINE i == j - n
      <4>1. i \in Levels /\ n + i = j
        <5>1. CASE j \in 0 .. n
          <6>1. j = n
            BY <3>3, <5>1
          <6> QED BY <1>3, <6>1 DEF Levels
        <5>2. CASE j \notin 0 .. n
          BY <2>4, <3>1, <5>2
        <5> QED BY <5>1, <5>2
      <4> HIDE DEF i
      <4>2. /\ RootAt(j)' = RootAt(i) /\ Touched(op_list', j) = Touched(ops, n) \cup Touched(op_list, i)
            /\ RootsTo(j)' \subseteq Passed(roots, n) \cup RootsTo(i)
        BY <2>3, <2>7, <2>9, <4>1
      <4>3. Level(edit.tree, Range(RootAt(i)), Touched(ops, n) \cup Touched(op_list, i),
                  Passed(roots, n) \cup RootsTo(i))
        BY <4>1 DEF ops
      <4> QED BY <1>1, <4>2, <4>3 DEF Level
    <3> QED BY <3>2, <3>3
  <2>12. SavesFirst'
    <3>1. CASE Len(state_stack) = 0
      <4>1. memorizing = 0 /\ ~undoing
        BY <1>3, <3>1 DEF Log!Recording
      <4>2. UNCHANGED op_list
        BY <4>1 DEF Perform, Log!ShouldRegisterOp
      <4> QED BY <1>1, <1>3, <4>2 DEF SavesFirst
    <3>2. CASE Len(state_stack) # 0
      BY <1>1, <1>3, <3>2 DEF SavesFirst
    <3> QED BY <3>1, <3>2
  <2>13. LogTypes' /\ Log!LengthsAgree'
    BY <1>1, <1>3, <2>1 DEF LogTypes, Log!LengthsAgree, Levels
  <2> QED BY <1>1, <1>4, <2>5, <2>11, <2>12, <2>13 DEF EditInv
<1>7. CASE /\ op_list = <<>> /\ trail = <<>> /\ state_stack = <<>> /\ saved = <<>>
           /\ op_list' = <<>> /\ trail' = <<>>
  <2>1. Len(op_list) = 0 /\ Len(op_list') = 0 /\ Levels' = {0} /\ 0 \in Levels /\ Len(state_stack) = 0
    BY <1>7, EmptySeq DEF Levels
  <2>2. RootAt(0)' = roots[0] /\ 0 \in 0 .. n
    BY <1>1 DEF RootAt
  <2>3. RootInv'
    BY <1>1, <2>1, <2>2 DEF RootInv
  <2>4. Touched(op_list', 0) = {} /\ Touched(op_list, 0) = {} /\ Touched(ops, 0) = {}
    BY DEF Touched
  <2>5. RootsTo(0)' = Range(roots[0])
    <3>1. {Range(RootAt(k)') : k \in 0 .. 0} = {Range(roots[0])}
      BY <2>2
    <3> QED BY <3>1 DEF RootsTo
  <2>6. Level(tree', Range(roots[0]), {}, Range(roots[0]))
    <3>1. CASE n = 0
      <4>1. RootAt(0) = roots[0] /\ Range(roots[0]) \subseteq Passed(roots, n)
        BY <3>1 DEF RootAt, Passed
      <4>2. Level(tree', Range(roots[0]), {}, Passed(roots, n) \cup RootsTo(0))
        BY <1>1, <2>1, <2>4, <3>1, <4>1 DEF ops
      <4> QED BY <4>1, <4>2 DEF Level
    <3>2. CASE n # 0
      <4>1. 0 \in 0 .. n - 1
        BY <3>2
      <4>2. Level(tree', Range(roots[0]), {}, Passed(roots, 0))
        BY <1>1, <2>4, <4>1 DEF ops
      <4>3. Passed(roots, 0) = Range(roots[0])
        BY DEF Passed
      <4> QED BY <4>2, <4>3
    <3> QED BY <3>1, <3>2
  <2>7. LevelInv'
    <3>1. SUFFICES Level(tree', Range(RootAt(0)'), Touched(op_list', 0), RootsTo(0)')
      BY <2>1 DEF LevelInv, Level, Parents, Types, Nested, Under, Touched, RootsTo, RootAt, TypesOf, Closed
    <3> QED BY <2>2, <2>4, <2>5, <2>6
  <2>8. LogTypes' /\ Log!LengthsAgree' /\ SavesFirst'
    BY <1>1, <1>3, <1>7, <2>1 DEF LogTypes, Log!LengthsAgree, Levels, SavesFirst
  <2> QED BY <1>1, <1>4, <2>3, <2>7, <2>8 DEF EditInv
<1> QED BY <1>1, <1>6, <1>7

\* What an edit leaves of a SELECT that was made before it: its subquery, and its bounds or how
\* to come back to them, unless it changed them behind the back of the log.
LeavesBound(edit, type, s, before, after) ==
  \/ after = before /\ \A k \in 1 .. Len(Ops(edit)) : ~(Ops(edit)[k].type = type /\ Ops(edit)[k].select = s)
  \/ /\ Len(Ops(edit)) = 1 /\ Ops(edit)[1].type = type /\ Ops(edit)[1].select = s
     /\ Ops(edit)[1].value = before

Leaves(edit, s) ==
  /\ LeavesBound(edit, "SetLimit", s, tree.limit[s], edit.tree.limit[s])
  /\ LeavesBound(edit, "SetOffset", s, tree.offset[s], edit.tree.offset[s])

\* An edit that recorded all it did to the SELECTs there were keeps the promise of recover().
LEMMA PromiseKept ==
  ASSUME EditInv, PromiseInv, NEW edit, NEW s, Perform(edit, s), edit.steps \in Steps,
         NEW n \in Nat, n = Len(edit.steps), NEW roots,
         edit.tree.selects >= tree.selects, edit.tree.selects \in Nat,
         roots[0] = edit.tree.children[Root], roots[n] = tree.children[Root],
         \A j \in 1 .. n : Befores(edit)[j].children[Root] = roots[j],
         \A r \in Select : r <= tree.selects => edit.tree.query[r] = tree.query[r],
         \A r \in Select : tree.query[r] # None =>
           edit.tree.children[tree.query[r]] = tree.children[tree.query[r]],
         \A r \in Select : r <= tree.selects => Leaves(edit, r) \/ (edit.silent /\ r = s)
  PROVE  PromiseInv'
<1> DEFINE ops == Ops(edit)
           olds == Befores(edit)
<1>1. /\ tree' = edit.tree /\ target' = NoTree /\ remaining = 0
      /\ (stray => stray') /\ (edit.silent /\ s \in SavedSelects => stray')
      /\ UNCHANGED <<state_stack, memorizing, undoing, remaining, saved, intact>>
      /\ op_list' \in Seq(Op) /\ trail' \in Seq(Tree)
      /\ \/ Longer(op_list', ops, op_list) /\ Longer(trail', olds, trail)
         \/ /\ op_list = <<>> /\ trail = <<>> /\ state_stack = <<>> /\ saved = <<>>
            /\ op_list' = <<>> /\ trail' = <<>>
  BY PerformFacts
<1>2. ops \in Seq(Op) /\ Len(ops) = n /\ Len(olds) = n
  BY ReversedSteps
<1> HIDE DEF ops, olds
<1>3. /\ SoundTree(tree) /\ op_list \in Seq(Op) /\ trail \in Seq(Tree) /\ saved \in Seq(Tree)
      /\ state_stack \in Seq(Nat) /\ memorizing \in Int /\ Len(op_list) \in Nat /\ Len(saved) \in Nat
      /\ Len(trail) = Len(op_list) /\ Len(saved) = Len(state_stack) /\ Log!Recording /\ SavesFirst
      /\ tree.selects \in Nat
  BY LenProperties DEF EditInv, LogTypes, Log!LengthsAgree, SoundTree, Tree
<1>4. /\ \A i \in 1 .. Len(state_stack) : state_stack[i] \in Nat /\ state_stack[i] <= Len(op_list) - remaining
      /\ \A i, j \in 1 .. Len(state_stack) : i <= j => state_stack[i] <= state_stack[j]
      /\ Len(state_stack) = 0 => remaining = Len(op_list)
      /\ Len(state_stack) > 0 => state_stack[1] = 0
  BY <1>3, ElementOfSeq DEF PromiseInv, Log!MarksInOrder
<1>5. CASE /\ op_list = <<>> /\ trail = <<>> /\ state_stack = <<>> /\ saved = <<>>
           /\ op_list' = <<>> /\ trail' = <<>>
  <2>1. Len(op_list') = 0 /\ Len(saved') = 0 /\ Len(state_stack') = 0
    BY <1>1, <1>5, EmptySeq
  <2> QED BY <1>1, <2>1 DEF PromiseInv, Log!MarksInOrder, MarkInv
<1>6. CASE Longer(op_list', ops, op_list) /\ Longer(trail', olds, trail)
  <2>1. Len(op_list') = n + Len(op_list)
    BY <1>2, <1>6 DEF Longer
  <2>2. Log!MarksInOrder'
    <3>1. Len(state_stack) = 0 => op_list' = op_list
      BY <1>3 DEF Perform, Log!ShouldRegisterOp, Log!Recording
    <3> QED BY <1>1, <1>3, <1>4, <2>1, <3>1 DEF Log!MarksInOrder
  <2>3. SUFFICES ASSUME NEW i \in 1 .. Len(saved)
                 PROVE  Mark(saved[i], Len(op_list) - state_stack[i])'
    BY <1>1, <1>3, <2>2 DEF PromiseInv, MarkInv
  <2>4. /\ Mark(saved[i], Len(op_list) - state_stack[i])
        /\ state_stack[i] \in Nat /\ state_stack[i] <= Len(op_list) /\ i \in DOMAIN saved
    BY <1>1, <1>3, <1>4, <2>3 DEF PromiseInv, MarkInv
  <2>5. PICK t, d : t = saved[i] /\ d = Len(op_list) - state_stack[i]
    OBVIOUS
  <2>6. /\ Mark(t, d) /\ saved'[i] = t /\ Len(op_list') - state_stack'[i] = n + d
        /\ d \in 0 .. Len(op_list) /\ d \in Levels
    <3>1. d \in 0 .. Len(op_list)
      BY <1>3, <2>4, <2>5
    <3>2. Len(op_list') - state_stack'[i] = n + d
      <4>1. state_stack' = state_stack
        BY <1>1
      <4>2. state_stack'[i] \in Nat /\ d = Len(op_list) - state_stack'[i]
        BY ONLY <4>1, <2>4, <2>5
      <4>3. PICK k \in Nat : k = state_stack'[i]
        BY <4>2
      <4>4. PICK m \in Nat : m = Len(op_list)
        BY <1>3
      <4>5. d = m - k
        BY ONLY <4>2, <4>3, <4>4
      <4>6. Len(op_list') = n + m
        BY ONLY <2>1, <4>4
      <4>7. n + m - k = n + d
        BY <4>5
      <4> QED BY ONLY <4>3, <4>6, <4>7
    <3> QED BY <1>1, <2>4, <2>5, <3>1, <3>2 DEF Levels
  <2>7. RootAt(n + d)' = RootAt(d)
    <3>1. /\ Longer(trail', olds, trail) /\ Len(trail) = Len(op_list) /\ Len(op_list) \in Nat
          /\ n \in Nat /\ n = Len(olds) /\ roots[0] = tree'.children[Root] /\ roots[n] = tree.children[Root]
          /\ \A j \in 1 .. n : olds[j].children[Root] = roots[j]
      BY <1>1, <1>2, <1>3, <1>6 DEF olds
    <3>2. \A j \in Levels : RootAt(n + j)' = RootAt(j)
      BY ONLY <3>1, EditRoots
    <3>3. d \in Levels
      BY <2>6
    <3> QED BY ONLY <3>2, <3>3
  <2>8. SoundTree(t) /\ t.selects <= tree'.selects /\ n + d \in Levels' /\ t.children[Root] = RootAt(n + d)'
    <3>1. SoundTree(t) /\ t.selects <= tree.selects /\ t.children[Root] = RootAt(d)
      BY <2>6 DEF Mark
    <3>2. t.selects \in Nat
      BY <3>1 DEF SoundTree, Tree
    <3>3. n + d \in Levels'
      BY <1>3, <2>1, <2>6 DEF Levels
    <3> QED BY <1>1, <1>3, <2>7, <3>1, <3>2, <3>3
  <2>9. ASSUME ~stray'
        PROVE  GivesBack(t, n + d)'
    <3>1. GivesBack(t, d) /\ ~(edit.silent /\ s \in SavedSelects)
      BY <1>1, <2>6, <2>9 DEF Mark
    <3>2. ASSUME NEW r \in Under(t, Range(t.children[Root]))
          PROVE  /\ r \in Select /\ r <= tree.selects /\ r \in SavedSelects
      <4>1. t \in Tree /\ Root \in UnionNode /\ Range(t.children[Root]) \in SUBSET Select
        BY <2>8, NodesAssumption, ListRange DEF SoundTree, Tree, Root
      <4>2. SelectsBelow(t, Root) = Under(t, Range(t.children[Root]))
        BY <2>8, <4>1, SelectsBelowIs DEF SoundTree
      <4>3. r \in SavedSelects
        BY <2>4, <2>5, <3>2, <4>2 DEF SavedSelects
      <4>4. r \in Select
        BY <3>2, <4>1, UnderIsLeast
      <4>5. r <= t.selects
        <5>1. ASSUME r > t.selects
              PROVE  FALSE
          <6>1. r \notin Nested(t, Range(t.children[Root]))
            BY <2>8, <4>1, <4>4, <5>1, UnderNew DEF SoundTree
          <6>2. r \in Range(t.children[Root])
            BY <3>2, <4>1, <6>1, UnderOrNested
          <6>3. t.children[Root] \in Seq(1 .. t.selects)
            BY <2>8, <4>1 DEF SoundTree, Unmade
          <6>4. r \in 1 .. t.selects
            BY <6>2, <6>3, ListRange
          <6>5. t.selects \in Nat
            BY <4>1 DEF Tree
          <6> QED BY <5>1, <6>4, <6>5
        <5>2. r \in Nat /\ t.selects \in Nat
          BY <4>1, <4>4, NodesAssumption DEF Tree
        <5> QED BY <5>1, <5>2
      <4>6. r <= tree.selects
        <5>1. r \in Nat \ {0} /\ t.selects \in Nat /\ t.selects <= tree.selects
          BY <2>6, <4>1, <4>4, NodesAssumption DEF Tree, Mark
        <5> QED BY <1>3, <4>5, <5>1
      <4> QED BY <4>3, <4>4, <4>6
    <3>3. ASSUME NEW r \in Under(t, Range(t.children[Root]))
          PROVE  /\ tree'.query[r] = t.query[r]
                 /\ t.query[r] # None => tree'.children[t.query[r]] = t.children[t.query[r]]
                 /\ BackTo(op_list', "SetLimit", r, n + d, tree'.limit[r], t.limit[r])
                 /\ BackTo(op_list', "SetOffset", r, n + d, tree'.offset[r], t.offset[r])
      <4>1. r \in Select /\ r <= tree.selects /\ r \in SavedSelects
        BY <3>2, <3>3
      <4>2. /\ tree.query[r] = t.query[r]
            /\ t.query[r] # None => tree.children[t.query[r]] = t.children[t.query[r]]
            /\ BackTo(op_list, "SetLimit", r, d, tree.limit[r], t.limit[r])
            /\ BackTo(op_list, "SetOffset", r, d, tree.offset[r], t.offset[r])
        BY <3>1, <3>3 DEF GivesBack
      <4>3. /\ LeavesBound(edit, "SetLimit", r, tree.limit[r], tree'.limit[r])
            /\ LeavesBound(edit, "SetOffset", r, tree.offset[r], tree'.offset[r])
        BY <1>1, <3>1, <4>1 DEF Leaves
      <4>4. Longer(op_list', ops, op_list) /\ Len(ops) \in Nat /\ Len(op_list) \in Nat /\ d \in 0 .. Len(op_list)
        BY <1>2, <1>3, <1>6, <2>6
      <4>5. BackTo(op_list', "SetLimit", r, Len(ops) + d, tree'.limit[r], t.limit[r])
        BY ONLY <4>2, <4>3, <4>4, BackFurther DEF LeavesBound, ops
      <4>6. BackTo(op_list', "SetOffset", r, Len(ops) + d, tree'.offset[r], t.offset[r])
        BY ONLY <4>2, <4>3, <4>4, BackFurther DEF LeavesBound, ops
      <4> QED BY <1>1, <1>2, <4>1, <4>2, <4>5, <4>6
    <3> QED BY <3>3 DEF GivesBack, Under, BackTo, Closed
  <2>10. Mark(t, n + d)'
    BY <2>8, <2>9 DEF Mark, SoundTree, Founded, Unmade
  <2>11. Mark(t, n + d)' <=> Mark(saved[i], Len(op_list) - state_stack[i])'
    BY <2>6 DEF Mark, GivesBack
  <2> QED BY <2>10, <2>11
<1> QED BY <1>1, <1>5, <1>6

-----------------------------------------------------------------------------
\* set_limit and set_offset of a SELECT.

\* What is in a subquery is not touched, nor in the root on the way.
LEMMA LevelApart ==
  ASSUME NEW t \in Tree, NEW R \in SUBSET Select, NEW T, NEW O, Level(t, R, T, O)
  PROVE  \A r \in Nested(t, R) : r \notin T /\ r \notin O
  BY DEF Level, Parents, Nested

\* The lists that the root has had.
LEMMA RootLists ==
  ASSUME EditInv
  PROVE  /\ tree \in Tree /\ Root \in UnionNode /\ tree.selects \in Nat /\ Len(op_list) \in Nat /\ 0 \in Levels
         /\ \A i \in Levels : /\ RootAt(i) \in Seq(Select) /\ IsInjective(RootAt(i))
                              /\ RootAt(i) \in Seq(1 .. tree.selects)
                              /\ Range(RootAt(i)) \in SUBSET Select
                              /\ Level(tree, Range(RootAt(i)), Touched(op_list, i), RootsTo(i))
                              /\ Range(RootAt(0)) \subseteq RootsTo(i)
         /\ RootAt(0) = tree.children[Root] /\ Touched(op_list, 0) = {} /\ RootsTo(0) = Range(RootAt(0))
<1>1. /\ tree \in Tree /\ Root \in UnionNode /\ tree.selects \in Nat /\ Len(op_list) \in Nat
      /\ trail \in Seq(Tree) /\ Len(trail) = Len(op_list)
  BY NodesAssumption, LenProperties DEF EditInv, SoundTree, LogTypes, Log!LengthsAgree, Root, Tree
<1>2. 0 \in Levels /\ RootAt(0) = tree.children[Root]
  BY <1>1 DEF Levels, RootAt
<1>3. ASSUME NEW i \in Levels
      PROVE  RootAt(i) \in Seq(Select)
  <2>1. CASE i = 0
    BY <1>1, <1>2, <2>1 DEF Tree
  <2>2. CASE i # 0
    <3>1. i \in 1 .. Len(trail)
      BY <1>1, <1>3, <2>2 DEF Levels
    <3>2. trail[i] \in Tree
      BY <1>1, <3>1, ElementOfSeq
    <3> QED BY <1>1, <2>2, <3>2 DEF RootAt, Tree
  <2> QED BY <2>1, <2>2
<1>4. \A i \in Levels : Range(RootAt(i)) \in SUBSET Select
  BY <1>3, ListRange
<1>5. \A i \in Levels : Range(RootAt(0)) \subseteq RootsTo(i)
  <2>1. \A i \in Levels : 0 \in 0 .. i
    BY <1>1 DEF Levels
  <2> QED BY <2>1 DEF RootsTo
<1>6. Touched(op_list, 0) = {} /\ RootsTo(0) = Range(RootAt(0))
  <2>1. {Range(RootAt(k)) : k \in 0 .. 0} = {Range(RootAt(0))}
    OBVIOUS
  <2> QED BY <2>1 DEF Touched, RootsTo
<1> QED BY <1>1, <1>2, <1>3, <1>4, <1>5, <1>6 DEF EditInv, RootInv, LevelInv

\* The arguments of the setters.
LEMMA GoodValues ==
  ASSUME NEW field \in Field, NEW value \in Values(field)
  PROVE  /\ field = "limit" => value \in Int \cup {None} /\ (~Refused(field, value) => Good(value))
         /\ field = "offset" => value \in Int /\ (~Refused(field, value) => value >= 0)
  BY ValuesAssumption DEF Field, Values, Refused, Good

\* What a setter records.
SetOp(t, s, field) ==
  [type |-> IF field = "limit" THEN "SetLimit" ELSE "SetOffset", select |-> s,
   value |-> IF field = "limit" THEN t.limit[s] ELSE t.offset[s]]

\* An edit is the one of a setter, and does something.
IsEdit(edit, e) == edit.tree = e.tree /\ edit.steps = e.steps /\ edit.silent = e.silent
Acts(edit) == edit.steps # <<>> \/ edit.silent

\* A setter changes one attribute of one SELECT...
SetsOne(u, t, s, field, value) ==
  /\ u \in Tree
  /\ u.children = t.children /\ u.parent = t.parent /\ u.query = t.query
  /\ u.types = t.types /\ u.selects = t.selects /\ u.unions = t.unions
  /\ \A r \in Select :
       /\ u.limit[r] = IF r = s /\ field = "limit" THEN value ELSE t.limit[r]
       /\ u.offset[r] = IF r = s /\ field # "limit" THEN value ELSE t.offset[r]

\* ... and records one operation, if the parent of the SELECT is the root.
Records(edit, t, op) ==
  /\ op \in Op
  /\ \/ edit.silent = FALSE /\ t.parent[op.select] = Root /\ edit.steps = <<[op |-> op, before |-> t]>>
     \/ edit.silent = TRUE /\ t.parent[op.select] # Root /\ edit.steps = <<>>

\* set_limit and set_offset on one SELECT.
LEMMA SetFacts ==
  ASSUME NEW t \in Tree, NEW s \in Select, NEW field \in Field, NEW value \in Values(field),
         NEW edit, IsEdit(edit, SetOn(t, s, field, value)), Acts(edit)
  PROVE  SetsOne(edit.tree, t, s, field, value) /\ Records(edit, t, SetOp(t, s, field))
<1> DEFINE u == IF field = "limit" THEN [t EXCEPT !.limit[s] = value] ELSE [t EXCEPT !.offset[s] = value]
           old == IF field = "limit" THEN t.limit[s] ELSE t.offset[s]
<1>1. value # old
  BY DEF SetOn, Nothing, IsEdit, Acts
<1>2. SetOn(t, s, field, value)
        = [steps |-> IF Registers(t, s) THEN <<[op |-> SetOp(t, s, field), before |-> t]>> ELSE <<>>,
           tree |-> u, silent |-> ~Registers(t, s)]
  BY <1>1 DEF SetOn, SetOp
<1>3. SetOp(t, s, field) \in Op
  <2>1. CASE field = "limit"
    BY <2>1 DEF Op, SetOp, Tree
  <2>2. CASE field = "offset"
    BY <2>2 DEF Op, SetOp, Tree
  <2> QED BY <2>1, <2>2 DEF Field
<1>4. u \in Tree
  BY GoodValues DEF Field, Tree
<1>5. /\ u.children = t.children /\ u.parent = t.parent /\ u.query = t.query
      /\ u.types = t.types /\ u.selects = t.selects /\ u.unions = t.unions
  BY DEF Tree
<1>6. /\ \A r \in Select :
           /\ u.limit[r] = IF r = s /\ field = "limit" THEN value ELSE t.limit[r]
           /\ u.offset[r] = IF r = s /\ field # "limit" THEN value ELSE t.offset[r]
  BY DEF Tree
<1>7. edit.tree = u /\ edit.silent = ~Registers(t, s)
      /\ edit.steps = IF Registers(t, s) THEN <<[op |-> SetOp(t, s, field), before |-> t]>> ELSE <<>>
  BY <1>2 DEF IsEdit
<1>8. \/ edit.silent = FALSE /\ t.parent[s] = Root /\ edit.steps = <<[op |-> SetOp(t, s, field), before |-> t]>>
      \/ edit.silent = TRUE /\ t.parent[s] # Root /\ edit.steps = <<>>
  <2>1. CASE t.parent[s] = Root
    BY <1>7, <2>1 DEF Registers
  <2>2. CASE t.parent[s] # Root
    BY <1>7, <2>2 DEF Registers
  <2> QED BY <2>1, <2>2
<1>9. SetOp(t, s, field).select = s
  BY DEF SetOp
<1> HIDE DEF u
<1>10. SetsOne(edit.tree, t, s, field, value)
  BY <1>4, <1>5, <1>6, <1>7 DEF SetsOne
<1>11. Records(edit, t, SetOp(t, s, field))
  BY <1>3, <1>8, <1>9 DEF Records
<1> QED BY <1>10, <1>11

\* The tree stays sound.
LEMMA SetSound ==
  ASSUME NEW t, SoundTree(t), NEW u \in Tree, NEW s \in Select, s <= t.selects,
         u.children = t.children, u.parent = t.parent, u.query = t.query,
         u.selects = t.selects, u.unions = t.unions,
         \A r \in Select : Good(u.limit[r]) /\ u.offset[r] >= 0,
         \A r \in Select : r # s => u.limit[r] = t.limit[r] /\ u.offset[r] = t.offset[r]
  PROVE  SoundTree(u)
<1>1. Unmade(u)
  <2>1. ASSUME NEW r \in Select, r > t.selects
        PROVE  u.query[r] = None /\ u.parent[r] = None /\ u.limit[r] = None /\ u.offset[r] = 0
    <3>1. r # s
      BY <2>1, NodesAssumption DEF SoundTree, Tree
    <3> QED BY <2>1, <3>1 DEF SoundTree, Unmade
  <2> QED BY <2>1 DEF SoundTree, Unmade
<1>2. Founded(u)
  BY DEF SoundTree, Founded
<1> QED BY <1>1, <1>2 DEF SoundTree

\* set_limit and set_offset of a SELECT keep the invariant.
LEMMA SetStep ==
  ASSUME EditInv, NEW field \in Field, NEW value \in Values(field), ~Refused(field, value),
         NEW s \in Select, s <= tree.selects, NEW edit, Perform(edit, s),
         IsEdit(edit, SetOn(tree, s, field, value))
  PROVE  EditInv' /\ (PromiseInv => PromiseInv')
<1> DEFINE u == edit.tree
           type == IF field = "limit" THEN "SetLimit" ELSE "SetOffset"
           op == SetOp(tree, s, field)
<1>1. /\ u \in Tree
      /\ u.children = tree.children /\ u.parent = tree.parent /\ u.query = tree.query
      /\ u.types = tree.types /\ u.selects = tree.selects /\ u.unions = tree.unions
      /\ \A r \in Select :
           /\ u.limit[r] = IF r = s /\ field = "limit" THEN value ELSE tree.limit[r]
           /\ u.offset[r] = IF r = s /\ field # "limit" THEN value ELSE tree.offset[r]
      /\ op \in Op
      /\ \/ edit.silent = FALSE /\ edit.steps = <<[op |-> op, before |-> tree]>>
         \/ edit.silent = TRUE /\ edit.steps = <<>>
  <2>1. Acts(edit)
    BY DEF Perform, Acts
  <2>2. tree \in Tree
    BY RootLists
  <2>3. SetsOne(edit.tree, tree, s, field, value) /\ Records(edit, tree, SetOp(tree, s, field))
    BY <2>1, <2>2, SetFacts
  <2>4. SetOp(tree, s, field).select = s
    BY DEF SetOp
  <2>5. /\ op \in Op
        /\ \/ edit.silent = FALSE /\ edit.steps = <<[op |-> op, before |-> tree]>>
           \/ edit.silent = TRUE /\ edit.steps = <<>>
    BY <2>3 DEF Records
  <2> QED BY <2>3, <2>5 DEF SetsOne
<1>2. /\ SoundTree(tree) /\ tree \in Tree /\ tree.limit \in [Select -> Int \cup {None}]
      /\ tree.offset \in [Select -> Int]
  BY DEF EditInv, SoundTree, Tree
<1>3. SoundTree(u)
  <2>1. ASSUME NEW r \in Select
        PROVE  /\ Good(u.limit[r]) /\ u.offset[r] >= 0
               /\ r # s => u.limit[r] = tree.limit[r] /\ u.offset[r] = tree.offset[r]
    <3>1. u.limit[r] = (IF r = s /\ field = "limit" THEN value ELSE tree.limit[r])
          /\ u.offset[r] = (IF r = s /\ field # "limit" THEN value ELSE tree.offset[r])
      BY <1>1, <1>2
    <3>2. Good(tree.limit[r]) /\ tree.offset[r] >= 0
      BY <1>2 DEF SoundTree
    <3> QED BY <3>1, <3>2, GoodValues DEF Field
  <2> HIDE DEF u
  <2>2. /\ \A r \in Select : Good(u.limit[r]) /\ u.offset[r] >= 0
        /\ \A r \in Select : r # s => u.limit[r] = tree.limit[r] /\ u.offset[r] = tree.offset[r]
    BY <2>1
  <2>3. /\ SoundTree(tree) /\ u \in Tree /\ s \in Select /\ s <= tree.selects
        /\ u.children = tree.children /\ u.parent = tree.parent /\ u.query = tree.query
        /\ u.selects = tree.selects /\ u.unions = tree.unions
    BY <1>1, <1>2
  <2> QED BY ONLY <2>2, <2>3, SetSound
<1> DEFINE n == Len(edit.steps)
           roots == [j \in 0 .. n |-> tree.children[Root]]
<1>4. /\ edit.steps \in Steps /\ n \in {0, 1}
      /\ n = 1 => Ops(edit)[1] = op /\ Befores(edit)[1] = tree
      /\ n = 0 => edit.silent
  <2>1. CASE edit.steps = <<>>
    BY <1>1, <2>1, EmptySeq DEF Steps
  <2>2. CASE edit.steps = <<[op |-> op, before |-> tree]>>
    <3>1. edit.steps \in Steps /\ Len(edit.steps) = 1 /\ edit.steps[1] = [op |-> op, before |-> tree]
      BY <1>1, <1>2, <2>2 DEF Steps
    <3>2. Ops(edit)[1] = op /\ Befores(edit)[1] = tree
      <4>1. /\ Ops(edit)[1] = edit.steps[1 - 1 + 1].op /\ Befores(edit)[1] = edit.steps[1 - 1 + 1].before
        BY <3>1, ReversedSteps
      <4>2. 1 - 1 + 1 = 1
        OBVIOUS
      <4> QED BY <3>1, <4>1, <4>2
    <3> QED BY <3>1, <3>2
  <2> QED BY <1>1, <2>1, <2>2
<1> HIDE DEF u, n, op
<1>5. n \in Nat /\ \A j \in 0 .. n : roots[j] = tree.children[Root]
  BY <1>4
<1>6. ~Moves(op) /\ op.type = type /\ op.select = s
      /\ op.value = IF field = "limit" THEN tree.limit[s] ELSE tree.offset[s]
  BY DEF op, SetOp, Moves, Field
<1>7. \A j \in 0 .. n : Touched(Ops(edit), j) = {}
  BY <1>4, <1>6 DEF Touched
<1>8. \A j \in 1 .. n : j = 1 /\ n = 1
  BY <1>4
<1>9. \A j \in 1 .. n : /\ Befores(edit)[j].children[Root] = roots[j]
                        /\ RootEdit(Ops(edit)[j], roots[j], roots[j - 1])
                        /\ Ops(edit)[j].select <= u.selects
  <2>1. RootEdit(op, tree.children[Root], tree.children[Root])
    <3>1. Good(tree.limit[s]) /\ tree.offset[s] >= 0
      BY <1>2 DEF SoundTree
    <3> QED BY <1>6, <3>1 DEF RootEdit, Field
  <2>2. n = 1 => roots[1] = tree.children[Root] /\ roots[0] = tree.children[Root]
    BY <1>5
  <2> HIDE DEF roots
  <2> QED BY <1>1, <1>4, <1>6, <1>8, <2>1, <2>2
<1>10. ASSUME NEW i \in Levels
       PROVE  Level(u, Range(RootAt(i)), Touched(op_list, i), RootsTo(i))
  <2>1. Range(RootAt(i)) \in SUBSET Select /\ Level(tree, Range(RootAt(i)), Touched(op_list, i), RootsTo(i))
    BY RootLists
  <2>2. \A r \in Range(RootAt(i)) : u.parent[r] \in {Root, None} \/ r \in Touched(op_list, i)
    BY <1>1, <2>1 DEF Level, Parents
  <2>3. \A r \in Nested(tree, Range(RootAt(i))) : r \notin Touched(op_list, i) /\ r \notin RootsTo(i)
    BY <1>2, <2>1, LevelApart
  <2> QED BY <1>1, <1>2, <2>1, <2>2, <2>3, LevelStays
<1>11. \A j \in 0 .. n : Passed(roots, j) = Range(RootAt(0))
  <2>1. ASSUME NEW j \in 0 .. n
        PROVE  {Range(roots[k]) : k \in 0 .. j} = {Range(RootAt(0))}
    <3>1. 0 \in 0 .. j /\ \A k \in 0 .. j : roots[k] = RootAt(0)
      BY <1>5 DEF RootAt
    <3> HIDE DEF roots
    <3> QED BY <3>1
  <2> QED BY <2>1 DEF Passed
<1>12. EditInv'
  <2>1. \A j \in 0 .. n - 1 :
           Level(u, Range(roots[j]), Touched(Ops(edit), j), Passed(roots, j))
    <3>1. Level(u, Range(RootAt(0)), {}, Range(RootAt(0)))
      BY <1>10, RootLists
    <3>2. \A j \in 0 .. n - 1 : j \in 0 .. n /\ roots[j] = RootAt(0)
      BY <1>5, RootLists
    <3> HIDE DEF roots
    <3> QED BY <1>7, <1>11, <3>1, <3>2
  <2>2. \A i \in Levels :
           Level(u, Range(RootAt(i)), Touched(Ops(edit), n) \cup Touched(op_list, i),
                 Passed(roots, n) \cup RootsTo(i))
    <3>1. n \in 0 .. n
      BY <1>5
    <3>2. \A i \in Levels : /\ Touched(Ops(edit), n) \cup Touched(op_list, i) = Touched(op_list, i)
                            /\ Passed(roots, n) \cup RootsTo(i) = RootsTo(i)
      BY <1>7, <1>11, <3>1, RootLists
    <3> QED BY <1>10, <3>2
  <2>3. \A j \in 0 .. n : roots[j] \in Seq(1 .. u.selects) /\ IsInjective(roots[j])
    BY <1>1, <1>5, RootLists
  <2>4. roots[0] = u.children[Root] /\ roots[n] = tree.children[Root] /\ u.selects >= tree.selects
    BY <1>1, <1>5, RootLists
  <2>5. EditInv /\ Perform(edit, s) /\ n = Len(edit.steps) /\ u = edit.tree
    BY DEF u, n
  <2> HIDE DEF roots
  <2> QED BY ONLY <1>3, <1>4, <1>5, <1>9, <2>1, <2>2, <2>3, <2>4, <2>5, EditKeeps
<1>13. ASSUME PromiseInv
       PROVE  PromiseInv'
  <2>1. roots[0] = u.children[Root] /\ roots[n] = tree.children[Root] /\ u.selects >= tree.selects /\ u.selects \in Nat
    BY <1>1, <1>5, RootLists
  <2>2. ASSUME NEW r \in Select
        PROVE  Leaves(edit, r) \/ (edit.silent /\ r = s)
    <3>1. CASE r # s
      <4>1. u.limit[r] = tree.limit[r] /\ u.offset[r] = tree.offset[r]
        BY <1>1, <1>2, <3>1
      <4>2. Len(Ops(edit)) = n /\ \A k \in 1 .. n : Ops(edit)[k].select # r
        BY <1>4, <1>6, <1>8, <3>1, ReversedSteps DEF n
      <4> QED BY <4>1, <4>2 DEF Leaves, LeavesBound, u
    <3>2. CASE r = s /\ n = 1
      <4>1. Len(Ops(edit)) = 1 /\ Ops(edit)[1] = op
        BY <1>4, <3>2, ReversedSteps DEF n
      <4>2. CASE field = "limit"
        <5>1. u.offset[s] = tree.offset[s]
          BY <1>1, <1>2, <4>2
        <5> QED BY <1>6, <3>2, <4>1, <4>2, <5>1 DEF Leaves, LeavesBound, u
      <4>3. CASE field # "limit"
        <5>1. u.limit[s] = tree.limit[s]
          BY <1>1, <1>2, <4>3
        <5> QED BY <1>6, <3>2, <4>1, <4>3, <5>1 DEF Leaves, LeavesBound, u
      <4> QED BY <4>2, <4>3
    <3> QED BY <1>4, <3>1, <3>2
  <2>3. \A r \in Select : u.query[r] = tree.query[r]
                          /\ (tree.query[r] # None => u.children[tree.query[r]] = tree.children[tree.query[r]])
    BY <1>1
  <2>4. \A j \in 1 .. n : Befores(edit)[j].children[Root] = roots[j]
    BY <1>9
  <2> HIDE DEF roots
  <2> QED BY <1>4, <1>5, <1>13, <2>1, <2>2, <2>3, <2>4, PromiseKept DEF u, n
<1> QED BY <1>12, <1>13

-----------------------------------------------------------------------------
\* append_select and remove_select.

\* A list that grows at its end.
LEMMA AppendedList ==
  ASSUME NEW S, NEW c \in Seq(S), NEW e \in S
  PROVE  /\ Append(c, e) \in Seq(S) /\ Range(Append(c, e)) = Range(c) \cup {e}
         /\ IsInjective(c) /\ e \notin Range(c) => IsInjective(Append(c, e))
<1>1. /\ Append(c, e) \in Seq(S) /\ Len(Append(c, e)) = Len(c) + 1 /\ Len(c) \in Nat
      /\ \A i \in 1 .. Len(c) : Append(c, e)[i] = c[i]
      /\ Append(c, e)[Len(c) + 1] = e
  OBVIOUS
<1> DEFINE a == Append(c, e)
           n == Len(c)
<1>2. Range(a) = {a[i] : i \in 1 .. n + 1} /\ Range(c) = {c[i] : i \in 1 .. n}
  BY <1>1, ListRange
<1>3. IsInjective(a) <=> \A i, j \in 1 .. n + 1 : a[i] = a[j] => i = j
  BY <1>1, ListRange
<1>4. IsInjective(c) <=> \A i, j \in 1 .. n : c[i] = c[j] => i = j
  BY ListRange
<1>5. \A i \in 1 .. n + 1 : i \in 1 .. n \/ i = n + 1
  BY <1>1
<1>6. n + 1 \in 1 .. n + 1 /\ 1 .. n \subseteq 1 .. n + 1
  BY <1>1
<1>7. (\A i \in 1 .. n : a[i] = c[i]) /\ a[n + 1] = e
  BY <1>1
<1> HIDE DEF a, n
<1>8. Range(a) = Range(c) \cup {e}
  BY <1>2, <1>5, <1>6, <1>7
<1>9. IsInjective(c) /\ e \notin Range(c) => IsInjective(a)
  <2>1. SUFFICES ASSUME IsInjective(c), e \notin Range(c), NEW i \in 1 .. n + 1, NEW j \in 1 .. n + 1, a[i] = a[j]
                 PROVE  i = j
    BY <1>3
  <2>2. \A k \in 1 .. n : c[k] # e
    BY <1>2, <2>1
  <2> QED BY <1>4, <1>5, <1>7, <2>1, <2>2
<1> QED BY <1>1, <1>8, <1>9 DEF a

\* A list that loses one element.
LEMMA ShorterList ==
  ASSUME NEW S, NEW c \in Seq(S), IsInjective(c), NEW k \in 1 .. Len(c)
  PROVE  /\ RemoveAt(c, k) \in Seq(S) /\ IsInjective(RemoveAt(c, k))
         /\ Range(RemoveAt(c, k)) \subseteq Range(c)
<1> DEFINE a == RemoveAt(c, k)
           n == Len(c)
<1>1. /\ a \in Seq(S) /\ Len(a) = n - 1 /\ n \in Nat /\ k \in 1 .. n
      /\ \A i \in 1 .. n - 1 : a[i] = IF i < k THEN c[i] ELSE c[i + 1]
  BY RemoveAtPlace, LenProperties
<1>2. Range(a) = {a[i] : i \in 1 .. n - 1} /\ Range(c) = {c[i] : i \in 1 .. n}
  BY <1>1, ListRange
<1>3. IsInjective(a) <=> \A i, j \in 1 .. n - 1 : a[i] = a[j] => i = j
  BY <1>1, ListRange
<1>4. \A i, j \in 1 .. n : c[i] = c[j] => i = j
  BY ListRange
<1> DEFINE at(i) == IF i < k THEN i ELSE i + 1
<1>5. \A i \in 1 .. n - 1 : at(i) \in 1 .. n /\ a[i] = c[at(i)]
  BY <1>1
<1>6. \A i, j \in 1 .. n - 1 : at(i) = at(j) => i = j
  BY <1>1
<1> HIDE DEF a, n, at
<1>7. IsInjective(a)
  BY <1>3, <1>4, <1>5, <1>6
<1>8. Range(a) \subseteq Range(c)
  BY <1>2, <1>5
<1> QED BY <1>1, <1>7, <1>8 DEF a

\* An edit that puts a SELECT in the root or takes one out.
LEMMA MoveStep ==
  ASSUME EditInv, NEW edit, NEW s, Perform(edit, s), NEW op \in Op, Moves(op),
         edit.steps = <<[op |-> op, before |-> tree]>>,
         SoundTree(edit.tree), edit.tree.selects >= tree.selects, op.select <= edit.tree.selects,
         RootEdit(op, tree.children[Root], edit.tree.children[Root]),
         Level(edit.tree, Range(edit.tree.children[Root]), {}, Range(edit.tree.children[Root])),
         \A i \in Levels :
           Level(edit.tree, Range(RootAt(i)), {op.select} \cup Touched(op_list, i),
                 Range(edit.tree.children[Root]) \cup RootsTo(i)),
         \A r \in Select : r <= tree.selects => edit.tree.query[r] = tree.query[r],
         \A r \in Select : tree.query[r] # None =>
           edit.tree.children[tree.query[r]] = tree.children[tree.query[r]],
         \A r \in Select : r <= tree.selects =>
           edit.tree.limit[r] = tree.limit[r] /\ edit.tree.offset[r] = tree.offset[r]
  PROVE  EditInv' /\ (PromiseInv => PromiseInv')
<1> DEFINE u == edit.tree
           c == tree.children[Root]
           roots == [j \in 0 .. 1 |-> IF j = 0 THEN u.children[Root] ELSE c]
<1>1. roots[0] = u.children[Root] /\ roots[1] = c
  OBVIOUS
<1> HIDE DEF roots
<1>2. /\ tree \in Tree /\ Root \in UnionNode /\ tree.selects \in Nat /\ 0 \in Levels
      /\ c \in Seq(1 .. tree.selects) /\ IsInjective(c) /\ RootAt(0) = c
      /\ u \in Tree /\ u.selects \in Nat
      /\ u.children[Root] \in Seq(1 .. u.selects) /\ IsInjective(u.children[Root])
  BY RootLists DEF SoundTree, Unmade, Tree
<1>3. c \in Seq(1 .. u.selects)
  <2>1. 1 .. tree.selects \subseteq 1 .. u.selects
    BY <1>2
  <2> QED BY <1>2, <2>1, SeqWithin
<1>4. edit.steps \in Steps /\ Len(edit.steps) = 1 /\ edit.steps[1] = [op |-> op, before |-> tree]
  BY <1>2 DEF Steps
<1>5. Ops(edit)[1] = op /\ Befores(edit)[1] = tree /\ Len(Ops(edit)) = 1
  <2>1. /\ Ops(edit)[1] = edit.steps[1 - 1 + 1].op /\ Befores(edit)[1] = edit.steps[1 - 1 + 1].before
        /\ Len(Ops(edit)) = 1
    BY <1>4, ReversedSteps
  <2>2. 1 - 1 + 1 = 1
    OBVIOUS
  <2> QED BY <1>4, <2>1, <2>2
<1>6. Touched(Ops(edit), 0) = {} /\ Touched(Ops(edit), 1) = {op.select}
  <2>1. {k \in 1 .. 1 : Moves(Ops(edit)[k])} = {1}
    BY <1>5
  <2> QED BY <1>5, <2>1 DEF Touched
<1>7. Passed(roots, 0) = Range(u.children[Root]) /\ Passed(roots, 1) = Range(u.children[Root]) \cup Range(c)
  <2>1. {Range(roots[k]) : k \in 0 .. 0} = {Range(u.children[Root])}
    BY <1>1
  <2>2. {Range(roots[k]) : k \in 0 .. 1} = {Range(u.children[Root]), Range(c)}
    <3>1. 0 .. 1 = {0, 1}
      OBVIOUS
    <3> QED BY <1>1, <3>1
  <2> QED BY <2>1, <2>2 DEF Passed
<1>8. \A i \in Levels : Range(c) \subseteq RootsTo(i)
  BY <1>2, RootLists
<1>9. EditInv'
  <2>1. \A j \in 0 .. 1 - 1 : Level(u, Range(roots[j]), Touched(Ops(edit), j), Passed(roots, j))
    <3>1. 0 .. 1 - 1 = {0}
      OBVIOUS
    <3>2. Level(u, Range(roots[0]), Touched(Ops(edit), 0), Passed(roots, 0))
      BY <1>1, <1>6, <1>7
    <3> QED BY <3>1, <3>2
  <2>2. \A i \in Levels :
          Level(u, Range(RootAt(i)), Touched(Ops(edit), 1) \cup Touched(op_list, i), Passed(roots, 1) \cup RootsTo(i))
    <3>1. SUFFICES ASSUME NEW i \in Levels
                   PROVE  Passed(roots, 1) \cup RootsTo(i) = Range(u.children[Root]) \cup RootsTo(i)
      BY <1>6
    <3> QED BY <1>7, <1>8
  <2>3. \A j \in 1 .. 1 : /\ Befores(edit)[j].children[Root] = roots[j]
                          /\ RootEdit(Ops(edit)[j], roots[j], roots[j - 1]) /\ Ops(edit)[j].select <= u.selects
    <3>1. 1 - 1 = 0 /\ 1 .. 1 = {1}
      OBVIOUS
    <3> QED BY <1>1, <1>5, <3>1
  <2>4. \A j \in 0 .. 1 : roots[j] \in Seq(1 .. u.selects) /\ IsInjective(roots[j])
    BY <1>1, <1>2, <1>3
  <2>5. EditInv /\ Perform(edit, s) /\ SoundTree(u) /\ u.selects >= tree.selects
    OBVIOUS
  <2>6. PICK n \in Nat : n = 1
    OBVIOUS
  <2>7. /\ \A j \in 0 .. n - 1 : Level(u, Range(roots[j]), Touched(Ops(edit), j), Passed(roots, j))
        /\ \A i \in Levels :
             Level(u, Range(RootAt(i)), Touched(Ops(edit), n) \cup Touched(op_list, i), Passed(roots, n) \cup RootsTo(i))
        /\ \A j \in 1 .. n : Befores(edit)[j].children[Root] = roots[j]
        /\ \A j \in 1 .. n : RootEdit(Ops(edit)[j], roots[j], roots[j - 1]) /\ Ops(edit)[j].select <= u.selects
        /\ \A j \in 0 .. n : roots[j] \in Seq(1 .. u.selects) /\ IsInjective(roots[j])
        /\ roots[0] = u.children[Root] /\ roots[n] = tree.children[Root] /\ n = Len(edit.steps)
    BY <1>1, <1>4, <2>1, <2>2, <2>3, <2>4, <2>6
  <2> QED BY ONLY <1>4, <2>5, <2>7, n \in Nat, EditKeeps
<1>10. ASSUME PromiseInv
       PROVE  PromiseInv'
  <2>1. \A r \in Select : r <= tree.selects => Leaves(edit, r) \/ (edit.silent /\ r = s)
    <3>1. op.type # "SetLimit" /\ op.type # "SetOffset"
      BY DEF Moves
    <3>2. \A k \in 1 .. Len(Ops(edit)) : Ops(edit)[k] = op
      BY <1>5
    <3> QED BY <3>1, <3>2 DEF Leaves, LeavesBound
  <2>2. PICK n \in Nat : n = 1
    OBVIOUS
  <2>3. /\ roots[0] = u.children[Root] /\ roots[n] = tree.children[Root] /\ n = Len(edit.steps)
        /\ \A j \in 1 .. n : Befores(edit)[j].children[Root] = roots[j]
    BY <1>1, <1>4, <1>5, <2>2
  <2>4. /\ EditInv /\ Perform(edit, s) /\ edit.tree.selects >= tree.selects /\ edit.tree.selects \in Nat
        /\ edit.steps \in Steps /\ n \in Nat /\ n = Len(edit.steps)
        /\ roots[0] = edit.tree.children[Root] /\ roots[n] = tree.children[Root]
        /\ \A r \in Select : r <= tree.selects => edit.tree.query[r] = tree.query[r]
        /\ \A r \in Select : tree.query[r] # None => edit.tree.children[tree.query[r]] = tree.children[tree.query[r]]
    BY <1>2, <1>4, <2>3
  <2> QED BY ONLY <1>10, <2>1, <2>3, <2>4, PromiseKept
<1> QED BY <1>9, <1>10

\* append_select keeps the invariant.
LEMMA AppendStep ==
  ASSUME EditInv, AppendSelect
  PROVE  EditInv' /\ (PromiseInv => PromiseInv')
<1>1. PICK s : s = New(tree)
  OBVIOUS
<1>2. PICK edit : edit = [steps |-> <<[op |-> AppendOp(s), before |-> tree]>>, tree |-> Appended(tree, s), silent |-> FALSE]
  OBVIOUS
<1>3. s \in Select /\ Perform(edit, s) /\ s = tree.selects + 1
  BY <1>1, <1>2 DEF AppendSelect, New
<1> DEFINE c == tree.children[Root]
<1>4. PICK u : u = Appended(tree, s)
  OBVIOUS
<1>5. edit.tree = u /\ edit.steps = <<[op |-> AppendOp(s), before |-> tree]>> /\ edit.silent = FALSE
  BY <1>2, <1>4
<1>6. AppendOp(s) \in Op /\ Moves(AppendOp(s)) /\ AppendOp(s).select = s /\ AppendOp(s).type = "AppendSelect"
  BY <1>3 DEF AppendOp, Op, Moves
<1>7. /\ SoundTree(tree) /\ tree \in Tree /\ Root \in UnionNode /\ tree.selects \in Nat /\ 0 \in Levels
      /\ c \in Seq(Select) /\ c \in Seq(1 .. tree.selects) /\ IsInjective(c) /\ RootAt(0) = c
      /\ Range(c) \in SUBSET Select
  BY RootLists DEF EditInv
<1>8. s \in 1 .. tree.selects + 1 /\ s \notin 1 .. tree.selects /\ s > tree.selects /\ Range(c) \subseteq 1 .. tree.selects
  BY <1>3, <1>7, ListRange
<1>9. /\ Append(c, s) \in Seq(Select) /\ Range(Append(c, s)) = Range(c) \cup {s} /\ IsInjective(Append(c, s))
      /\ Append(c, s) \in Seq(1 .. tree.selects + 1)
  <2>1. c \in Seq(1 .. tree.selects + 1)
    <3>1. 1 .. tree.selects \subseteq 1 .. tree.selects + 1
      BY <1>7
    <3> QED BY <1>7, <3>1, SeqWithin
  <2> QED BY <1>3, <1>7, <1>8, <2>1, AppendedList
<1>10. /\ u \in Tree /\ u.children[Root] = Append(c, s) /\ u.selects = tree.selects + 1
       /\ \A v \in UnionNode : v # Root => u.children[v] = tree.children[v]
       /\ u.parent = tree.parent /\ u.query = tree.query /\ u.limit = tree.limit /\ u.offset = tree.offset
       /\ u.types = tree.types /\ u.unions = tree.unions
  <2>1. u = [tree EXCEPT !.selects = s, !.children[Root] = Append(c, s)]
    BY <1>4 DEF Appended
  <2>2. /\ tree.children \in [UnionNode -> Seq(Select)] /\ s \in Nat
        /\ \A v \in UnionNode : v # Root => u.children[v] = tree.children[v]
        /\ u.children[Root] = Append(c, s) /\ u.children = [tree.children EXCEPT ![Root] = Append(c, s)]
    BY <1>3, <1>7, <2>1, NodesAssumption DEF Tree
  <2>3. u.children \in [UnionNode -> Seq(Select)]
    BY <1>9, <2>2
  <2>4. /\ u.selects = s /\ u.parent = tree.parent /\ u.query = tree.query /\ u.limit = tree.limit
        /\ u.offset = tree.offset /\ u.types = tree.types /\ u.unions = tree.unions
    BY <1>7, <2>1 DEF Tree
  <2>0. PICK ch \in [UnionNode -> Seq(Select)] : ch = u.children
    BY <2>3
  <2>5. u = [children |-> ch, parent |-> tree.parent, query |-> tree.query, limit |-> tree.limit,
             offset |-> tree.offset, types |-> tree.types, selects |-> s, unions |-> tree.unions]
    BY <1>7, <2>0, <2>1, <2>2 DEF Tree
  <2>6. u \in Tree
    <3>1. /\ tree.parent \in [Select -> UnionNode \cup {None}] /\ tree.query \in [Select -> UnionNode \cup {None}]
          /\ tree.limit \in [Select -> Int \cup {None}] /\ tree.offset \in [Select -> Int]
          /\ tree.types \in [Select -> SUBSET Etype] /\ tree.unions \in Nat
      BY <1>7 DEF Tree
    <3> HIDE DEF c
    <3> QED BY ONLY <2>2, <2>5, <3>1, ch \in [UnionNode -> Seq(Select)] DEF Tree
  <2> QED BY <1>3, <2>2, <2>4, <2>6
<1>11. /\ tree.query[s] = None /\ tree.parent[s] = None
       /\ \A r \in Select : tree.query[r] # None => tree.query[r] \in UnionNode /\ tree.query[r] # Root
  BY <1>3, <1>7, <1>8 DEF SoundTree, Unmade, Tree
<1>12. SoundTree(u)
  <2>1. Founded(u)
    BY <1>7, <1>10 DEF SoundTree, Founded
  <2>2. Unmade(u)
    <3>1. ASSUME NEW v \in UnionNode
          PROVE  u.children[v] \in Seq(1 .. u.selects) /\ (v > u.unions => u.children[v] = <<>>)
      <4>1. CASE v = Root
        <5>1. tree.unions >= Root /\ tree.unions \in Nat /\ Root \in Nat
          BY <1>7 DEF SoundTree, Unmade, Tree, Root
        <5>2. u.children[v] = Append(c, s) /\ u.unions = tree.unions /\ u.selects = tree.selects + 1
          BY <1>10, <4>1
        <5>3. ~(v > u.unions)
          BY <4>1, <5>1, <5>2
        <5> HIDE DEF c
        <5> QED BY ONLY <1>9, <5>2, <5>3
      <4>2. CASE v # Root
        <5>1. tree.children[v] \in Seq(1 .. tree.selects) /\ (v > tree.unions => tree.children[v] = <<>>)
          BY <1>7 DEF SoundTree, Unmade
        <5>2. 1 .. tree.selects \subseteq 1 .. tree.selects + 1
          BY <1>7
        <5> QED BY <1>10, <4>2, <5>1, <5>2, SeqWithin
      <4> QED BY <4>1, <4>2
    <3>2. \A r \in Select : r > u.selects => r > tree.selects
      BY <1>7, <1>10, NodesAssumption
    <3> QED BY <1>7, <1>10, <3>1, <3>2 DEF SoundTree, Unmade
  <2>3. \A v \in UnionNode : IsInjective(u.children[v])
    BY <1>7, <1>9, <1>10 DEF SoundTree
  <2> QED BY <1>7, <1>10, <2>1, <2>2, <2>3 DEF SoundTree
<1>13. RootEdit(AppendOp(s), c, u.children[Root])
  BY <1>6, <1>8, <1>10 DEF RootEdit
<1>14. \A X \in SUBSET Select : s \notin Nested(tree, X)
  BY <1>3, <1>7, <1>8, UnderNew DEF SoundTree
<1>15. Level(tree, Range(c) \cup {s}, {}, Range(c) \cup {s})
  <2> DEFINE X == Range(c) \cup {s}
  <2>1. Level(tree, Range(c), {}, Range(c))
    BY <1>7, RootLists
  <2>2. Range(c) \cup {s} \in SUBSET Select /\ Range(c) \in SUBSET (Range(c) \cup {s})
    BY <1>3, <1>7
  <2>3. Under(tree, X) \subseteq Under(tree, Range(c)) \cup {s}
    <3>1. Closed(tree, Under(tree, Range(c)) \cup {s})
      BY <1>7, <1>11, UnderIsClosed DEF Closed
    <3>2. X \subseteq Under(tree, Range(c)) \cup {s} /\ Under(tree, Range(c)) \cup {s} \in SUBSET Select
      <4>1. Range(c) \subseteq Under(tree, Range(c)) /\ Under(tree, Range(c)) \subseteq Select
        BY <1>7, UnderIsLeast
      <4> HIDE DEF c
      <4> QED BY <1>3, <4>1
    <3> QED BY <2>2, <3>1, <3>2, UnderIsLeast
  <2>4. Nested(tree, X) \subseteq Nested(tree, Range(c))
    BY <1>11, <2>3 DEF Nested
  <2>5. Parents(tree, X, {})
    BY <1>11, <2>1, <2>3 DEF Parents, Level
  <2>6. Types(tree, X)
    BY <1>11, <2>1, <2>3 DEF Types, Level
  <2>7. Nested(tree, X) \cap X = {}
    BY <1>14, <2>1, <2>2, <2>4 DEF Level
  <2> QED BY <2>5, <2>6, <2>7 DEF Level
<1>16. \A r \in Select : /\ u.query[r] = tree.query[r] /\ u.types[r] = tree.types[r] /\ u.parent[r] = tree.parent[r]
                         /\ tree.query[r] # None => u.children[tree.query[r]] = tree.children[tree.query[r]]
  BY <1>10, <1>11
<1>17. Level(u, Range(u.children[Root]), {}, Range(u.children[Root]))
  <2>1. Range(c) \cup {s} \in SUBSET Select
    BY <1>3, <1>7
  <2>2. PICK X \in SUBSET Select : X = Range(c) \cup {s}
    BY <2>1
  <2>3. Under(tree, X) \subseteq Select /\ Nested(tree, X) \subseteq Select
    BY UnderIsLeast DEF Nested
  <2>4. \A r \in Nested(tree, X) : u.parent[r] = tree.parent[r] /\ r \notin {} /\ r \notin X
    <3>1. tree \in Tree /\ Level(tree, X, {}, X)
      BY <1>7, <1>15, <2>2
    <3>2. \A r \in Nested(tree, X) : r \notin {} /\ r \notin X
      BY ONLY <3>1, X \in SUBSET Select, LevelApart
    <3> QED BY <1>16, <2>3, <3>2
  <2>5. \A r \in X : u.parent[r] \in {Root, None} \/ r \in {}
    BY <1>15, <1>16, <2>2 DEF Level, Parents
  <2>6. \A r \in Under(tree, X) : /\ u.query[r] = tree.query[r] /\ u.types[r] = tree.types[r]
                                  /\ tree.query[r] # None => u.children[tree.query[r]] = tree.children[tree.query[r]]
    BY <1>16, <2>3
  <2>7. tree \in Tree /\ u \in Tree /\ Level(tree, X, {}, X) /\ X \in SUBSET X
    BY <1>7, <1>10, <1>15, <2>2
  <2>8. Level(u, X, {}, X)
    BY ONLY <2>2, <2>4, <2>5, <2>6, <2>7, LevelStays
  <2> QED BY <1>9, <1>10, <2>2, <2>8
<1>18. ASSUME NEW i \in Levels
       PROVE  Level(u, Range(RootAt(i)), {s} \cup Touched(op_list, i), Range(u.children[Root]) \cup RootsTo(i))
  <2>1. PICK X, T, O : X = Range(RootAt(i)) /\ T = Touched(op_list, i) /\ O = RootsTo(i)
    OBVIOUS
  <2>2. X \in SUBSET Select /\ Level(tree, X, T, O) /\ Range(c) \subseteq O
    BY <1>7, <2>1, RootLists
  <2>3. Under(tree, X) \subseteq Select /\ Nested(tree, X) \subseteq Select
    BY <2>2, UnderIsLeast DEF Nested
  <2>4. PICK T2, O2 : T2 = {s} \cup T /\ O2 = Range(u.children[Root]) \cup O
    OBVIOUS
  <2>5. O2 = O \cup {s}
    BY <1>9, <1>10, <2>2, <2>4
  <2>6. \A r \in Nested(tree, X) : u.parent[r] = tree.parent[r] /\ r \notin T2 /\ r \notin O2
    <3>1. \A r \in Nested(tree, X) : r \notin T /\ r \notin O
      BY <1>7, <2>2, LevelApart
    <3> QED BY <1>14, <1>16, <2>2, <2>3, <2>4, <2>5, <3>1
  <2>7. \A r \in X : u.parent[r] \in {Root, None} \/ r \in T2
    BY <1>16, <2>2, <2>4 DEF Level, Parents
  <2>8. \A r \in Under(tree, X) : /\ u.query[r] = tree.query[r] /\ u.types[r] = tree.types[r]
                                  /\ tree.query[r] # None => u.children[tree.query[r]] = tree.children[tree.query[r]]
    BY <1>16, <2>3
  <2>9. tree \in Tree /\ u \in Tree /\ X \in SUBSET X
    BY <1>7, <1>10
  <2>10. Level(u, X, T2, O2)
    BY ONLY <2>2, <2>6, <2>7, <2>8, <2>9, LevelStays
  <2> QED BY <2>1, <2>4, <2>10
<1> HIDE DEF c
<1>19. /\ u.selects >= tree.selects /\ s <= u.selects
       /\ RootEdit(AppendOp(s), tree.children[Root], u.children[Root])
  BY <1>3, <1>7, <1>10, <1>13 DEF c
<1> QED BY <1>3, <1>5, <1>6, <1>10, <1>12, <1>16, <1>17, <1>18, <1>19, MoveStep
\* A tree whose root has another list, the rest as it was.
LEMMA OtherRoot ==
  ASSUME NEW t \in Tree, NEW c \in Seq(Select)
  PROVE  LET u == [t EXCEPT !.children[Root] = c]
         IN  /\ u \in Tree /\ u.children[Root] = c
             /\ \A v \in UnionNode : v # Root => u.children[v] = t.children[v]
             /\ u.parent = t.parent /\ u.query = t.query /\ u.limit = t.limit /\ u.offset = t.offset
             /\ u.types = t.types /\ u.unions = t.unions /\ u.selects = t.selects
<1>1. t.children \in [UnionNode -> Seq(Select)] /\ Root \in UnionNode
  BY NodesAssumption DEF Tree, Root
<1> QED BY <1>1 DEF Tree

\* It stays sound when the list is of SELECTs that have been made.
LEMMA OtherRootSound ==
  ASSUME NEW t, SoundTree(t), NEW u \in Tree, IsInjective(u.children[Root]),
         u.children[Root] \in Seq(1 .. t.selects),
         \A v \in UnionNode : v # Root => u.children[v] = t.children[v],
         u.query = t.query, u.unions = t.unions, u.selects = t.selects,
         \A s \in Select : Good(u.limit[s]) /\ u.offset[s] >= 0,
         \A s \in Select : s > t.selects => u.parent[s] = None /\ u.limit[s] = None /\ u.offset[s] = 0
  PROVE  SoundTree(u)
<1>1. Founded(u)
  BY DEF SoundTree, Founded
<1>2. Unmade(u)
  <2>1. ASSUME NEW v \in UnionNode
        PROVE  u.children[v] \in Seq(1 .. u.selects) /\ (v > u.unions => u.children[v] = <<>>)
    <3>1. CASE v = Root
      <4>1. t.unions >= Root /\ t.unions \in Nat /\ Root \in Nat
        BY DEF SoundTree, Unmade, Tree, Root
      <4> QED BY <3>1, <4>1
    <3>2. CASE v # Root
      BY <3>2 DEF SoundTree, Unmade
    <3> QED BY <3>1, <3>2
  <2> QED BY <2>1 DEF SoundTree, Unmade
<1>3. \A v \in UnionNode : IsInjective(u.children[v])
  BY DEF SoundTree
<1> QED BY <1>1, <1>2, <1>3 DEF SoundTree

\* remove_select keeps the invariant.
LEMMA RemoveStep ==
  ASSUME EditInv, NEW k \in DOMAIN tree.children[Root], RemoveSelect(k)
  PROVE  EditInv' /\ (PromiseInv => PromiseInv')
<1> DEFINE c == tree.children[Root]
<1>1. PICK s : s = c[k]
  OBVIOUS
<1>2. PICK edit : edit = [steps |-> <<[op |-> RemoveOp(s, k), before |-> tree]>>, tree |-> Removed(tree, k), silent |-> FALSE]
  OBVIOUS
<1>3. Perform(edit, s)
  BY <1>1, <1>2 DEF RemoveSelect
<1>4. PICK u : u = Removed(tree, k)
  OBVIOUS
<1>5. edit.tree = u /\ edit.steps = <<[op |-> RemoveOp(s, k), before |-> tree]>> /\ edit.silent = FALSE
  BY <1>2, <1>4
<1>6. /\ SoundTree(tree) /\ tree \in Tree /\ Root \in UnionNode /\ tree.selects \in Nat /\ 0 \in Levels
      /\ c \in Seq(Select) /\ c \in Seq(1 .. tree.selects) /\ IsInjective(c) /\ RootAt(0) = c
      /\ Range(c) \in SUBSET Select
  BY RootLists DEF EditInv
<1>7. k \in 1 .. Len(c) /\ s \in Select /\ s \in Range(c) /\ s \in 1 .. tree.selects
  BY <1>1, <1>6, ListRange, LenProperties
<1>8. /\ RemoveOp(s, k) \in Op /\ Moves(RemoveOp(s, k)) /\ RemoveOp(s, k).select = s
      /\ RemoveOp(s, k).type = "RemoveSelect" /\ RemoveOp(s, k).origindex = k
  <2>1. k \in Nat \ {0}
    BY <1>6, <1>7, LenProperties
  <2> QED BY <1>7, <2>1 DEF RemoveOp, Op, Moves
<1>9. /\ RemoveAt(c, k) \in Seq(Select) /\ RemoveAt(c, k) \in Seq(1 .. tree.selects)
      /\ IsInjective(RemoveAt(c, k)) /\ Range(RemoveAt(c, k)) \subseteq Range(c)
  BY <1>6, <1>7, ShorterList
<1>10. /\ u \in Tree /\ u.children[Root] = RemoveAt(c, k)
       /\ \A v \in UnionNode : v # Root => u.children[v] = tree.children[v]
       /\ u.parent = tree.parent /\ u.query = tree.query /\ u.limit = tree.limit /\ u.offset = tree.offset
       /\ u.types = tree.types /\ u.unions = tree.unions /\ u.selects = tree.selects
  BY <1>4, <1>6, <1>9, OtherRoot DEF Removed
<1>11. \A r \in Select : tree.query[r] # None => tree.query[r] \in UnionNode /\ tree.query[r] # Root
  BY <1>6 DEF SoundTree, Tree
<1>12. SoundTree(u)
  <2>1. /\ \A r \in Select : Good(u.limit[r]) /\ u.offset[r] >= 0
        /\ \A r \in Select : r > tree.selects => u.parent[r] = None /\ u.limit[r] = None /\ u.offset[r] = 0
    BY <1>6, <1>10 DEF SoundTree, Unmade
  <2> QED BY <1>6, <1>9, <1>10, <2>1, OtherRootSound
<1>13. RootEdit(RemoveOp(s, k), c, u.children[Root])
  BY <1>1, <1>7, <1>8, <1>10 DEF RootEdit
<1>14. \A r \in Select : /\ u.query[r] = tree.query[r] /\ u.types[r] = tree.types[r] /\ u.parent[r] = tree.parent[r]
                         /\ tree.query[r] # None => u.children[tree.query[r]] = tree.children[tree.query[r]]
  BY <1>10, <1>11
<1>15. ASSUME NEW X \in SUBSET Select, NEW Y \in SUBSET X, NEW T, NEW O, NEW T2, NEW O2, Level(tree, X, T, O),
              T \subseteq T2, O2 \subseteq O, s \in O, T2 \subseteq T \cup {s}
       PROVE  Level(u, Y, T2, O2)
  <2>1. Under(tree, X) \subseteq Select /\ Nested(tree, X) \subseteq Select
    BY UnderIsLeast DEF Nested
  <2>2. \A r \in Nested(tree, X) : r \notin T /\ r \notin O
    BY ONLY <1>6, <1>15, LevelApart
  <2>3. \A r \in Nested(tree, X) : u.parent[r] = tree.parent[r] /\ r \notin T2 /\ r \notin O2
    BY <1>14, <1>15, <2>1, <2>2
  <2>4. \A r \in Y : u.parent[r] \in {Root, None} \/ r \in T2
    BY <1>14, <1>15 DEF Level, Parents
  <2>5. \A r \in Under(tree, X) : /\ u.query[r] = tree.query[r] /\ u.types[r] = tree.types[r]
                                  /\ tree.query[r] # None => u.children[tree.query[r]] = tree.children[tree.query[r]]
    BY <1>14, <2>1
  <2> QED BY ONLY <1>6, <1>10, <1>15, <2>3, <2>4, <2>5, LevelStays
<1>16. Level(u, Range(u.children[Root]), {}, Range(u.children[Root]))
  <2>1. Level(tree, Range(c), {}, Range(c))
    BY <1>6, RootLists
  <2> QED BY <1>6, <1>7, <1>9, <1>10, <1>15, <2>1
<1>17. ASSUME NEW i \in Levels
       PROVE  Level(u, Range(RootAt(i)), {s} \cup Touched(op_list, i), Range(u.children[Root]) \cup RootsTo(i))
  <2>1. PICK X, T, O : X = Range(RootAt(i)) /\ T = Touched(op_list, i) /\ O = RootsTo(i)
    OBVIOUS
  <2>2. X \in SUBSET Select /\ Level(tree, X, T, O) /\ Range(c) \subseteq O
    BY <1>6, <2>1, RootLists
  <2>3. PICK T2, O2 : T2 = {s} \cup T /\ O2 = Range(u.children[Root]) \cup O
    OBVIOUS
  <2>4. T \subseteq T2 /\ O2 \subseteq O /\ s \in O /\ T2 \subseteq T \cup {s} /\ X \in SUBSET X
    BY <1>7, <1>9, <1>10, <2>2, <2>3
  <2>5. Level(u, X, T2, O2)
    BY ONLY <1>15, <2>2, <2>4
  <2> QED BY <2>1, <2>3, <2>5
<1> HIDE DEF c
<1>18. /\ u.selects >= tree.selects /\ s <= u.selects
       /\ RootEdit(RemoveOp(s, k), tree.children[Root], u.children[Root])
  BY <1>6, <1>7, <1>10, <1>13 DEF c
<1> QED BY <1>3, <1>5, <1>8, <1>10, <1>12, <1>14, <1>16, <1>17, <1>18, MoveStep
-----------------------------------------------------------------------------
\* The SELECTs of the root are wrapped.

\* What is left of a list from its k-th element.
Rest(c, k) == SubSeq(c, k, Len(c))

\* What is left of a list when its first elements have been removed, one by one.
LEMMA RestOfList ==
  ASSUME NEW S, NEW c \in Seq(S), NEW k \in 1 .. Len(c) + 1
  PROVE  /\ Rest(c, k) \in Seq(S) /\ Len(Rest(c, k)) = Len(c) - k + 1 /\ Len(c) \in Nat
         /\ \A i \in 1 .. Len(c) - k + 1 : Rest(c, k)[i] = c[k + i - 1]
         /\ Range(Rest(c, k)) = {c[i] : i \in k .. Len(c)} /\ Range(Rest(c, k)) \subseteq Range(c)
         /\ IsInjective(c) => IsInjective(Rest(c, k))
         /\ k = 1 => Rest(c, k) = c
         /\ k = Len(c) + 1 => Rest(c, k) = <<>>
         /\ k # Len(c) + 1 => /\ 1 \in 1 .. Len(Rest(c, k)) /\ Rest(c, k)[1] = c[k]
                              /\ RemoveAt(Rest(c, k), 1) = Rest(c, k + 1)
<1> DEFINE n == Len(c)
           a == Rest(c, k)
<1>1. n \in Nat /\ k \in 1 .. n + 1
  BY LenProperties
<1>2. \A j \in 1 .. n + 1 : /\ Rest(c, j) \in Seq(S) /\ Len(Rest(c, j)) = n - j + 1
                            /\ \A i \in 1 .. n - j + 1 : Rest(c, j)[i] = c[j + i - 1]
  <2>1. SUFFICES ASSUME NEW j \in 1 .. n + 1
                 PROVE  /\ SubSeq(c, j, n) \in Seq(S) /\ Len(SubSeq(c, j, n)) = n - j + 1
                        /\ \A i \in 1 .. n - j + 1 : SubSeq(c, j, n)[i] = c[j + i - 1]
    BY DEF Rest
  <2> QED BY <1>1
<1> HIDE DEF n
<1>3. a \in Seq(S) /\ Len(a) = n - k + 1 /\ \A i \in 1 .. n - k + 1 : a[i] = c[k + i - 1]
  BY <1>1, <1>2
<1> HIDE DEF a
<1>4. Range(a) = {a[i] : i \in 1 .. n - k + 1} /\ Range(c) = {c[i] : i \in 1 .. n}
  BY <1>3, ListRange DEF n
<1>5. Range(a) = {c[i] : i \in k .. n}
  <2>1. \A i \in 1 .. n - k + 1 : k + i - 1 \in k .. n
    BY <1>1
  <2>2. \A i \in k .. n : i - k + 1 \in 1 .. n - k + 1 /\ k + (i - k + 1) - 1 = i
    BY <1>1
  <2> QED BY <1>3, <1>4, <2>1, <2>2
<1>6. Range(a) \subseteq Range(c)
  <2>1. \A i \in k .. n : i \in 1 .. n
    BY <1>1
  <2> QED BY <1>4, <1>5, <2>1
<1>7. IsInjective(c) => IsInjective(a)
  <2>1. IsInjective(a) <=> \A i, j \in 1 .. n - k + 1 : a[i] = a[j] => i = j
    BY <1>3, ListRange
  <2>2. IsInjective(c) <=> \A i, j \in 1 .. n : c[i] = c[j] => i = j
    BY ListRange DEF n
  <2>3. \A i \in 1 .. n - k + 1 : k + i - 1 \in 1 .. n
    BY <1>1
  <2>4. \A i, j \in 1 .. n - k + 1 : k + i - 1 = k + j - 1 => i = j
    BY <1>1
  <2> QED BY <1>3, <2>1, <2>2, <2>3, <2>4
<1>8. k = 1 => a = c
  <2>1. SUFFICES ASSUME k = 1
                 PROVE  a = c
    OBVIOUS
  <2>2. Len(a) = n /\ \A i \in 1 .. n : a[i] = c[i]
    <3>1. n - k + 1 = n /\ \A i \in 1 .. n : k + i - 1 = i
      BY <1>1, <2>1
    <3> QED BY <1>3, <3>1
  <2> QED BY <1>3, <2>2, SeqEqual DEF n
<1>9. k = n + 1 => a = <<>>
  BY <1>1, <1>3, EmptySeq
<1>10. ASSUME k # n + 1
       PROVE  1 \in 1 .. Len(a) /\ a[1] = c[k] /\ RemoveAt(a, 1) = Rest(c, k + 1)
  <2>1. k \in 1 .. n /\ k + 1 \in 1 .. n + 1 /\ 1 \in 1 .. n - k + 1 /\ k + 1 - 1 = k
    BY <1>1, <1>10
  <2>2. 1 \in 1 .. Len(a) /\ a[1] = c[k]
    BY <1>3, <2>1
  <2> DEFINE b == Rest(c, k + 1)
             d == RemoveAt(a, 1)
  <2>3. b \in Seq(S) /\ Len(b) = n - (k + 1) + 1 /\ \A i \in 1 .. n - (k + 1) + 1 : b[i] = c[k + 1 + i - 1]
    BY <1>2, <2>1
  <2>4. d \in Seq(S) /\ Len(d) = Len(a) - 1 /\ \A i \in 1 .. Len(a) - 1 : d[i] = IF i < 1 THEN a[i] ELSE a[i + 1]
    BY <1>3, <2>2, RemoveAtPlace
  <2> HIDE DEF b, d
  <2>5. Len(d) = n - k /\ Len(b) = n - k
    BY <1>1, <1>3, <2>3, <2>4
  <2>6. \A i \in 1 .. n - k : d[i] = b[i]
    <3>1. SUFFICES ASSUME NEW i \in 1 .. n - k
                   PROVE  d[i] = b[i]
      OBVIOUS
    <3>2. i \in 1 .. Len(a) - 1 /\ ~(i < 1) /\ i + 1 \in 1 .. n - k + 1 /\ i \in 1 .. n - (k + 1) + 1
      BY <1>1, <1>3, <3>1
    <3>3. k + 1 + i - 1 = k + (i + 1) - 1
      BY <1>1, <3>1
    <3>4. d[i] = a[i + 1] /\ a[i + 1] = c[k + (i + 1) - 1] /\ b[i] = c[k + 1 + i - 1]
      BY <1>3, <2>3, <2>4, <3>2
    <3> QED BY <3>3, <3>4
  <2>7. d = b
    BY <2>3, <2>4, <2>5, <2>6, SeqEqual
  <2> QED BY <2>2, <2>7 DEF b, d
<1> QED BY <1>1, <1>3, <1>5, <1>6, <1>7, <1>8, <1>9, <1>10 DEF a, n

\* The first SELECTs are moved.
LEMMA MovedFacts ==
  ASSUME NEW t \in Tree, t.unions + 1 \in UnionNode, t.unions + 1 # Root,
         NEW k \in 1 .. Len(t.children[Root])
  PROVE  /\ Moved(t, k) \in Tree
         /\ Moved(t, k).children[Root] = Rest(t.children[Root], k + 1)
         /\ Moved(t, k).children[t.unions + 1] = SubSeq(t.children[Root], 1, k)
         /\ \A v \in UnionNode : v # Root /\ v # t.unions + 1 => Moved(t, k).children[v] = t.children[v]
         /\ Moved(t, k).unions = t.unions + 1 /\ Moved(t, k).selects = t.selects
         /\ Moved(t, k).query = t.query /\ Moved(t, k).types = t.types
         /\ Moved(t, k).limit = t.limit /\ Moved(t, k).offset = t.offset
         /\ Moved(t, k).parent = [s \in Select |->
              IF s \in Range(SubSeq(t.children[Root], 1, k)) THEN t.unions + 1 ELSE t.parent[s]]
<1> DEFINE c == t.children[Root]
<1>1. /\ t.children \in [UnionNode -> Seq(Select)] /\ Root \in UnionNode /\ c \in Seq(Select)
      /\ t.parent \in [Select -> UnionNode \cup {None}] /\ t.unions + 1 \in Nat
      /\ t.query \in [Select -> UnionNode \cup {None}] /\ t.selects \in Nat
      /\ t.limit \in [Select -> Int \cup {None}] /\ t.offset \in [Select -> Int]
      /\ t.types \in [Select -> SUBSET Etype]
  BY NodesAssumption DEF Tree, Root
<1>2. Rest(c, k + 1) \in Seq(Select) /\ SubSeq(c, 1, k) \in Seq(Select) /\ Rest(c, k + 1) = SubSeq(c, k + 1, Len(c))
  <2>1. k \in Nat /\ Len(c) \in Nat /\ k + 1 \in 1 .. Len(c) + 1
    BY <1>1, LenProperties
  <2>2. SubSeq(c, 1, k) \in Seq(Select)
    <3> HIDE DEF c
    <3> QED BY <1>1, <2>1
  <2> QED BY <1>1, <2>1, <2>2, RestOfList DEF Rest
<1>3. PICK ch : ch = [t.children EXCEPT ![t.unions + 1] = SubSeq(c, 1, k), ![Root] = Rest(c, k + 1)]
  OBVIOUS
<1>4. PICK pa : pa = [s \in Select |-> IF s \in Range(SubSeq(c, 1, k)) THEN t.unions + 1 ELSE t.parent[s]]
  OBVIOUS
<1>5. Moved(t, k) = [t EXCEPT !.unions = t.unions + 1, !.children = ch, !.parent = pa]
  BY <1>2, <1>3, <1>4 DEF Moved
<1> HIDE DEF c
<1>6. /\ ch \in [UnionNode -> Seq(Select)] /\ ch[Root] = Rest(c, k + 1) /\ ch[t.unions + 1] = SubSeq(c, 1, k)
      /\ \A v \in UnionNode : v # Root /\ v # t.unions + 1 => ch[v] = t.children[v]
  BY ONLY <1>1, <1>2, <1>3, t.unions + 1 \in UnionNode, t.unions + 1 # Root
<1>7. pa \in [Select -> UnionNode \cup {None}]
  BY ONLY <1>1, <1>4, t.unions + 1 \in UnionNode
<1>8. Moved(t, k) = [children |-> ch, parent |-> pa, query |-> t.query, limit |-> t.limit, offset |-> t.offset,
                     types |-> t.types, selects |-> t.selects, unions |-> t.unions + 1]
  BY <1>5 DEF Tree
<1>9. Moved(t, k) \in Tree
  BY <1>1, <1>6, <1>7, <1>8 DEF Tree
<1> QED BY <1>4, <1>6, <1>8, <1>9 DEF c

\* A tree that is t with the SELECTs of its root wrapped, up to the bounds of the new one.
IsWrapped(u, t) ==
  /\ u \in Tree /\ u.unions = t.unions + 1 /\ u.selects = New(t)
  /\ u.children[Root] = <<New(t)>> /\ u.children[t.unions + 1] = t.children[Root]
  /\ \A v \in UnionNode : v # Root /\ v # t.unions + 1 => u.children[v] = t.children[v]
  /\ u.query[New(t)] = t.unions + 1 /\ u.types[New(t)] = TypesOf(t, Root) /\ u.parent[New(t)] = t.parent[New(t)]
  /\ Good(u.limit[New(t)]) /\ u.offset[New(t)] >= 0
  /\ \A s \in Select : s # New(t) =>
       /\ u.query[s] = t.query[s] /\ u.types[s] = t.types[s]
       /\ u.limit[s] = t.limit[s] /\ u.offset[s] = t.offset[s]
       /\ u.parent[s] = IF s \in Range(t.children[Root]) THEN t.unions + 1 ELSE t.parent[s]

\* The operations of the wrapping, in order, and the lists that the root has.
WrapOps(edit, t) ==
  LET c == t.children[Root]
  IN  /\ edit.steps \in Steps /\ Len(edit.steps) = Len(c) + 1
      /\ \A k \in 1 .. Len(c) + 1 : edit.steps[k].before.children[Root] = Rest(c, k)
      /\ \A k \in 1 .. Len(c) : edit.steps[k].op = RemoveOp(c[k], 1)
      /\ edit.steps[Len(c) + 1].op = AppendOp(New(t))

\* Wrapping the SELECTs of the root: the tree that results and the operations recorded.
LEMMA WrapFacts ==
  ASSUME NEW t, SoundTree(t), CanWrap(t)
  PROVE  /\ IsWrapped(Wrapped(t).tree, t) /\ WrapOps(Wrapped(t), t) /\ Wrapped(t).silent = FALSE
         /\ Wrapped(t).tree.limit = t.limit /\ Wrapped(t).tree.offset = t.offset
<1> DEFINE c == t.children[Root]
           s == New(t)
           n == Len(c)
           empty == Moved(t, n)
<1>1. /\ t \in Tree /\ Root \in UnionNode /\ c \in Seq(Select) /\ n \in Nat /\ n >= 1
      /\ s \in Select /\ t.unions + 1 \in UnionNode /\ t.unions + 1 # Root /\ s = t.selects + 1
      /\ c \in Seq(1 .. t.selects) /\ t.selects \in Nat /\ s \in Nat
  <2>1. t \in Tree /\ Root \in UnionNode /\ c \in Seq(Select) /\ c # <<>> /\ t.selects \in Nat
    BY NodesAssumption DEF SoundTree, Tree, Root, CanWrap
  <2>2. n \in Nat /\ n >= 1
    BY <2>1, LenProperties, EmptySeq
  <2>3. t.unions \in Nat /\ t.unions >= Root /\ Root = 1
    BY DEF SoundTree, Tree, Unmade, Root
  <2> QED BY <2>1, <2>2, <2>3 DEF SoundTree, Unmade, CanWrap, New
<1>2. n \in 1 .. n /\ n + 1 \in 1 .. n + 1
  BY <1>1
<1>3. /\ empty \in Tree /\ empty.children[Root] = Rest(c, n + 1) /\ empty.children[t.unions + 1] = SubSeq(c, 1, n)
      /\ \A v \in UnionNode : v # Root /\ v # t.unions + 1 => empty.children[v] = t.children[v]
      /\ empty.unions = t.unions + 1 /\ empty.selects = t.selects /\ empty.query = t.query
      /\ empty.types = t.types /\ empty.limit = t.limit /\ empty.offset = t.offset
      /\ empty.parent = [r \in Select |-> IF r \in Range(SubSeq(c, 1, n)) THEN t.unions + 1 ELSE t.parent[r]]
  BY <1>1, <1>2, MovedFacts
<1>4. Rest(c, n + 1) = <<>> /\ SubSeq(c, 1, n) = c
  <2>1. 1 \in 1 .. n + 1
    BY <1>1
  <2> QED BY <1>1, <1>2, <2>1, RestOfList DEF Rest
<1> HIDE DEF empty, n
<1>5. PICK new : new = [empty EXCEPT !.query[New(t)] = t.unions + 1, !.types[New(t)] = TypesOf(t, Root)]
  OBVIOUS
<1>6. TypesOf(t, Root) \in SUBSET Etype
  <2>1. \A r \in Range(c) : t.types[r] \subseteq Etype
    BY <1>1, ListRange DEF Tree
  <2> QED BY <2>1 DEF TypesOf
<1>7. /\ new \in Tree /\ new.children = empty.children /\ new.parent = empty.parent
      /\ new.limit = empty.limit /\ new.offset = empty.offset
      /\ new.selects = empty.selects /\ new.unions = empty.unions
      /\ new.query = [empty.query EXCEPT ![s] = t.unions + 1]
      /\ new.types = [empty.types EXCEPT ![s] = TypesOf(t, Root)]
  <2> HIDE DEF s, c
  <2>1. new = [empty EXCEPT !.query = [empty.query EXCEPT ![s] = t.unions + 1],
                            !.types = [empty.types EXCEPT ![s] = TypesOf(t, Root)]]
    BY <1>3, <1>5 DEF Tree, s
  <2>2. PICK qu \in [Select -> UnionNode \cup {None}], ty \in [Select -> SUBSET Etype] :
          qu = [empty.query EXCEPT ![s] = t.unions + 1] /\ ty = [empty.types EXCEPT ![s] = TypesOf(t, Root)]
    BY <1>1, <1>3, <1>6 DEF Tree
  <2>3. new = [empty EXCEPT !.query = qu, !.types = ty]
    BY <2>1, <2>2
  <2> QED BY ONLY <1>3, <2>2, <2>3, qu \in [Select -> UnionNode \cup {None}], ty \in [Select -> SUBSET Etype] DEF Tree
<1>8. PICK u : u = Appended(new, s)
  OBVIOUS
<1>9. Append(<<>>, s) = <<s>> /\ <<s>> \in Seq(Select)
  BY <1>1
<1>10. /\ u \in Tree /\ u.children[Root] = <<s>> /\ u.selects = s
       /\ \A v \in UnionNode : v # Root => u.children[v] = new.children[v]
       /\ u.parent = new.parent /\ u.query = new.query /\ u.limit = new.limit /\ u.offset = new.offset
       /\ u.types = new.types /\ u.unions = new.unions
  <2>1. new.children[Root] = <<>>
    BY <1>3, <1>4, <1>7
  <2>2. PICK e, w : e = <<s>> /\ w = [new EXCEPT !.children[Root] = e]
    OBVIOUS
  <2>3. /\ w \in Tree /\ w.children[Root] = <<s>>
        /\ \A v \in UnionNode : v # Root => w.children[v] = new.children[v]
        /\ w.parent = new.parent /\ w.query = new.query /\ w.limit = new.limit /\ w.offset = new.offset
        /\ w.types = new.types /\ w.unions = new.unions /\ w.selects = new.selects
    <3>1. e \in Seq(Select) /\ new \in Tree /\ w = [new EXCEPT !.children[Root] = e]
      BY <1>7, <1>9, <2>2
    <3> HIDE DEF s
    <3>2. /\ w \in Tree /\ w.children[Root] = e
          /\ \A v \in UnionNode : v # Root => w.children[v] = new.children[v]
          /\ w.parent = new.parent /\ w.query = new.query /\ w.limit = new.limit /\ w.offset = new.offset
          /\ w.types = new.types /\ w.unions = new.unions /\ w.selects = new.selects
      BY ONLY <3>1, OtherRoot
    <3> QED BY <2>2, <3>2
  <2>4. u = [new EXCEPT !.selects = s, !.children[Root] = <<s>>]
    BY <1>1, <1>7, <1>8, <1>9, <2>1 DEF Appended, Tree
  <2> HIDE DEF s
  <2>5. u = [w EXCEPT !.selects = s]
    BY <1>7, <2>2, <2>4 DEF Tree
  <2>6. u \in Tree /\ u.selects = s
    BY ONLY <1>1, <2>3, <2>5 DEF Tree
  <2>7. /\ u.children = w.children /\ u.parent = w.parent /\ u.query = w.query /\ u.limit = w.limit
        /\ u.offset = w.offset /\ u.types = w.types /\ u.unions = w.unions
    BY ONLY <2>3, <2>5 DEF Tree
  <2> QED BY <2>3, <2>6, <2>7
<1> DEFINE removal(k) == [op |-> RemoveOp(c[k], 1), before |-> IF k = 1 THEN t ELSE Moved(t, k - 1)]
           rs == [k \in DOMAIN c |-> removal(k)]
           steps == Append(rs, [op |-> AppendOp(s), before |-> empty])
<1>11. Wrapped(t) = [steps |-> steps, tree |-> u, silent |-> FALSE]
  BY <1>5, <1>8 DEF Wrapped, empty, n
<1>12. \A k \in 1 .. n : c[k] \in Select /\ removal(k).op \in Op /\ removal(k).before \in Tree
                         /\ removal(k).before.children[Root] = Rest(c, k)
  <2>1. SUFFICES ASSUME NEW k \in 1 .. n
                 PROVE  c[k] \in Select /\ removal(k).op \in Op /\ removal(k).before \in Tree
                         /\ removal(k).before.children[Root] = Rest(c, k)
    OBVIOUS
  <2>2. c[k] \in Select
    BY <1>1, <2>1, ElementOfSeq DEF n
  <2>3. RemoveOp(c[k], 1) \in Op
    BY <2>2 DEF Op, RemoveOp
  <2>4. CASE k = 1
    <3>1. Rest(c, 1) = c
      BY <1>1, <1>2, RestOfList DEF n
    <3> QED BY <1>1, <2>2, <2>3, <2>4, <3>1
  <2>5. CASE k # 1
    <3>1. k - 1 \in 1 .. n /\ (k - 1) + 1 = k
      BY <1>1, <2>1, <2>5
    <3>2. Moved(t, k - 1) \in Tree /\ Moved(t, k - 1).children[Root] = Rest(c, (k - 1) + 1)
      BY <1>1, <3>1, MovedFacts DEF n
    <3> QED BY <2>2, <2>3, <2>5, <3>1, <3>2
  <2> QED BY <2>4, <2>5
<1>13. /\ steps \in Steps /\ Len(steps) = n + 1
       /\ \A k \in 1 .. n : steps[k] = removal(k)
       /\ steps[n + 1] = [op |-> AppendOp(s), before |-> empty]
  <2>1. DOMAIN c = 1 .. n
    BY <1>1, LenProperties DEF n
  <2>2. PICK last : last = [op |-> AppendOp(s), before |-> empty]
    OBVIOUS
  <2>3. last \in [op : Op, before : Tree]
    BY <1>1, <1>3, <2>2 DEF Op, AppendOp
  <2>4. \A k \in 1 .. n : removal(k) \in [op : Op, before : Tree]
    BY <1>12
  <2>5. rs \in [1 .. n -> [op : Op, before : Tree]] /\ \A k \in 1 .. n : rs[k] = removal(k)
    <3> HIDE DEF removal
    <3> QED BY <2>1, <2>4
  <2> HIDE DEF rs, removal
  <2>6. rs \in Seq([op : Op, before : Tree]) /\ Len(rs) = n
    <3>1. PICK m \in Nat : m = n
      BY <1>1 DEF n
    <3>2. PICK X : X = [op : Op, before : Tree]
      OBVIOUS
    <3>3. rs \in [1 .. m -> X]
      BY <2>5, <3>1, <3>2
    <3>4. rs \in Seq(X) /\ Len(rs) = m
      BY ONLY <3>3, m \in Nat
    <3> QED BY <3>1, <3>2, <3>4
  <2>7. Append(rs, last) \in Seq([op : Op, before : Tree]) /\ Len(Append(rs, last)) = n + 1
        /\ (\A k \in 1 .. n : Append(rs, last)[k] = rs[k]) /\ Append(rs, last)[n + 1] = last
    BY ONLY <2>3, <2>6
  <2> QED BY <2>2, <2>5, <2>7 DEF Steps
<1>14. WrapOps(Wrapped(t), t)
  <2>1. Wrapped(t).steps = steps
    BY <1>11
  <2>2. \A k \in 1 .. n + 1 : k \in 1 .. n \/ k = n + 1
    BY <1>1
  <2>3. \A k \in 1 .. n : removal(k).op = RemoveOp(c[k], 1)
    OBVIOUS
  <2> HIDE DEF steps, removal
  <2>4. \A k \in 1 .. n + 1 : steps[k].before.children[Root] = Rest(c, k)
    <3>1. \A k \in 1 .. n : steps[k].before.children[Root] = Rest(c, k)
      BY <1>12, <1>13
    <3>2. steps[n + 1].before.children[Root] = Rest(c, n + 1)
      BY <1>3, <1>13
    <3> QED BY <2>2, <3>1, <3>2
  <2>5. (\A k \in 1 .. n : steps[k].op = RemoveOp(c[k], 1)) /\ steps[n + 1].op = AppendOp(s)
    BY <1>13, <2>3
  <2> QED BY <1>13, <2>1, <2>4, <2>5 DEF WrapOps, n
<1>15. IsWrapped(u, t)
  <2>1. /\ u \in Tree /\ u.unions = t.unions + 1 /\ u.selects = s
        /\ u.children[Root] = <<s>> /\ u.children[t.unions + 1] = c
        /\ \A v \in UnionNode : v # Root /\ v # t.unions + 1 => u.children[v] = t.children[v]
    BY <1>1, <1>3, <1>4, <1>7, <1>10
  <2>2. /\ u.query[s] = t.unions + 1 /\ u.types[s] = TypesOf(t, Root)
        /\ \A r \in Select : r # s => u.query[r] = t.query[r] /\ u.types[r] = t.types[r]
    BY <1>1, <1>3, <1>7, <1>10 DEF Tree
  <2>3. \A r \in Select : u.parent[r] = IF r \in Range(c) THEN t.unions + 1 ELSE t.parent[r]
    <3>1. \A r \in Select : empty.parent[r] = IF r \in Range(SubSeq(c, 1, n)) THEN t.unions + 1 ELSE t.parent[r]
      BY <1>3
    <3>2. u.parent = empty.parent /\ SubSeq(c, 1, n) = c
      BY <1>4, <1>7, <1>10
    <3> HIDE DEF c
    <3> QED BY ONLY <3>1, <3>2
  <2>4. s \notin Range(c)
    <3>1. s \notin 1 .. t.selects
      BY <1>1
    <3> QED BY <1>1, <3>1, ListRange
  <2>5. u.limit = t.limit /\ u.offset = t.offset
    BY <1>3, <1>7, <1>10
  <2>6. Good(t.limit[s]) /\ t.offset[s] >= 0
    BY <1>1 DEF SoundTree
  <2> HIDE DEF s
  <2>7. s = New(t)
    BY DEF s
  <2> QED BY <1>1, <2>1, <2>2, <2>3, <2>4, <2>5, <2>6, <2>7 DEF IsWrapped
<1>16. u.limit = t.limit /\ u.offset = t.offset
  BY <1>3, <1>7, <1>10
<1> QED BY <1>11, <1>14, <1>15, <1>16
\* A list of one element.
LEMMA OneList ==
  ASSUME NEW S, NEW e \in S
  PROVE  <<e>> \in Seq(S) /\ Len(<<e>>) = 1 /\ <<e>>[1] = e /\ IsInjective(<<e>>) /\ Range(<<e>>) = {e}
<1>1. <<e>> \in Seq(S) /\ Len(<<e>>) = 1
  OBVIOUS
<1>2. \A i, j \in 1 .. Len(<<e>>) : i = j
  BY <1>1
<1> QED BY <1>1, <1>2, ListRange, SmallRanges

\* Counting backwards.
LEMMA Backwards ==
  ASSUME NEW n \in Nat, NEW j \in 1 .. n, NEW k, k = n + 1 - j
  PROVE  /\ k \in 1 .. n /\ n - j + 1 = k /\ j = n + 1 - k
         /\ j = 1 <=> k = n
         /\ \A i \in j .. n : k >= n + 1 - i
OBVIOUS

\* What is below the root is not new.
LEMMA OldSelects ==
  ASSUME NEW t, SoundTree(t), CanWrap(t)
  PROVE  /\ t \in Tree /\ Root \in UnionNode /\ t.unions + 1 \in UnionNode /\ t.unions \in Nat /\ t.selects \in Nat
         /\ t.unions + 1 # Root /\ New(t) \in Select /\ New(t) = t.selects + 1
         /\ t.children[Root] \in Seq(Select) /\ Range(t.children[Root]) \in SUBSET Select
         /\ t.children[Root] \in Seq(1 .. t.selects) /\ IsInjective(t.children[Root])
         /\ Range(t.children[Root]) \subseteq 1 .. t.selects
         /\ New(t) \notin 1 .. t.selects /\ t.query[New(t)] = None /\ t.parent[New(t)] = None
         /\ \A s \in Select : t.query[s] # None =>
              /\ t.query[s] \in UnionNode /\ t.query[s] # Root /\ t.query[s] # t.unions + 1 /\ s # New(t)
              /\ New(t) \notin Range(t.children[t.query[s]])
<1>1. /\ t \in Tree /\ Root \in UnionNode /\ t.unions + 1 \in UnionNode /\ t.unions \in Nat /\ t.unions >= Root
      /\ New(t) \in Select /\ New(t) = t.selects + 1 /\ t.selects \in Nat /\ Root = 1
  BY NodesAssumption DEF SoundTree, Tree, Unmade, Root, CanWrap, New
<1>2. /\ t.children[Root] \in Seq(Select) /\ t.children[Root] \in Seq(1 .. t.selects) /\ IsInjective(t.children[Root])
  BY <1>1 DEF SoundTree, Unmade, Tree
<1>3. New(t) > t.selects /\ New(t) \notin 1 .. t.selects /\ t.unions + 1 # Root
  BY <1>1
<1>4. t.query[New(t)] = None /\ t.parent[New(t)] = None
  BY <1>1, <1>3 DEF SoundTree, Unmade
<1>5. ASSUME NEW s \in Select, t.query[s] # None
      PROVE  /\ t.query[s] \in UnionNode /\ t.query[s] # Root /\ t.query[s] # t.unions + 1 /\ s # New(t)
             /\ New(t) \notin Range(t.children[t.query[s]])
  <2>1. t.query[s] \in UnionNode /\ t.query[s] # Root /\ t.query[s] <= t.unions
    BY <1>1, <1>5 DEF SoundTree, Unmade, Tree
  <2>2. t.query[s] \in Nat
    BY <2>1, NodesAssumption
  <2>3. t.children[t.query[s]] \in Seq(1 .. t.selects)
    BY <2>1 DEF SoundTree, Unmade
  <2>4. New(t) \notin Range(t.children[t.query[s]])
    BY <1>3, <2>3, ListRange
  <2> QED BY <1>1, <1>4, <1>5, <2>1, <2>2, <2>4
<1> QED BY <1>1, <1>2, <1>3, <1>4, <1>5, ListRange

\* A wrapped tree is sound.
LEMMA WrapSound ==
  ASSUME NEW t, SoundTree(t), CanWrap(t), NEW u, IsWrapped(u, t)
  PROVE  SoundTree(u)
<1> DEFINE c == t.children[Root]
           s == New(t)
           child == t.unions + 1
<1>1. /\ t \in Tree /\ Root \in UnionNode /\ child \in UnionNode /\ t.unions \in Nat /\ t.selects \in Nat
      /\ child # Root /\ s \in Select /\ s = t.selects + 1
      /\ c \in Seq(Select) /\ Range(c) \in SUBSET Select /\ c \in Seq(1 .. t.selects) /\ IsInjective(c)
      /\ Range(c) \subseteq 1 .. t.selects /\ s \notin 1 .. t.selects
      /\ \A r \in Select : t.query[r] # None =>
           /\ t.query[r] \in UnionNode /\ t.query[r] # Root /\ t.query[r] # child /\ r # s
           /\ s \notin Range(t.children[t.query[r]])
  BY OldSelects
<1> HIDE DEF c, s, child
<1>2. /\ u \in Tree /\ u.unions = child /\ u.selects = s /\ u.children[Root] = <<s>> /\ u.children[child] = c
      /\ \A v \in UnionNode : v # Root /\ v # child => u.children[v] = t.children[v]
      /\ u.query[s] = child /\ Good(u.limit[s]) /\ u.offset[s] >= 0
      /\ \A r \in Select : r # s =>
           /\ u.query[r] = t.query[r] /\ u.limit[r] = t.limit[r] /\ u.offset[r] = t.offset[r]
           /\ u.parent[r] = IF r \in Range(c) THEN child ELSE t.parent[r]
  BY DEF IsWrapped, c, s, child
<1>3. <<s>> \in Seq(1 .. s) /\ IsInjective(<<s>>) /\ Range(<<s>>) = {s}
  <2>1. s \in 1 .. s
    BY <1>1
  <2> QED BY <2>1, OneList
<1>4. \A v \in UnionNode : IsInjective(u.children[v])
  BY <1>1, <1>2, <1>3 DEF SoundTree
<1>5. \A r, q \in Select : u.query[r] = u.query[q] /\ u.query[r] # None => r = q
  <2>1. \A r, q \in Select : t.query[r] = t.query[q] /\ t.query[r] # None => r = q
    BY DEF SoundTree
  <2>2. child # None
    BY <1>1, NodesAssumption
  <2> QED BY <1>1, <1>2, <2>1, <2>2
<1>6. \A r \in Select : u.query[r] # Root
  BY <1>1, <1>2 DEF SoundTree
<1>7. Founded(u)
  <2>1. SUFFICES ASSUME NEW W \in SUBSET (UnionNode \ {Root}), W # {}
                 PROVE  \E v \in W : \A r \in Range(u.children[v]) : u.query[r] \notin W
    BY DEF Founded
  <2>2. CASE W \ {child} = {}
    <3>1. W = {child} /\ child \in W
      BY <2>1, <2>2
    <3>2. \A r \in Range(c) : r # s /\ t.query[r] # child
      BY <1>1, NodesAssumption DEF Tree
    <3>3. \A r \in Range(c) : u.query[r] \notin W
      BY <1>1, <1>2, <3>1, <3>2
    <3> QED BY <1>2, <3>1, <3>3
  <2>3. CASE W \ {child} # {}
    <3>1. W \ {child} \in SUBSET (UnionNode \ {Root})
      BY <2>1
    <3>2. PICK v \in W \ {child} : \A r \in Range(t.children[v]) : t.query[r] \notin W \ {child}
      BY <2>3, <3>1 DEF SoundTree, Founded
    <3>3. v \in UnionNode /\ v # Root /\ v # child /\ u.children[v] = t.children[v]
      BY <1>2, <2>1, <3>2
    <3>4. \A r \in Range(t.children[v]) : r \in Select /\ r # s
      <4>1. t.children[v] \in Seq(1 .. t.selects) /\ t.children[v] \in Seq(Select)
        BY <3>3 DEF SoundTree, Unmade, Tree
      <4> QED BY <1>1, <4>1, ListRange
    <3>5. \A r \in Range(u.children[v]) : u.query[r] \notin W
      <4>1. SUFFICES ASSUME NEW r \in Range(t.children[v]), t.query[r] \in W
                     PROVE  FALSE
        BY <1>2, <3>3, <3>4
      <4>2. t.query[r] = child /\ t.query[r] # None
        BY <1>1, <3>2, <4>1, NodesAssumption
      <4> QED BY <1>1, <3>4, <4>2
    <3> QED BY <3>2, <3>5
  <2> QED BY <2>2, <2>3
<1>8. Unmade(u)
  <2>1. /\ t.unions >= Root /\ Root = 1 /\ child = t.unions + 1
        /\ \A v \in UnionNode : t.children[v] \in Seq(1 .. t.selects) /\ (v > t.unions => t.children[v] = <<>>)
        /\ \A r \in Select : /\ t.query[r] # None => t.query[r] <= t.unions
                             /\ r > t.selects => /\ t.query[r] = None /\ t.parent[r] = None
                                                 /\ t.limit[r] = None /\ t.offset[r] = 0
    BY DEF SoundTree, Unmade, Root, child
  <2>2. 1 .. t.selects \subseteq 1 .. s
    BY <1>1
  <2>3. u.unions >= Root
    BY <1>1, <1>2, <2>1
  <2>4. ASSUME NEW v \in UnionNode
        PROVE  u.children[v] \in Seq(1 .. u.selects) /\ (v > u.unions => u.children[v] = <<>>)
    <3>1. v \in Nat /\ child \in Nat
      BY <1>1, NodesAssumption
    <3>2. CASE v = Root
      <4>1. ~(v > u.unions)
        BY <1>1, <1>2, <2>1, <3>2
      <4> QED BY <1>2, <1>3, <3>2, <4>1
    <3>3. CASE v = child
      <4>1. ~(v > u.unions)
        BY <1>2, <3>1, <3>3
      <4>2. c \in Seq(1 .. s)
        BY <1>1, <2>2, SeqWithin
      <4> QED BY <1>2, <3>3, <4>1, <4>2
    <3>4. CASE v # Root /\ v # child
      <4>1. u.children[v] = t.children[v] /\ t.children[v] \in Seq(1 .. s)
        BY <1>2, <2>1, <2>2, <3>4, SeqWithin
      <4>2. v > u.unions => v > t.unions
        BY <1>1, <1>2, <2>1, <3>1
      <4> QED BY <1>2, <2>1, <4>1, <4>2
    <3> QED BY <3>2, <3>3, <3>4
  <2>5. ASSUME NEW r \in Select
        PROVE  /\ u.query[r] # None => u.query[r] <= u.unions
               /\ r > u.selects => /\ u.query[r] = None /\ u.parent[r] = None
                                   /\ u.limit[r] = None /\ u.offset[r] = 0
    <3>1. CASE r = s
      <4>1. ~(r > u.selects) /\ u.query[r] = u.unions /\ u.unions \in Nat
        BY <1>1, <1>2, <2>1, <3>1
      <4> QED BY <4>1
    <3>2. CASE r # s
      <4>1. r \in Nat /\ (r > u.selects => r > t.selects)
        BY <1>1, <1>2, NodesAssumption
      <4>2. r > t.selects => r \notin Range(c)
        BY <1>1, <4>1
      <4>3. t.query[r] # None => t.query[r] <= u.unions
        <5>1. t.query[r] # None => t.query[r] \in Nat
          BY <1>1, NodesAssumption
        <5> QED BY <1>1, <1>2, <2>1, <5>1
      <4> QED BY <1>2, <2>1, <3>2, <4>1, <4>2, <4>3
    <3> QED BY <3>1, <3>2
  <2> QED BY <2>3, <2>4, <2>5 DEF Unmade
<1>9. \A r \in Select : Good(u.limit[r]) /\ u.offset[r] >= 0
  BY <1>2 DEF SoundTree
<1> QED BY <1>2, <1>4, <1>5, <1>6, <1>7, <1>8, <1>9 DEF SoundTree

\* The operations of the wrapping, the latest first, and the lists on the way.
LEMMA WrapLists ==
  ASSUME NEW t, SoundTree(t), CanWrap(t), NEW edit, WrapOps(edit, t),
         NEW n \in Nat, n = Len(t.children[Root]) + 1, NEW roots,
         roots[0] = <<New(t)>>, \A j \in 1 .. n : roots[j] = Rest(t.children[Root], n + 1 - j)
  PROVE  /\ edit.steps \in Steps /\ Len(edit.steps) = n /\ Len(Ops(edit)) = n
         /\ roots[0] = <<New(t)>> /\ roots[n] = t.children[Root]
         /\ \A j \in 1 .. n : /\ Befores(edit)[j].children[Root] = roots[j]
                              /\ RootEdit(Ops(edit)[j], roots[j], roots[j - 1])
                              /\ Ops(edit)[j].select <= New(t)
                              /\ Moves(Ops(edit)[j])
         /\ \A j \in 0 .. n : roots[j] \in Seq(1 .. New(t)) /\ IsInjective(roots[j])
                              /\ Range(roots[j]) \subseteq Range(t.children[Root]) \cup {New(t)}
         /\ \A j \in 1 .. n : /\ Touched(Ops(edit), j) = Range(roots[j]) \cup {New(t)}
                              /\ Range(roots[j]) \subseteq Range(t.children[Root])
<1> DEFINE c == t.children[Root]
           s == New(t)
<1>1. /\ t \in Tree /\ t.selects \in Nat /\ s \in Select /\ s = t.selects + 1 /\ c \in Seq(Select)
      /\ c \in Seq(1 .. t.selects) /\ IsInjective(c) /\ Range(c) \subseteq 1 .. t.selects /\ s \notin 1 .. t.selects
      /\ Range(c) \in SUBSET Select
  BY OldSelects
<1>2. /\ edit.steps \in Steps /\ Len(edit.steps) = n /\ n = Len(c) + 1
      /\ \A k \in 1 .. n : edit.steps[k].before.children[Root] = Rest(c, k)
      /\ \A k \in 1 .. Len(c) : edit.steps[k].op = RemoveOp(c[k], 1)
      /\ edit.steps[n].op = AppendOp(s)
  BY DEF WrapOps
<1>3. /\ Len(Ops(edit)) = n
      /\ \A j \in 1 .. n : /\ Ops(edit)[j] = edit.steps[n - j + 1].op
                           /\ Befores(edit)[j] = edit.steps[n - j + 1].before
  <2>1. /\ Len(Ops(edit)) = Len(edit.steps)
        /\ \A j \in 1 .. Len(edit.steps) :
             /\ Ops(edit)[j] = edit.steps[Len(edit.steps) - j + 1].op
             /\ Befores(edit)[j] = edit.steps[Len(edit.steps) - j + 1].before
    BY ONLY <1>2, ReversedSteps
  <2> HIDE DEF c
  <2> QED BY <1>2, <2>1
<1> HIDE DEF c, s
<1>4. Len(c) \in Nat /\ n >= 1
  BY <1>1, <1>2, LenProperties
<1>5. \A j \in 1 .. n : /\ n + 1 - j \in 1 .. n /\ n - j + 1 = n + 1 - j
                        /\ j - 1 \in 0 .. n
                        /\ j # 1 => /\ n + 1 - j \in 1 .. Len(c) /\ n + 1 - (j - 1) = (n + 1 - j) + 1
                                    /\ j - 1 # 0 /\ j - 1 \in 1 .. n
  BY <1>2, <1>4
<1>6. /\ roots[0] = <<s>>
      /\ \A j \in 1 .. n : roots[j] = Rest(c, n + 1 - j)
  BY DEF c, s
<1>14. ASSUME NEW j \in 1 .. n, NEW k, k = n + 1 - j
       PROVE  /\ k \in 1 .. n /\ j = n + 1 - k /\ roots[j] = Rest(c, k)
              /\ Ops(edit)[j] = edit.steps[k].op /\ Befores(edit)[j].children[Root] = Rest(c, k)
  <2>1. k \in 1 .. n /\ n - j + 1 = k /\ j = n + 1 - k
    BY ONLY <1>14, n \in Nat, j \in 1 .. n, Backwards
  <2>2. Ops(edit)[j] = edit.steps[n - j + 1].op /\ Befores(edit)[j] = edit.steps[n - j + 1].before
    BY <1>3
  <2>3. Ops(edit)[j] = edit.steps[k].op /\ Befores(edit)[j] = edit.steps[k].before
    BY ONLY <2>1, <2>2
  <2>4. roots[j] = Rest(c, k)
    BY <1>6, <1>14
  <2> QED BY <1>2, <2>1, <2>3, <2>4
<1>7. \A k \in 1 .. n : k \in 1 .. Len(c) + 1
  BY <1>2
<1>8. roots[n] = c
  <2>1. n \in 1 .. n /\ n + 1 - n = 1 /\ 1 \in 1 .. Len(c) + 1
    BY <1>4
  <2>2. Rest(c, 1) = c
    BY <1>1, <2>1, RestOfList
  <2> QED BY <1>6, <2>1, <2>2
<1>9. roots[1] = <<>> /\ 1 \in 1 .. n
  <2>1. 1 \in 1 .. n /\ n + 1 - 1 = n /\ n \in 1 .. Len(c) + 1 /\ n = Len(c) + 1
    BY <1>2, <1>4
  <2>2. Rest(c, n) = <<>>
    BY <1>1, <2>1, RestOfList
  <2> QED BY <1>6, <2>1, <2>2
<1>10. \A j \in 1 .. n : /\ roots[j] \in Seq(1 .. t.selects) /\ IsInjective(roots[j])
                         /\ Range(roots[j]) \subseteq Range(c)
                         /\ Range(roots[j]) = {c[k] : k \in (n + 1 - j) .. Len(c)}
  <2>1. \A k \in 1 .. Len(c) + 1 : /\ Rest(c, k) \in Seq(1 .. t.selects) /\ IsInjective(Rest(c, k))
                                   /\ Range(Rest(c, k)) \subseteq Range(c)
                                   /\ Range(Rest(c, k)) = {c[i] : i \in k .. Len(c)}
    BY <1>1, RestOfList
  <2> QED BY <1>5, <1>6, <1>7, <2>1
<1>11. ASSUME NEW j \in 1 .. n
       PROVE  /\ Befores(edit)[j].children[Root] = roots[j]
              /\ RootEdit(Ops(edit)[j], roots[j], roots[j - 1])
              /\ Ops(edit)[j].select <= s /\ Moves(Ops(edit)[j])
  <2>1. Befores(edit)[j].children[Root] = roots[j]
    <3>1. PICK k : k = n + 1 - j
      OBVIOUS
    <3>2. roots[j] = Rest(c, k) /\ Befores(edit)[j].children[Root] = Rest(c, k)
      BY ONLY <1>14, <3>1, j \in 1 .. n
    <3> QED BY <3>2
  <2>2. CASE j = 1
    <3>1. Ops(edit)[j] = AppendOp(s)
      <4>1. PICK k : k = n + 1 - j
        OBVIOUS
      <4>2. k = n
        BY <2>2, <4>1
      <4>3. Ops(edit)[j] = edit.steps[k].op
        BY ONLY <1>14, <4>1, j \in 1 .. n
      <4> QED BY <1>2, <4>2, <4>3
    <3>2. /\ AppendOp(s).type = "AppendSelect" /\ AppendOp(s).select = s /\ s <= s
      BY <1>1 DEF AppendOp
    <3>3. s \notin Range(<<>>) /\ <<s>> = Append(<<>>, s)
      BY SmallRanges
    <3>4. RootEdit(AppendOp(s), <<>>, <<s>>) /\ Moves(AppendOp(s)) /\ AppendOp(s).select <= s
      BY <3>2, <3>3 DEF RootEdit, Moves
    <3>5. roots[j] = <<>> /\ roots[j - 1] = <<s>>
      BY <1>6, <1>9, <2>2
    <3> QED BY <2>1, <3>1, <3>4, <3>5
  <2>3. CASE j # 1
    <3>1. PICK k : k = n + 1 - j
      OBVIOUS
    <3>2. k \in 1 .. Len(c) /\ k \in 1 .. Len(c) + 1 /\ k # Len(c) + 1
      BY <1>4, <1>5, <2>3, <3>1
    <3>3. Ops(edit)[j] = RemoveOp(c[k], 1)
      <4>1. Ops(edit)[j] = edit.steps[k].op
        BY <1>14, <3>1
      <4> QED BY <1>2, <3>2, <4>1
    <3>4. roots[j] = Rest(c, k) /\ roots[j - 1] = Rest(c, k + 1)
      <4>1. roots[j] = Rest(c, k)
        BY <1>14, <3>1
      <4>2. PICK i : i = j - 1
        OBVIOUS
      <4>3. i \in 1 .. n /\ k + 1 = n + 1 - i
        BY <1>4, <2>3, <3>1, <4>2
      <4>4. roots[i] = Rest(c, k + 1)
        BY <1>14, <4>3
      <4> QED BY <4>1, <4>2, <4>4
    <3>5. /\ 1 \in 1 .. Len(Rest(c, k)) /\ Rest(c, k)[1] = c[k] /\ RemoveAt(Rest(c, k), 1) = Rest(c, k + 1)
      BY <1>1, <3>2, RestOfList
    <3>6. /\ RemoveOp(c[k], 1).type = "RemoveSelect" /\ RemoveOp(c[k], 1).select = c[k]
          /\ RemoveOp(c[k], 1).origindex = 1
      BY DEF RemoveOp
    <3>7. c[k] \in 1 .. t.selects
      BY <1>1, <3>2, ElementOfSeq
    <3>8. c[k] <= s
      BY <1>1, <3>7
    <3> QED BY <2>1, <3>3, <3>4, <3>5, <3>6, <3>8 DEF RootEdit, Moves
  <2> QED BY <2>2, <2>3
<1>12. ASSUME NEW j \in 0 .. n
       PROVE  roots[j] \in Seq(1 .. s) /\ IsInjective(roots[j]) /\ Range(roots[j]) \subseteq Range(c) \cup {s}
  <2>1. CASE j = 0
    <3>1. <<s>> \in Seq(1 .. s) /\ Len(<<s>>) = 1
      BY <1>1
    <3>2. IsInjective(<<s>>) /\ Range(<<s>>) = {s}
      <4>1. s \in 1 .. s
        BY <1>1
      <4> QED BY <4>1, OneList
    <3> QED BY <1>6, <2>1, <3>1, <3>2
  <2>2. CASE j # 0
    <3>1. j \in 1 .. n /\ 1 .. t.selects \subseteq 1 .. s
      BY <1>1, <2>2
    <3>2. roots[j] \in Seq(1 .. s)
      BY <1>10, <3>1, SeqWithin
    <3> QED BY <1>10, <3>1, <3>2
  <2> QED BY <2>1, <2>2
<1>13. ASSUME NEW j \in 1 .. n
       PROVE  Touched(Ops(edit), j) = Range(roots[j]) \cup {s}
  <2>1. ASSUME NEW i \in 1 .. j, NEW k, k = n + 1 - i
        PROVE  /\ Moves(Ops(edit)[i])
               /\ i = 1 => Ops(edit)[i].select = s
               /\ i # 1 => k \in (n + 1 - j) .. Len(c) /\ Ops(edit)[i].select = c[k]
    <3>1. i \in 1 .. n
      BY <1>13, <2>1
    <3>2. Ops(edit)[i] = edit.steps[k].op /\ Moves(Ops(edit)[i])
      BY <1>11, <1>14, <2>1, <3>1
    <3>3. i = 1 => k = n
      BY <1>4, <2>1
    <3>4. i # 1 => k \in (n + 1 - j) .. Len(c) /\ k \in 1 .. Len(c)
      BY <1>2, <1>4, <1>13, <2>1
    <3>5. i = 1 => Ops(edit)[i] = AppendOp(s)
      BY <1>2, <3>2, <3>3
    <3>6. i # 1 => Ops(edit)[i] = RemoveOp(c[k], 1)
      BY <1>2, <3>2, <3>4
    <3> QED BY <3>2, <3>4, <3>5, <3>6 DEF RemoveOp, AppendOp
  <2>2. 1 \in 1 .. j
    BY <1>13
  <2>3. ASSUME NEW k \in (n + 1 - j) .. Len(c), NEW i, i = n + 1 - k
        PROVE  i \in 1 .. j /\ i # 1 /\ k = n + 1 - i
    <3>1. PICK m \in Nat : m = Len(c) /\ n = m + 1
      BY <1>2, <1>4
    <3>2. k \in (n + 1 - j) .. m /\ j \in 1 .. n
      BY <1>13, <2>3, <3>1
    <3> QED BY ONLY <2>3, <3>1, <3>2, m \in Nat
  <2>4. Range(roots[j]) = {c[k] : k \in (n + 1 - j) .. Len(c)}
    BY <1>10, <1>13
  <2>5. Touched(Ops(edit), j) = {Ops(edit)[i].select : i \in 1 .. j}
    <3>1. \A i \in 1 .. j : Moves(Ops(edit)[i])
      BY <2>1
    <3>2. {i \in 1 .. j : Moves(Ops(edit)[i])} = 1 .. j
      BY <3>1
    <3> QED BY <3>2 DEF Touched
  <2>6. \A x : x \in Touched(Ops(edit), j) => x = s \/ x \in {c[k] : k \in (n + 1 - j) .. Len(c)}
    BY <2>1, <2>5
  <2>7. s \in Touched(Ops(edit), j)
    BY <2>1, <2>2, <2>5
  <2>8. \A k \in (n + 1 - j) .. Len(c) : c[k] \in Touched(Ops(edit), j)
    <3>1. SUFFICES ASSUME NEW k \in (n + 1 - j) .. Len(c)
                   PROVE  c[k] \in Touched(Ops(edit), j)
      OBVIOUS
    <3>2. PICK i : i = n + 1 - k
      OBVIOUS
    <3>3. i \in 1 .. j /\ i # 1 /\ k = n + 1 - i
      BY <2>3, <3>2
    <3>4. Ops(edit)[i].select = c[k]
      BY <2>1, <3>3
    <3> QED BY <2>5, <3>3, <3>4
  <2> QED BY <2>4, <2>6, <2>7, <2>8
<1> QED BY <1>2, <1>3, <1>6, <1>8, <1>10, <1>11, <1>12, <1>13 DEF c, s
\* An edit that wraps the SELECTs of the root keeps the invariant.
LEMMA WrapStep ==
  ASSUME EditInv, CanWrap(tree), NEW edit, NEW s, Perform(edit, s),
         IsWrapped(edit.tree, tree), WrapOps(edit, tree)
  PROVE  EditInv' /\ (PromiseInv => PromiseInv')
<1> DEFINE c == tree.children[Root]
           new == New(tree)
           child == tree.unions + 1
<1>1. PICK u : u = edit.tree
  OBVIOUS
<1>2. SoundTree(tree) /\ IsWrapped(u, tree) /\ SoundTree(u)
  BY <1>1, WrapSound DEF EditInv
<1>3. /\ tree \in Tree /\ Root \in UnionNode /\ child \in UnionNode /\ tree.unions \in Nat /\ tree.selects \in Nat
      /\ child # Root /\ new \in Select /\ new = tree.selects + 1
      /\ c \in Seq(Select) /\ Range(c) \in SUBSET Select /\ IsInjective(c)
      /\ Range(c) \subseteq 1 .. tree.selects /\ new \notin 1 .. tree.selects
      /\ tree.query[new] = None /\ tree.parent[new] = None
      /\ \A r \in Select : tree.query[r] # None =>
           /\ tree.query[r] \in UnionNode /\ tree.query[r] # Root /\ tree.query[r] # child /\ r # new
           /\ new \notin Range(tree.children[tree.query[r]])
  BY <1>2, OldSelects
<1> HIDE DEF new, child, c
<1>4. /\ u \in Tree /\ u.unions = child /\ u.selects = new /\ u.children[Root] = <<new>> /\ u.children[child] = c
      /\ \A v \in UnionNode : v # Root /\ v # child => u.children[v] = tree.children[v]
      /\ u.query[new] = child /\ u.types[new] = TypesOf(tree, Root) /\ u.parent[new] = None
      /\ \A r \in Select : r # new =>
           /\ u.query[r] = tree.query[r] /\ u.types[r] = tree.types[r]
           /\ u.limit[r] = tree.limit[r] /\ u.offset[r] = tree.offset[r]
           /\ u.parent[r] = IF r \in Range(c) THEN child ELSE tree.parent[r]
  BY <1>2, <1>3 DEF IsWrapped, c, new, child
<1>5. PICK n \in Nat : n = Len(c) + 1
  BY <1>3, LenProperties
<1>6. PICK roots : roots = [j \in 0 .. n |-> IF j = 0 THEN <<new>> ELSE Rest(c, n + 1 - j)]
  OBVIOUS
<1>7. /\ edit.steps \in Steps /\ Len(edit.steps) = n /\ Len(Ops(edit)) = n
      /\ roots[0] = <<new>> /\ roots[n] = c
      /\ \A j \in 1 .. n : /\ Befores(edit)[j].children[Root] = roots[j]
                           /\ RootEdit(Ops(edit)[j], roots[j], roots[j - 1])
                           /\ Ops(edit)[j].select <= new
                           /\ Moves(Ops(edit)[j])
      /\ \A j \in 0 .. n : roots[j] \in Seq(1 .. new) /\ IsInjective(roots[j])
                           /\ Range(roots[j]) \subseteq Range(c) \cup {new}
      /\ \A j \in 1 .. n : /\ Touched(Ops(edit), j) = Range(roots[j]) \cup {new}
                           /\ Range(roots[j]) \subseteq Range(c)
  <2>1. /\ SoundTree(tree) /\ CanWrap(tree) /\ WrapOps(edit, tree) /\ n = Len(tree.children[Root]) + 1
        /\ roots[0] = <<New(tree)>> /\ \A j \in 1 .. n : roots[j] = Rest(tree.children[Root], n + 1 - j)
    BY <1>2, <1>5, <1>6 DEF c, new
  <2> QED BY ONLY <2>1, n \in Nat, WrapLists DEF c, new
<1>8. n >= 1 /\ 0 \in 0 .. n /\ n \in 0 .. n /\ n \in 1 .. n /\ {new} \in SUBSET Select /\ Range(<<new>>) = {new}
  <2>1. n >= 1
    BY <1>3, <1>5, LenProperties
  <2> QED BY <1>3, <2>1, SmallRanges
<1>9. \A r \in Select : r # new /\ tree.query[r] # None => u.children[tree.query[r]] = tree.children[tree.query[r]]
  BY <1>3, <1>4
<1>10. \A i \in Levels : \A X : X = Range(RootAt(i)) =>
         /\ X \in SUBSET Select /\ new \notin X /\ Level(tree, X, Touched(op_list, i), RootsTo(i))
         /\ Range(c) \subseteq RootsTo(i)
  <2>1. SUFFICES ASSUME NEW i \in Levels
                 PROVE  /\ Range(RootAt(i)) \in SUBSET Select /\ new \notin Range(RootAt(i))
                        /\ Level(tree, Range(RootAt(i)), Touched(op_list, i), RootsTo(i))
                        /\ Range(c) \subseteq RootsTo(i)
    OBVIOUS
  <2>2. RootAt(i) \in Seq(1 .. tree.selects)
    BY RootLists
  <2>3. new \notin Range(RootAt(i))
    BY <1>3, <2>2, ListRange
  <2> QED BY <2>3, RootLists DEF c
<1>11. \A X \in SUBSET Select : new \notin Nested(tree, X)
  BY <1>3 DEF Nested, Under
<1>12. ASSUME NEW X \in SUBSET Select, new \notin X, NEW Y \in SUBSET X, NEW T, NEW O, Level(tree, X, T, O),
              Range(c) \subseteq O,
              NEW T2, NEW O2, T2 \subseteq T \cup Range(c) \cup {new}, O2 \subseteq O \cup {new},
              Y \cap (T \cup Range(c)) \subseteq T2
       PROVE  Level(u, Y, T2, O2)
  <2>1. Under(tree, X) \subseteq Select /\ Nested(tree, X) \subseteq Select /\ new \notin Under(tree, X)
    <3>1. Under(tree, X) = X \cup Nested(tree, X)
      BY <1>3, UnderOrNested
    <3>2. Under(tree, X) \subseteq Select
      BY UnderIsLeast
    <3> QED BY <1>11, <1>12, <3>1, <3>2
  <2>2. \A r \in Nested(tree, X) : r \notin T /\ r \notin O
    BY ONLY <1>3, <1>12, LevelApart
  <2>3. \A r \in Nested(tree, X) : u.parent[r] = tree.parent[r] /\ r \notin T2 /\ r \notin O2
    BY <1>4, <1>11, <1>12, <2>1, <2>2
  <2>4. \A r \in Y : u.parent[r] \in {Root, None} \/ r \in T2
    <3>1. SUFFICES ASSUME NEW r \in Y, r \notin T2
                   PROVE  u.parent[r] \in {Root, None}
      OBVIOUS
    <3>2. r \in Select /\ r # new /\ r \notin Range(c) /\ r \notin T /\ r \in X
      BY <1>12, <3>1
    <3>3. tree.parent[r] \in {Root, None}
      BY <1>12, <3>2 DEF Level, Parents
    <3> QED BY <1>4, <3>2, <3>3
  <2>5. \A r \in Under(tree, X) : /\ u.query[r] = tree.query[r] /\ u.types[r] = tree.types[r]
                                  /\ tree.query[r] # None => u.children[tree.query[r]] = tree.children[tree.query[r]]
    BY <1>4, <1>9, <2>1
  <2> QED BY ONLY <1>3, <1>4, <1>12, <2>3, <2>4, <2>5, LevelStays
<1>13. 0 \in Levels /\ RootAt(0) = c /\ Level(tree, Range(c), {}, Range(c)) /\ new \notin Range(c)
  <2>1. 0 \in Levels /\ RootAt(0) = c /\ Level(tree, Range(c), {}, Range(c))
    BY RootLists DEF c
  <2> QED BY <1>3, <2>1
<1>14. Level(u, {new}, {}, {new})
  <2>1. Under(tree, Range(c)) \subseteq Select /\ new \notin Under(tree, Range(c))
    BY <1>3, <1>11, <1>13, UnderIsLeast, UnderOrNested
  <2>2. Range(c) \subseteq Under(tree, Range(c)) /\ Closed(tree, Under(tree, Range(c)))
    BY <1>3, UnderIsLeast, UnderIsClosed
  <2>3. \A r \in Under(tree, Range(c)) :
          /\ u.query[r] = tree.query[r] /\ u.types[r] = tree.types[r]
          /\ tree.query[r] # None => u.children[tree.query[r]] = tree.children[tree.query[r]]
    BY <1>4, <1>9, <2>1
  <2>4. child # None
    BY <1>3, NodesAssumption
  <2>5. PICK U : U = Under(tree, Range(c)) \cup {new}
    OBVIOUS
  <2>6. Closed(u, U)
    <3>1. SUFFICES ASSUME NEW r \in U, u.query[r] # None
                   PROVE  Range(u.children[u.query[r]]) \subseteq U
      BY DEF Closed
    <3>2. CASE r = new
      BY <1>4, <2>2, <2>5, <3>2
    <3>3. CASE r # new
      <4>1. r \in Under(tree, Range(c)) /\ tree.query[r] # None /\ u.query[r] = tree.query[r]
            /\ u.children[tree.query[r]] = tree.children[tree.query[r]]
        BY <2>3, <2>5, <3>1, <3>3
      <4> QED BY <2>2, <2>5, <4>1 DEF Closed
    <3> QED BY <3>2, <3>3
  <2>7. Under(u, {new}) \subseteq U
    BY <1>3, <1>8, <2>1, <2>5, <2>6, UnderIsLeast
  <2>8. ASSUME NEW q \in Under(u, {new}), u.query[q] # None, NEW r \in Range(u.children[u.query[q]])
        PROVE  u.parent[r] = u.query[q] /\ r # new
    <3>1. CASE q = new
      <4>1. u.query[q] = child /\ r \in Range(c)
        BY <1>4, <2>8, <3>1
      <4> QED BY <1>3, <1>4, <1>13, <4>1
    <3>2. CASE q # new
      <4>1. /\ q \in Under(tree, Range(c)) /\ tree.query[q] # None /\ u.query[q] = tree.query[q]
            /\ r \in Range(tree.children[tree.query[q]])
        BY <2>3, <2>5, <2>7, <2>8, <3>2
      <4>2. tree.parent[r] = tree.query[q]
        BY <1>13, <4>1 DEF Level, Parents
      <4>3. r \in Nested(tree, Range(c))
        BY <1>3, <4>1, InSubquery
      <4>4. r \in Select /\ r # new /\ r \notin Range(c)
        BY <1>3, <1>11, <1>13, <4>3 DEF Nested, Level
      <4> QED BY <1>4, <4>1, <4>2, <4>4
    <3> QED BY <3>1, <3>2
  <2>9. Parents(u, {new}, {})
    BY <1>4, <2>8 DEF Parents
  <2>10. Nested(u, {new}) \cap {new} = {}
    BY <2>8 DEF Nested
  <2>11. Types(u, {new})
    <3>1. SUFFICES ASSUME NEW q \in Under(u, {new}), u.query[q] # None
                   PROVE  u.types[q] \subseteq TypesOf(u, u.query[q])
      BY DEF Types
    <3>2. CASE q = new
      <4>1. u.types[q] = TypesOf(tree, Root) /\ u.query[q] = child /\ u.children[child] = c
        BY <1>4, <3>2
      <4>2. \A r \in Range(c) : u.types[r] = tree.types[r]
        BY <2>2, <2>3
      <4>3. {u.types[r] : r \in Range(c)} = {tree.types[r] : r \in Range(c)}
        BY <4>2
      <4>4. TypesOf(u, child) = TypesOf(tree, Root)
        BY <4>1, <4>3 DEF TypesOf, c
      <4> QED BY <4>1, <4>4
    <3>3. CASE q # new
      <4>1. /\ q \in Under(tree, Range(c)) /\ tree.query[q] # None /\ u.query[q] = tree.query[q]
            /\ u.types[q] = tree.types[q] /\ u.children[tree.query[q]] = tree.children[tree.query[q]]
        BY <2>3, <2>5, <2>7, <3>1, <3>3
      <4>2. tree.types[q] \subseteq TypesOf(tree, tree.query[q])
        BY <1>13, <4>1 DEF Level, Types
      <4>3. \A r \in Range(tree.children[tree.query[q]]) : u.types[r] = tree.types[r]
        BY <2>2, <2>3, <4>1 DEF Closed
      <4>4. {u.types[r] : r \in Range(tree.children[tree.query[q]])}
              = {tree.types[r] : r \in Range(tree.children[tree.query[q]])}
        BY <4>3
      <4>5. TypesOf(u, tree.query[q]) = TypesOf(tree, tree.query[q])
        BY <4>1, <4>4 DEF TypesOf
      <4> QED BY <4>1, <4>2, <4>5
    <3> QED BY <3>2, <3>3
  <2> QED BY <2>9, <2>10, <2>11 DEF Level
<1>15. Passed(roots, 0) = {new}
  <2>1. {Range(roots[k]) : k \in 0 .. 0} = {{new}}
    <3>1. 0 .. 0 = {0}
      OBVIOUS
    <3>2. Range(roots[0]) = {new}
      BY <1>7, <1>8
    <3> QED BY ONLY <3>1, <3>2
  <2> QED BY <2>1 DEF Passed
<1>16. ASSUME NEW j \in 0 .. n
       PROVE  Passed(roots, j) \subseteq Range(c) \cup {new}
  <2>1. \A k \in 0 .. j : Range(roots[k]) \subseteq Range(c) \cup {new}
    BY <1>7, <1>16
  <2> QED BY <2>1 DEF Passed
<1>17. Touched(Ops(edit), n) = Range(c) \cup {new}
  BY <1>7, <1>8
<1>18. ASSUME NEW j \in 0 .. n - 1
       PROVE  Level(u, Range(roots[j]), Touched(Ops(edit), j), Passed(roots, j))
  <2>1. CASE j = 0
    <3>1. Touched(Ops(edit), 0) = {}
      BY DEF Touched
    <3> QED BY <1>7, <1>8, <1>14, <1>15, <2>1, <3>1
  <2>2. CASE j # 0
    <3>1. j \in 1 .. n /\ j \in 0 .. n
      BY <1>18, <2>2
    <3>2. PICK Y, T2, O2 : Y = Range(roots[j]) /\ T2 = Touched(Ops(edit), j) /\ O2 = Passed(roots, j)
      OBVIOUS
    <3>3. /\ Y \in SUBSET Range(c) /\ T2 = Y \cup {new} /\ O2 \subseteq Range(c) \cup {new}
      BY <1>7, <1>16, <3>1, <3>2
    <3>4. /\ T2 \subseteq {} \cup Range(c) \cup {new} /\ Y \cap ({} \cup Range(c)) \subseteq T2
          /\ Range(c) \subseteq Range(c)
      BY <3>3
    <3>5. Level(u, Y, T2, O2)
      BY ONLY <1>3, <1>12, <1>13, <3>3, <3>4
    <3> QED BY <3>2, <3>5
  <2> QED BY <2>1, <2>2
<1>19. ASSUME NEW i \in Levels
       PROVE  Level(u, Range(RootAt(i)), Touched(Ops(edit), n) \cup Touched(op_list, i), Passed(roots, n) \cup RootsTo(i))
  <2>1. PICK X, T, O : X = Range(RootAt(i)) /\ T = Touched(op_list, i) /\ O = RootsTo(i)
    OBVIOUS
  <2>2. PICK T2, O2 : T2 = Touched(Ops(edit), n) \cup T /\ O2 = Passed(roots, n) \cup O
    OBVIOUS
  <2>3. X \in SUBSET Select /\ new \notin X /\ Level(tree, X, T, O) /\ Range(c) \subseteq O /\ X \in SUBSET X
    BY <1>10, <2>1
  <2>4. Passed(roots, n) \subseteq Range(c) \cup {new}
    BY <1>8, <1>16
  <2>5. /\ T2 \subseteq T \cup Range(c) \cup {new} /\ O2 \subseteq O \cup {new}
        /\ X \cap (T \cup Range(c)) \subseteq T2
    BY <1>17, <2>2, <2>3, <2>4
  <2>6. Level(u, X, T2, O2)
    BY ONLY <1>12, <2>3, <2>5
  <2> QED BY <2>1, <2>2, <2>6
<1>20. /\ EditInv /\ Perform(edit, s) /\ edit.tree = u /\ SoundTree(edit.tree) /\ edit.tree.selects >= tree.selects
       /\ edit.tree.selects \in Nat
       /\ edit.steps \in Steps /\ n = Len(edit.steps)
       /\ roots[0] = edit.tree.children[Root] /\ roots[n] = tree.children[Root]
       /\ \A j \in 1 .. n : Befores(edit)[j].children[Root] = roots[j]
  <2>1. new \in Nat
    BY <1>3
  <2> QED BY <1>1, <1>2, <1>3, <1>4, <1>7, <2>1 DEF c
<1>21. EditInv'
  <2>1. /\ \A j \in 1 .. n : RootEdit(Ops(edit)[j], roots[j], roots[j - 1]) /\ Ops(edit)[j].select <= edit.tree.selects
        /\ \A j \in 0 .. n : roots[j] \in Seq(1 .. edit.tree.selects) /\ IsInjective(roots[j])
    BY <1>1, <1>4, <1>7
  <2>2. /\ \A j \in 0 .. n - 1 :
             Level(edit.tree, Range(roots[j]), Touched(Ops(edit), j), Passed(roots, j))
        /\ \A i \in Levels :
             Level(edit.tree, Range(RootAt(i)), Touched(Ops(edit), n) \cup Touched(op_list, i),
                   Passed(roots, n) \cup RootsTo(i))
    BY <1>1, <1>18, <1>19
  <2> QED BY ONLY <1>20, <2>1, <2>2, n \in Nat, EditKeeps
<1>22. ASSUME PromiseInv
       PROVE  PromiseInv'
  <2>1. \A r \in Select : r <= tree.selects => Leaves(edit, r) \/ (edit.silent /\ r = s)
    <3>1. SUFFICES ASSUME NEW r \in Select, r <= tree.selects
                   PROVE  Leaves(edit, r)
      OBVIOUS
    <3>2. r # new
      BY <1>3, <3>1
    <3>3. u.limit[r] = tree.limit[r] /\ u.offset[r] = tree.offset[r]
      BY <1>4, <3>2
    <3>4. \A k \in 1 .. Len(Ops(edit)) : Ops(edit)[k].type # "SetLimit" /\ Ops(edit)[k].type # "SetOffset"
      BY <1>7 DEF Moves
    <3> QED BY <1>1, <3>3, <3>4 DEF Leaves, LeavesBound
  <2>2. \A r \in Select : r <= tree.selects => edit.tree.query[r] = tree.query[r]
    <3>1. \A r \in Select : r <= tree.selects => r # new
      BY <1>3
    <3> QED BY <1>1, <1>4, <3>1
  <2>3. \A r \in Select : tree.query[r] # None => edit.tree.children[tree.query[r]] = tree.children[tree.query[r]]
    BY <1>1, <1>3, <1>9
  <2> QED BY ONLY <1>20, <1>22, <2>1, <2>2, <2>3, n \in Nat, PromiseKept
<1> QED BY <1>21, <1>22

\* set_limit and set_offset of the root keep the invariant.
LEMMA SetBoundStep ==
  ASSUME EditInv, NEW field \in Field, NEW value \in Values(field), SetBound(field, value)
  PROVE  EditInv' /\ (PromiseInv => PromiseInv')
<1>1. PICK edit : edit = SetOnRoot(tree, field, value)
  OBVIOUS
<1>2. PICK s : s = edit.tree.children[Root][1]
  OBVIOUS
<1>3. Perform(edit, s) /\ (Len(tree.children[Root]) = 1 \/ CanWrap(tree))
  BY <1>1, <1>2 DEF SetBound
<1>4. Acts(edit)
  BY <1>3 DEF Perform, Acts
<1>5. CASE Len(tree.children[Root]) = 1
  <2> DEFINE c == tree.children[Root]
  <2>1. c \in Seq(Select) /\ c \in Seq(1 .. tree.selects) /\ tree.selects \in Nat
    BY RootLists
  <2>2. c[1] \in Select /\ c[1] \in 1 .. tree.selects
    BY <1>5, <2>1, ElementOfSeq
  <2>3. ~Refused(field, value)
    BY <1>1, <1>4, <1>5 DEF SetOnRoot, Nothing, Acts
  <2>4. PICK e : e = SetOn(tree, c[1], field, value)
    OBVIOUS
  <2>5. edit = Then(Nothing(tree), e)
    BY <1>1, <1>5, <2>3, <2>4 DEF SetOnRoot, Nothing
  <2>6. IsEdit(edit, e)
    <3>1. (e.steps = <<>> \/ \E x : e.steps = <<x>>) /\ e.silent \in BOOLEAN
      BY <2>4 DEF SetOn, Nothing
    <3>2. <<>> \o e.steps = e.steps
      <4>1. <<>> \o <<>> = <<>> /\ \A x : <<>> \o <<x>> = <<x>>
        OBVIOUS
      <4> QED BY <3>1, <4>1
    <3> QED BY <2>5, <3>1, <3>2 DEF Then, Nothing, IsEdit
  <2>7. edit.tree.children = tree.children
    <3>1. tree \in Tree
      BY RootLists
    <3> QED BY <2>4, <2>6, <3>1 DEF IsEdit, SetOn, Nothing, Tree
  <2>8. s = c[1]
    BY <1>2, <2>7
  <2>9. tree.selects >= c[1]
    BY <2>1, <2>2
  <2> HIDE DEF c
  <2> QED BY <1>3, <2>2, <2>3, <2>4, <2>6, <2>8, <2>9, SetStep
<1>6. CASE Len(tree.children[Root]) # 1
  <2>1. CanWrap(tree) /\ SoundTree(tree) /\ tree \in Tree /\ New(tree) \in Select
    BY <1>3, <1>6 DEF EditInv, SoundTree, CanWrap
  <2>2. PICK w : w = Wrapped(tree)
    OBVIOUS
  <2>3. IsWrapped(w.tree, tree) /\ WrapOps(w, tree) /\ w.silent = FALSE
    BY <2>1, <2>2, WrapFacts
  <2>4. CASE Refused(field, value)
    <3>1. edit = w
      BY <1>1, <1>6, <2>2, <2>4 DEF SetOnRoot
    <3> QED BY <1>3, <2>1, <2>3, <3>1, WrapStep
  <2>5. CASE ~Refused(field, value)
    <3>1. PICK t : t = w.tree
      OBVIOUS
    <3>2. /\ t \in Tree /\ t.children[Root] = <<New(tree)>> /\ t.parent[New(tree)] = None /\ SoundTree(t)
      BY <2>1, <2>3, <3>1, OldSelects, WrapSound DEF IsWrapped
    <3>3. PICK e : e = SetOn(t, New(tree), field, value)
      OBVIOUS
    <3>4. edit = Then(w, e)
      BY <1>1, <1>6, <2>2, <2>5, <3>1, <3>2, <3>3 DEF SetOnRoot
    <3>5. e.steps = <<>>
      <4>1. None # Root
        BY NodesAssumption DEF Root
      <4> QED BY <3>2, <3>3, <4>1 DEF SetOn, Registers, Nothing
    <3>6. edit.tree = e.tree /\ edit.steps = w.steps
      <4>1. w.steps \in Seq([op : Op, before : Tree])
        BY <2>3 DEF WrapOps, Steps
      <4>2. w.steps \o <<>> = w.steps
        BY <4>1
      <4> QED BY <3>4, <3>5, <4>2 DEF Then
    <3>7. WrapOps(edit, tree)
      BY <2>3, <3>6 DEF WrapOps
    <3>8. IsWrapped(edit.tree, tree)
      <4>1. CASE Acts(e)
        <5>1. IsEdit(e, SetOn(t, New(tree), field, value))
          BY <3>3 DEF IsEdit
        <5>2. SetsOne(e.tree, t, New(tree), field, value)
          BY ONLY <2>1, <3>2, <4>1, <5>1, SetFacts, field \in Field, value \in Values(field)
        <5>3. PICK u, new : u = e.tree /\ new = New(tree)
          OBVIOUS
        <5>4. /\ u \in Tree /\ u.children = t.children /\ u.parent = t.parent /\ u.query = t.query
              /\ u.types = t.types /\ u.selects = t.selects /\ u.unions = t.unions
              /\ \A r \in Select :
                   /\ u.limit[r] = IF r = new /\ field = "limit" THEN value ELSE t.limit[r]
                   /\ u.offset[r] = IF r = new /\ field # "limit" THEN value ELSE t.offset[r]
          BY <5>2, <5>3 DEF SetsOne
        <5>5. \A r \in Select : r # new => u.limit[r] = t.limit[r] /\ u.offset[r] = t.offset[r]
          BY <5>4
        <5>6. Good(u.limit[new]) /\ u.offset[new] >= 0
          <6>1. /\ u.limit[new] = IF field = "limit" THEN value ELSE t.limit[new]
                /\ u.offset[new] = IF field # "limit" THEN value ELSE t.offset[new]
            BY <2>1, <5>3, <5>4
          <6>2. Good(t.limit[new]) /\ t.offset[new] >= 0
            BY <2>1, <3>2, <5>3 DEF SoundTree
          <6> QED BY <2>5, <6>1, <6>2, GoodValues DEF Field
        <5>7. IsWrapped(t, tree)
          BY <2>3, <3>1
        <5>8. IsWrapped(u, tree)
          BY ONLY <5>3, <5>4, <5>5, <5>6, <5>7 DEF IsWrapped
        <5> QED BY <3>6, <5>3, <5>8
      <4>2. CASE ~Acts(e)
        <5>1. e.tree = t
          BY <3>3, <4>2 DEF Acts, SetOn, Nothing
        <5> QED BY <2>3, <3>1, <3>6, <5>1
      <4> QED BY <4>1, <4>2
    <3> QED BY <1>3, <2>1, <3>7, <3>8, WrapStep
  <2> QED BY <2>4, <2>5
<1> QED BY <1>5, <1>6
-----------------------------------------------------------------------------
\* set_possible_types.

\* Filtered is defined by recursion: it keeps, in their order, the SELECTs that are in keep.
LEMMA FilteredIs ==
  ASSUME NEW S, NEW c \in Seq(S), NEW keep
  PROVE  /\ Filtered(c, keep) \in Seq(S)
         /\ Range(Filtered(c, keep)) = Range(c) \cap keep
         /\ IsInjective(c) => IsInjective(Filtered(c, keep))
         /\ Range(c) \subseteq keep => Filtered(c, keep) = c
<1> DEFINE n == Len(c)
           D == 0 .. n
           V == Seq(S)
           Body(f, i) == IF i = 0 THEN <<>> ELSE IF c[i] \in keep THEN Append(f[i - 1], c[i]) ELSE f[i - 1]
           Uses == [i \in D |-> IF i = 0 THEN {} ELSE {i - 1}]
           H == [i \in D |-> [f \in [D -> V] |-> Body(f, i)]]
           kept == CHOOSE kept : kept = [i \in 0 .. Len(c) |-> Body(kept, i)]
<1>1. n \in Nat /\ \A i \in 1 .. n : c[i] \in S
  BY LenProperties, ElementOfSeq
<1>2. \A i \in D : i \in Nat /\ (i # 0 => i \in 1 .. n /\ i - 1 \in D /\ i - 1 < i)
  BY <1>1
<1>3. V # {} /\ <<>> \in V
  OBVIOUS
<1> HIDE DEF n, V
<1>4. Uses \in [D -> SUBSET D]
  BY <1>2
<1>5. ASSUME NEW f \in [D -> V], NEW i \in D
      PROVE  Body(f, i) \in V
  <2>1. i # 0 => f[i - 1] \in V /\ c[i] \in S
    BY <1>1, <1>2
  <2>2. i # 0 => Append(f[i - 1], c[i]) \in V
    BY <2>1 DEF V
  <2> QED BY <1>3, <2>1, <2>2
<1>6. H \in [D -> [[D -> V] -> V]]
  <2> HIDE DEF Body, D
  <2> QED BY <1>5
<1>7. Ends(D, Uses)
  <2>1. SUFFICES ASSUME NEW W \in SUBSET D, W # {}
                 PROVE  \E i \in W : Uses[i] \cap W = {}
    BY DEF Ends
  <2>2. W \in SUBSET Nat
    BY <1>2, <2>1
  <2>3. PICK i \in W : \A j \in W : i <= j
    BY <2>1, <2>2, LeastNat
  <2>4. i \in D /\ i - 1 \notin W
    BY <1>2, <2>1, <2>3
  <2> QED BY <2>3, <2>4
<1>8. Depends(D, V, Uses, H)
  <2>1. SUFFICES ASSUME NEW i \in D, NEW f \in [D -> V], NEW g \in [D -> V], \A j \in Uses[i] : f[j] = g[j]
                 PROVE  Body(f, i) = Body(g, i)
    <3> HIDE DEF Body, D
    <3> QED BY DEF Depends
  <2>2. i # 0 => f[i - 1] = g[i - 1]
    BY <2>1
  <2> QED BY <2>2
<1>9. PICK f \in [D -> V] : Solves(D, H, f)
  <2> HIDE DEF H, Uses, D
  <2> QED BY ONLY <1>3, <1>4, <1>6, <1>7, <1>8, Recursion
<1>10. \A i \in D : f[i] = Body(f, i)
  <2> HIDE DEF Body, D
  <2> QED BY <1>9 DEF H, Solves
<1>11. f = [i \in D |-> Body(f, i)]
  <2> HIDE DEF Body, D
  <2> QED BY <1>9, <1>10
<1>12. kept = [i \in D |-> Body(kept, i)]
  BY <1>11 DEF n
<1>13. Filtered(c, keep) = kept[n]
  BY DEF Filtered, n
<1>14. \A i \in D : kept[i] = Body(kept, i)
  <2> HIDE DEF kept
  <2> QED BY <1>12
<1> HIDE DEF kept
<1> DEFINE Good_(i) == /\ kept[i] \in Seq(S) /\ Range(kept[i]) = {c[j] : j \in 1 .. i} \cap keep
                       /\ IsInjective(c) => IsInjective(kept[i])
                       /\ Range(c) \subseteq keep => Len(kept[i]) = i /\ \A j \in 1 .. i : kept[i][j] = c[j]
<1>15. Good_(0)
  <2>1. kept[0] = <<>> /\ {c[j] : j \in 1 .. 0} = {}
    BY <1>1, <1>14
  <2>2. IsInjective(<<>>) /\ <<>> \in Seq(S) /\ Len(<<>>) = 0
    BY DEF IsInjective
  <2> QED BY <2>1, <2>2, SmallRanges
<1>16. ASSUME NEW i \in 1 .. n, Good_(i - 1)
       PROVE  Good_(i)
  <2>1. PICK k : k = i - 1
    OBVIOUS
  <2>2. k \in Nat /\ i \in D /\ i = k + 1 /\ i # 0
    BY <1>1, <1>16, <2>1
  <2>3. kept[i] = IF c[i] \in keep THEN Append(kept[k], c[i]) ELSE kept[k]
    BY <1>14, <2>1, <2>2
  <2>4. Good_(k)
    BY <1>16, <2>1
  <2>5. c[i] \in S /\ Range(c) = {c[j] : j \in 1 .. n}
    BY <1>1, ListRange DEF n
  <2>6. {c[j] : j \in 1 .. i} = {c[j] : j \in 1 .. k} \cup {c[i]}
    <3>1. \A j : j \in 1 .. i <=> j \in 1 .. k \/ j = i
      BY <2>2
    <3> QED BY <3>1
  <2>7. CASE c[i] \notin keep
    <3>1. kept[i] = kept[k]
      BY <2>3, <2>7
    <3>2. Range(c) \subseteq keep => FALSE
      BY <2>5, <2>7
    <3> QED BY <2>4, <2>6, <2>7, <3>1, <3>2
  <2>8. CASE c[i] \in keep
    <3>1. PICK a : a = kept[k]
      OBVIOUS
    <3>2. kept[i] = Append(a, c[i]) /\ a \in Seq(S)
      BY <2>3, <2>4, <2>8, <3>1
    <3>3. kept[i] \in Seq(S) /\ Range(kept[i]) = Range(a) \cup {c[i]}
          /\ (IsInjective(a) /\ c[i] \notin Range(a) => IsInjective(kept[i]))
      BY <2>5, <3>2, AppendedList
    <3>4. Range(kept[i]) = {c[j] : j \in 1 .. i} \cap keep
      <4>1. Range(a) = {c[j] : j \in 1 .. k} \cap keep
        BY <2>4, <3>1
      <4> QED BY <2>6, <2>8, <3>3, <4>1
    <3>5. IsInjective(c) => IsInjective(kept[i])
      <4>1. SUFFICES ASSUME IsInjective(c)
                     PROVE  IsInjective(kept[i])
        OBVIOUS
      <4>2. \A j, l \in 1 .. n : c[j] = c[l] => j = l
        BY <4>1, ListRange DEF n
      <4>3. \A j \in 1 .. k : j \in 1 .. n /\ j # i
        BY <1>1, <1>16, <2>2
      <4>4. c[i] \notin Range(a)
        BY <1>16, <2>4, <3>1, <4>2, <4>3
      <4> QED BY <2>4, <3>1, <3>3, <4>1, <4>4
    <3>6. Range(c) \subseteq keep => Len(kept[i]) = i /\ \A j \in 1 .. i : kept[i][j] = c[j]
      <4>1. SUFFICES ASSUME Range(c) \subseteq keep
                     PROVE  Len(kept[i]) = i /\ \A j \in 1 .. i : kept[i][j] = c[j]
        OBVIOUS
      <4>2. Len(a) = k /\ \A j \in 1 .. k : a[j] = c[j]
        BY <2>4, <3>1, <4>1
      <4>3. /\ Len(Append(a, c[i])) = k + 1 /\ Append(a, c[i])[k + 1] = c[i]
            /\ \A j \in 1 .. k : Append(a, c[i])[j] = a[j]
        BY ONLY <2>5, <3>2, <4>2
      <4>4. \A j : j \in 1 .. i <=> j \in 1 .. k \/ j = i
        BY <2>2
      <4> QED BY <2>2, <3>2, <4>2, <4>3, <4>4
    <3> QED BY <3>3, <3>4, <3>5, <3>6
  <2> QED BY <2>7, <2>8
<1> HIDE DEF Good_
<1>17. \A i \in D : Good_(i)
  <2> DEFINE Bad == {i \in D : ~Good_(i)}
  <2>1. SUFFICES ASSUME Bad # {}
                 PROVE  FALSE
    OBVIOUS
  <2>2. Bad \in SUBSET Nat
    BY <1>2
  <2>3. PICK i \in Bad : \A j \in Bad : i <= j
    BY <2>1, <2>2, LeastNat
  <2>4. i \in D /\ i # 0
    BY <1>15, <2>3
  <2>5. i \in 1 .. n /\ i - 1 \in D /\ i - 1 \notin Bad
    BY <1>2, <2>3, <2>4
  <2> QED BY <1>16, <2>3, <2>5
<1>18. Good_(n) /\ Range(c) = {c[j] : j \in 1 .. n}
  BY <1>1, <1>17, ListRange DEF n
<1>19. Range(c) \subseteq keep => kept[n] = c
  <2>1. SUFFICES ASSUME Range(c) \subseteq keep
                 PROVE  kept[n] = c
    OBVIOUS
  <2>2. kept[n] \in Seq(S) /\ Len(kept[n]) = n /\ \A j \in 1 .. n : kept[n][j] = c[j]
    BY <1>18, <2>1 DEF Good_
  <2> QED BY <2>2, SeqEqual DEF n
<1> QED BY <1>13, <1>18, <1>19 DEF Good_

\* The SELECTs that a narrowing keeps in the subquery of s.
Kept(t, s, types) ==
  IF t.query[s] = None THEN {} ELSE {r \in Range(t.children[t.query[s]]) : t.types[r] \cap types # {}}

\* A SELECT of a tree is narrowed.
IsNarrowed(u, t, s, types) ==
  /\ u \in Tree
  /\ u.parent = t.parent /\ u.query = t.query /\ u.limit = t.limit /\ u.offset = t.offset
  /\ u.selects = t.selects /\ u.unions = t.unions
  /\ \A v \in UnionNode : v # t.query[s] => u.children[v] = t.children[v]
  /\ t.query[s] # None =>
       /\ Range(u.children[t.query[s]]) = Kept(t, s, types) /\ IsInjective(u.children[t.query[s]])
       /\ Range(t.children[t.query[s]]) \subseteq Kept(t, s, types) =>
            u.children[t.query[s]] = t.children[t.query[s]]
  /\ u.types[s] = types
  /\ \A r \in Select : r # s =>
       u.types[r] = IF r \in Kept(t, s, types) THEN t.types[r] \cap types ELSE t.types[r]

\* A tree with other types and another list in a subquery.
Retyped(t, q, c, given) == [t EXCEPT !.types = given, !.children[q] = c]
OneTyped(t, s, types) == [t EXCEPT !.types[s] = types]

\* The types and the SELECTs of one union are changed, and nothing else.
LEMMA OtherTypes ==
  ASSUME NEW t \in Tree, NEW q \in UnionNode, NEW c \in Seq(Select), NEW given \in [Select -> SUBSET Etype],
         NEW u, u = Retyped(t, q, c, given)
  PROVE  /\ u \in Tree /\ u.children[q] = c /\ u.types = given
         /\ \A v \in UnionNode : v # q => u.children[v] = t.children[v]
         /\ u.parent = t.parent /\ u.query = t.query /\ u.limit = t.limit /\ u.offset = t.offset
         /\ u.unions = t.unions /\ u.selects = t.selects
<1>1. t.children \in [UnionNode -> Seq(Select)]
  BY DEF Tree
<1> QED BY <1>1 DEF Tree, Retyped

\* The types of one SELECT are changed, and nothing else.
LEMMA OneType ==
  ASSUME NEW t \in Tree, NEW s \in Select, NEW types \in SUBSET Etype,
         NEW u, u = OneTyped(t, s, types)
  PROVE  /\ u \in Tree /\ u.children = t.children /\ u.types[s] = types
         /\ \A r \in Select : r # s => u.types[r] = t.types[r]
         /\ u.parent = t.parent /\ u.query = t.query /\ u.limit = t.limit /\ u.offset = t.offset
         /\ u.unions = t.unions /\ u.selects = t.selects
<1>1. t.types \in [Select -> SUBSET Etype]
  BY DEF Tree
<1> QED BY <1>1 DEF Tree, OneTyped

\* What set_possible_types does to the subquery of a SELECT.
LEMMA NarrowFacts ==
  ASSUME NEW t \in Tree, \A v \in UnionNode : IsInjective(t.children[v]),
         NEW s \in Select, NEW types \in SUBSET Etype, NEW u, u = Narrowed(t, s, types)
  PROVE  IsNarrowed(u, t, s, types)
<1>1. CASE t.query[s] = None
  <2>1. u = OneTyped(t, s, types)
    BY <1>1 DEF Narrowed, OneTyped
  <2>2. /\ u \in Tree /\ u.children = t.children /\ u.types[s] = types
        /\ \A r \in Select : r # s => u.types[r] = t.types[r]
        /\ u.parent = t.parent /\ u.query = t.query /\ u.limit = t.limit /\ u.offset = t.offset
        /\ u.unions = t.unions /\ u.selects = t.selects
    BY <2>1, OneType
  <2>3. Kept(t, s, types) = {}
    BY <1>1 DEF Kept
  <2> QED BY ONLY <1>1, <2>2, <2>3 DEF IsNarrowed
<1>2. CASE t.query[s] # None
  <2>1. PICK q : q = t.query[s]
    OBVIOUS
  <2>2. PICK keep : keep = Kept(t, s, types)
    OBVIOUS
  <2>3. keep = {r \in Range(t.children[q]) : t.types[r] \cap types # {}}
    BY <1>2, <2>1, <2>2 DEF Kept
  <2>4. PICK given : given = [r \in Select |-> IF r = s THEN types ELSE IF r \in keep THEN t.types[r] \cap types ELSE t.types[r]]
    OBVIOUS
  <2>5. PICK c : c = Filtered(t.children[q], keep)
    OBVIOUS
  <2>6. u = Retyped(t, q, c, given)
    <3>1. q \in UnionNode
      BY <1>2, <2>1 DEF Tree
    <3> QED BY <1>2, <2>1, <2>3, <2>4, <2>5, <3>1 DEF Narrowed, Tree, Retyped
  <2>7. q \in UnionNode /\ t.children[q] \in Seq(Select)
    BY <1>2, <2>1 DEF Tree
  <2>8. /\ c \in Seq(Select) /\ Range(c) = Range(t.children[q]) \cap keep
        /\ IsInjective(t.children[q]) => IsInjective(c)
        /\ Range(t.children[q]) \subseteq keep => c = t.children[q]
    BY ONLY <2>5, <2>7, FilteredIs
  <2>9. given \in [Select -> SUBSET Etype]
    BY <2>4 DEF Tree
  <2>10. /\ u \in Tree /\ u.children[q] = c /\ u.types = given
         /\ \A v \in UnionNode : v # q => u.children[v] = t.children[v]
         /\ u.parent = t.parent /\ u.query = t.query /\ u.limit = t.limit /\ u.offset = t.offset
         /\ u.unions = t.unions /\ u.selects = t.selects
    BY <2>6, <2>7, <2>8, <2>9, OtherTypes
  <2>11. Range(c) = keep /\ IsInjective(c)
    BY <2>3, <2>7, <2>8
  <2>12. given[s] = types /\ \A r \in Select : r # s => given[r] = IF r \in keep THEN t.types[r] \cap types ELSE t.types[r]
    BY <2>4
  <2> QED BY ONLY <2>1, <2>2, <2>8, <2>10, <2>11, <2>12 DEF IsNarrowed
<1> QED BY <1>1, <1>2

\* The subqueries only lose SELECTs.
LEMMA NarrowLess ==
  ASSUME NEW t, SoundTree(t), NEW s \in Select, NEW types, NEW u, IsNarrowed(u, t, s, types)
  PROVE  \A v \in UnionNode : Range(u.children[v]) \subseteq Range(t.children[v])
<1>1. ASSUME NEW v \in UnionNode
      PROVE  Range(u.children[v]) \subseteq Range(t.children[v])
  <2>1. CASE v # t.query[s]
    BY <2>1 DEF IsNarrowed
  <2>2. CASE v = t.query[s]
    <3>1. v # None
      BY NodesAssumption
    <3>2. Range(u.children[v]) = Kept(t, s, types)
      BY <2>2, <3>1 DEF IsNarrowed
    <3> QED BY <2>2, <3>1, <3>2 DEF Kept
  <2> QED BY <2>1, <2>2
<1> QED BY <1>1

\* The tree stays sound.
LEMMA NarrowSound ==
  ASSUME NEW t, SoundTree(t), NEW s \in Select, NEW types, NEW u, IsNarrowed(u, t, s, types)
  PROVE  SoundTree(u)
<1>1. /\ t \in Tree /\ u \in Tree /\ u.query = t.query /\ u.selects = t.selects /\ u.unions = t.unions
      /\ u.parent = t.parent /\ u.limit = t.limit /\ u.offset = t.offset
      /\ \A v \in UnionNode : v # t.query[s] => u.children[v] = t.children[v]
      /\ t.query[s] # None => IsInjective(u.children[t.query[s]])
  BY DEF SoundTree, IsNarrowed
<1>2. \A v \in UnionNode : Range(u.children[v]) \subseteq Range(t.children[v])
  BY NarrowLess
<1>3. Founded(u)
  <2>1. SUFFICES ASSUME NEW W \in SUBSET (UnionNode \ {Root}), W # {}
                 PROVE  \E v \in W : \A r \in Range(u.children[v]) : u.query[r] \notin W
    BY DEF Founded
  <2>2. PICK v \in W : \A r \in Range(t.children[v]) : t.query[r] \notin W
    BY <2>1 DEF SoundTree, Founded
  <2> QED BY <1>1, <1>2, <2>2
<1>4. \A v \in UnionNode : v # None
  BY NodesAssumption
<1>5. \A v \in UnionNode : IsInjective(u.children[v])
  BY <1>1, <1>4 DEF SoundTree
<1>6. ASSUME NEW v \in UnionNode
      PROVE  u.children[v] \in Seq(1 .. u.selects) /\ (v > u.unions => u.children[v] = <<>>)
  <2>1. t.children[v] \in Seq(1 .. t.selects) /\ (v > t.unions => t.children[v] = <<>>)
    BY DEF SoundTree, Unmade
  <2>2. CASE v # t.query[s]
    BY <1>1, <2>1, <2>2
  <2>3. CASE v = t.query[s]
    <3>1. Range(u.children[v]) \subseteq 1 .. t.selects
      BY <1>2, <2>1, ListRange
    <3>2. u.children[v] \in Seq(Select)
      BY <1>1 DEF Tree
    <3>3. u.children[v] \in Seq(1 .. t.selects)
      <4>1. \A i \in 1 .. Len(u.children[v]) : u.children[v][i] \in 1 .. t.selects
        BY <3>1, <3>2, ListRange
      <4>2. Len(u.children[v]) \in Nat /\ u.children[v] \in [1 .. Len(u.children[v]) -> Select]
        BY <3>2, LenProperties
      <4>3. PICK c, n, S : c = u.children[v] /\ n = Len(c) /\ S = 1 .. t.selects
        OBVIOUS
      <4>4. c \in [1 .. n -> S] /\ n \in Nat
        BY <4>1, <4>2, <4>3
      <4>5. c \in Seq(S)
        BY ONLY <4>4
      <4> QED BY <4>3, <4>5
    <3>4. ~(v > t.unions)
      <4>1. v <= t.unions /\ v \in Nat /\ t.unions \in Nat
        BY <1>1, <1>4, <2>3, NodesAssumption DEF SoundTree, Unmade, Tree
      <4> QED BY <4>1
    <3> QED BY <1>1, <3>3, <3>4
  <2> QED BY <2>2, <2>3
<1>7. Unmade(u)
  BY <1>1, <1>6 DEF SoundTree, Unmade
<1> QED BY <1>1, <1>3, <1>5, <1>7 DEF SoundTree

\* Below a SELECT of the root, and in no other subquery.
LEMMA InOneSubquery ==
  ASSUME NEW t \in Tree, NEW R \in SUBSET Select, NEW T, NEW O, Level(t, R, T, O),
         NEW x \in Under(t, R), NEW y \in Under(t, R), t.query[x] # None, t.query[y] # None,
         NEW r \in Range(t.children[t.query[x]]), r \in Range(t.children[t.query[y]])
  PROVE  t.query[x] = t.query[y]
<1>1. t.parent[r] = t.query[x] /\ t.parent[r] = t.query[y]
  BY DEF Level, Parents
<1> QED BY <1>1

\* The types that a narrowed tree gives, at any level.
LEMMA NarrowTypes ==
  ASSUME NEW t, SoundTree(t), NEW s \in Select, NEW types \in SUBSET t.types[s], NEW u, IsNarrowed(u, t, s, types),
         NEW R0 \in SUBSET Select, s \in R0, NEW T0, NEW O0, Level(t, R0, T0, O0),
         NEW R \in SUBSET Select, NEW T, NEW O, Level(t, R, T, O), R0 \subseteq O
  PROVE  Types(u, R)
<1>1. /\ t \in Tree /\ u \in Tree /\ u.query = t.query /\ u.types[s] = types
      /\ \A v \in UnionNode : v # t.query[s] => u.children[v] = t.children[v]
      /\ t.query[s] # None => Range(u.children[t.query[s]]) = Kept(t, s, types)
      /\ \A r \in Select : r # s =>
           u.types[r] = IF r \in Kept(t, s, types) THEN t.types[r] \cap types ELSE t.types[r]
  BY DEF SoundTree, IsNarrowed
<1>2. \A v \in UnionNode : Range(u.children[v]) \subseteq Range(t.children[v])
  BY NarrowLess
<1>3. \A r \in Select : t.query[r] # None => t.query[r] \in UnionNode
  BY <1>1 DEF Tree
<1>4. Under(t, R) \subseteq Select /\ R0 \subseteq Under(t, R0)
  BY UnderIsLeast
<1>5. Under(u, R) \subseteq Under(t, R)
  <2>1. \A r \in Under(t, R) :
          /\ u.query[r] = t.query[r]
          /\ t.query[r] # None => Range(u.children[t.query[r]]) \subseteq Range(t.children[t.query[r]])
    BY <1>1, <1>2, <1>3, <1>4
  <2> QED BY <1>1, <2>1, UnderShrinks
<1>6. s \notin Nested(t, R) /\ Types(t, R)
  BY DEF Level
<1>7. SUFFICES ASSUME NEW x \in Under(u, R), u.query[x] # None, NEW e \in u.types[x]
               PROVE  \E r \in Range(u.children[u.query[x]]) : e \in u.types[r]
  BY DEF Types, TypesOf
<1>8. PICK p : p = t.query[x]
  OBVIOUS
<1>9. x \in Under(t, R) /\ x \in Select /\ p # None /\ u.query[x] = p /\ p \in UnionNode
  BY <1>1, <1>3, <1>4, <1>5, <1>7, <1>8
<1>10. e \in t.types[x]
  <2>1. CASE x = s
    BY <1>1, <1>7, <2>1
  <2>2. CASE x # s
    BY <1>1, <1>7, <1>9, <2>2
  <2> QED BY <2>1, <2>2
<1>11. PICK r \in Range(t.children[p]) : e \in t.types[r]
  BY <1>6, <1>8, <1>9, <1>10 DEF Types, TypesOf
<1>12. r \in Select /\ r # s
  <2>1. r \in Nested(t, R)
    BY <1>1, <1>8, <1>9, <1>11, InSubquery
  <2> QED BY <1>6, <2>1 DEF Nested
<1>13. CASE x = s
  <2>1. e \in types /\ t.query[s] = p
    BY <1>1, <1>7, <1>8, <1>13
  <2>2. r \in Kept(t, s, types)
    BY <1>9, <1>11, <2>1 DEF Kept
  <2>3. r \in Range(u.children[p]) /\ u.types[r] = t.types[r] \cap types
    BY <1>1, <1>9, <1>12, <2>1, <2>2
  <2> QED BY <1>9, <1>11, <2>1, <2>3
<1>14. CASE x # s
  <2>1. p # t.query[s]
    BY <1>8, <1>9, <1>14 DEF SoundTree
  <2>2. r \in Range(u.children[p])
    BY <1>1, <1>9, <1>11, <2>1
  <2>3. r \notin Kept(t, s, types)
    <3>1. SUFFICES ASSUME r \in Kept(t, s, types)
                   PROVE  FALSE
      OBVIOUS
    <3>2. t.query[s] # None /\ r \in Range(t.children[t.query[s]])
      BY <3>1 DEF Kept
    <3>3. t.parent[r] = t.query[s]
      BY <1>4, <3>2 DEF Level, Parents
    <3>4. t.parent[r] = p
      BY <1>8, <1>9, <1>11 DEF Level, Parents
    <3> QED BY <2>1, <3>3, <3>4
  <2>4. u.types[r] = t.types[r]
    BY <1>1, <1>12, <2>3
  <2> QED BY <1>9, <1>11, <2>2, <2>4
<1> QED BY <1>13, <1>14

\* A level of the narrowed tree.
LEMMA NarrowLevel ==
  ASSUME NEW t, SoundTree(t), NEW s \in Select, NEW types \in SUBSET t.types[s], NEW u, IsNarrowed(u, t, s, types),
         NEW R0 \in SUBSET Select, s \in R0, NEW T0, NEW O0, Level(t, R0, T0, O0),
         NEW R \in SUBSET Select, NEW T, NEW O, Level(t, R, T, O), R0 \subseteq O
  PROVE  Level(u, R, T, O)
<1>1. t \in Tree /\ u \in Tree /\ u.query = t.query /\ u.parent = t.parent
  BY DEF SoundTree, IsNarrowed
<1>2. \A v \in UnionNode : Range(u.children[v]) \subseteq Range(t.children[v])
  BY NarrowLess
<1>3. \A r \in Select : t.query[r] # None => t.query[r] \in UnionNode
  BY <1>1 DEF Tree
<1>4. Under(t, R) \subseteq Select
  BY UnderIsLeast
<1>5. \A r \in Under(t, R) :
        /\ u.query[r] = t.query[r]
        /\ t.query[r] # None => Range(u.children[t.query[r]]) \subseteq Range(t.children[t.query[r]])
  BY <1>1, <1>2, <1>3, <1>4
<1>6. \A r \in Nested(t, R) : u.parent[r] = t.parent[r] /\ r \notin T /\ r \notin O
  BY <1>1, LevelApart
<1>7. \A r \in R : u.parent[r] \in {Root, None} \/ r \in T
  BY <1>1 DEF Level, Parents
<1>8. Types(u, R)
  BY NarrowTypes
<1>9. R \in SUBSET R
  OBVIOUS
<1> QED BY ONLY <1>1, <1>5, <1>6, <1>7, <1>8, <1>9, R \in SUBSET Select, Level(t, R, T, O), LevelKept

\* A SELECT that is filtered out is no longer below the root.
LEMMA NarrowLoses ==
  ASSUME NEW t, SoundTree(t), NEW s \in Select, NEW types, NEW u, IsNarrowed(u, t, s, types),
         NEW R \in SUBSET Select, s \in R, NEW T, NEW O, Level(t, R, T, O), R \subseteq O,
         t.query[s] # None, NEW r \in Range(t.children[t.query[s]]), r \notin Kept(t, s, types)
  PROVE  r \in Under(t, R) /\ r \notin Under(u, R)
<1>1. /\ t \in Tree /\ u \in Tree /\ u.query = t.query
      /\ Range(u.children[t.query[s]]) = Kept(t, s, types)
  BY DEF SoundTree, IsNarrowed
<1>2. \A v \in UnionNode : Range(u.children[v]) \subseteq Range(t.children[v])
  BY NarrowLess
<1>3. \A x \in Select : t.query[x] # None => t.query[x] \in UnionNode
  BY <1>1 DEF Tree
<1>4. Under(t, R) \subseteq Select /\ R \subseteq Under(t, R)
  BY UnderIsLeast
<1>5. r \in Nested(t, R) /\ Nested(t, R) \subseteq Under(t, R)
  <2>1. s \in Under(t, R)
    BY <1>4
  <2> QED BY ONLY <1>1, <2>1, t.query[s] # None, r \in Range(t.children[t.query[s]]), R \in SUBSET Select, InSubquery
<1>6. r \notin R
  BY <1>5 DEF Level
<1>7. Under(u, R) \subseteq Under(t, R)
  <2>1. \A x \in Under(t, R) :
          /\ u.query[x] = t.query[x]
          /\ t.query[x] # None => Range(u.children[t.query[x]]) \subseteq Range(t.children[t.query[x]])
    BY <1>1, <1>2, <1>3, <1>4
  <2> QED BY <1>1, <2>1, UnderShrinks
<1>8. ASSUME r \in Nested(u, R)
      PROVE  FALSE
  <2>1. PICK x \in Under(u, R) : u.query[x] # None /\ r \in Range(u.children[u.query[x]])
    BY <1>8 DEF Nested
  <2>2. x \in Under(t, R) /\ x \in Select /\ t.query[x] # None /\ r \in Range(t.children[t.query[x]])
    BY <1>1, <1>2, <1>3, <1>4, <1>7, <2>1
  <2>3. t.parent[r] = t.query[x] /\ t.parent[r] = t.query[s]
    BY <1>4, <2>2 DEF Level, Parents
  <2> QED BY <1>1, <2>1, <2>3
<1>9. Under(u, R) = R \cup Nested(u, R)
  BY <1>1, UnderOrNested
<1> QED BY <1>5, <1>6, <1>8, <1>9

\* set_possible_types keeps the invariant.
LEMMA NarrowStep ==
  ASSUME EditInv, NEW s \in Select, NEW types \in SUBSET Etype, SetPossibleTypes(s, types)
  PROVE  EditInv' /\ (PromiseInv => PromiseInv')
<1>1. PICK u : u = Narrowed(tree, s, types)
  OBVIOUS
<1>2. /\ s \in Range(tree.children[Root]) /\ types \subseteq tree.types[s] /\ remaining = 0
      /\ edits' = edits + 1 /\ tree' = u /\ target' = NoTree
      /\ stray' = (stray \/ (SelectsBelow(tree, Root) \ SelectsBelow(u, Root)) \cap SavedSelects # {})
      /\ UNCHANGED <<op_list, state_stack, memorizing, undoing, remaining, saved, trail, intact>>
  BY <1>1 DEF SetPossibleTypes, Log!Idle
<1>3. /\ SoundTree(tree) /\ tree \in Tree /\ Root \in UnionNode /\ 0 \in Levels
      /\ tree.children[Root] \in Seq(Select) /\ Range(tree.children[Root]) \in SUBSET Select
      /\ RootAt(0) = tree.children[Root] /\ LogTypes /\ Log!LengthsAgree /\ Log!Recording /\ SavesFirst
      /\ \A i \in Levels : /\ RootAt(i) \in Seq(1 .. tree.selects) /\ IsInjective(RootAt(i))
                           /\ Range(RootAt(i)) \in SUBSET Select
                           /\ Level(tree, Range(RootAt(i)), Touched(op_list, i), RootsTo(i))
                           /\ Range(RootAt(0)) \subseteq RootsTo(i)
  BY RootLists DEF EditInv
<1>4. IsNarrowed(u, tree, s, types)
  <2>1. \A v \in UnionNode : IsInjective(tree.children[v])
    BY <1>3 DEF SoundTree
  <2> QED BY <1>1, <1>3, <2>1, NarrowFacts
<1>5. SoundTree(u) /\ u \in Tree
  BY <1>3, <1>4, NarrowSound DEF SoundTree
<1>6. /\ u.children[Root] = tree.children[Root] /\ u.selects = tree.selects /\ u.query = tree.query
      /\ u.limit = tree.limit /\ u.offset = tree.offset
  <2>1. tree.query[s] # Root
    BY <1>3 DEF SoundTree
  <2> QED BY <1>3, <1>4, <2>1 DEF IsNarrowed
<1>7. PICK R0 : R0 = Range(tree.children[Root])
  OBVIOUS
<1>8. R0 \in SUBSET Select /\ s \in R0
  BY <1>2, <1>3, <1>7
<1>9. PICK T0, O0 : Level(tree, R0, T0, O0) /\ R0 \subseteq O0
  BY <1>3, <1>7
<1>10. \A i \in Levels : Level(u, Range(RootAt(i)), Touched(op_list, i), RootsTo(i))
  <2>1. SUFFICES ASSUME NEW i \in Levels
                 PROVE  Level(u, Range(RootAt(i)), Touched(op_list, i), RootsTo(i))
    OBVIOUS
  <2>2. PICK R, T, O : R = Range(RootAt(i)) /\ T = Touched(op_list, i) /\ O = RootsTo(i)
    OBVIOUS
  <2>3. R \in SUBSET Select /\ Level(tree, R, T, O) /\ R0 \subseteq O
    BY <1>3, <1>7, <2>2
  <2>4. types \in SUBSET tree.types[s] /\ SoundTree(tree) /\ s \in Select
    BY <1>2, <1>3
  <2>5. Level(u, R, T, O)
    BY ONLY <1>4, <1>8, <1>9, <2>3, <2>4, NarrowLevel
  <2> QED BY <2>2, <2>5
<1>11. \A i : RootAt(i)' = RootAt(i)
  BY <1>2, <1>6 DEF RootAt
<1>12. Levels' = Levels /\ \A i : RootsTo(i)' = RootsTo(i) /\ Touched(op_list, i)' = Touched(op_list, i)
  <2>1. Levels' = Levels
    BY <1>2 DEF Levels
  <2>2. ASSUME NEW i
        PROVE  RootsTo(i)' = RootsTo(i)
    <3>1. {Range(RootAt(k)') : k \in 0 .. i} = {Range(RootAt(k)) : k \in 0 .. i}
      BY <1>11
    <3> QED BY <3>1 DEF RootsTo
  <2>3. ASSUME NEW i
        PROVE  Touched(op_list, i)' = Touched(op_list, i)
    BY <1>2 DEF Touched
  <2> QED BY <2>1, <2>2, <2>3
<1>13. EditInv'
  <2>1. SoundTree(tree)'
    BY <1>2, <1>5 DEF SoundTree, Founded, Unmade
  <2>2. RootInv'
    <3>1. RootInv
      BY DEF EditInv
    <3> QED BY <1>2, <1>6, <1>11, <1>12, <3>1 DEF RootInv
  <2>3. LevelInv'
    <3>1. SUFFICES ASSUME NEW j \in Levels'
                   PROVE  Level(tree', Range(RootAt(j)'), Touched(op_list, j)', RootsTo(j)')
      BY DEF LevelInv, Level, Parents, Types, Nested, Under, Touched, RootsTo, RootAt, TypesOf, Closed
    <3> QED BY <1>2, <1>10, <1>11, <1>12
  <2>4. LogTypes'
    <3>1. edits' \in Nat /\ stray' \in BOOLEAN
      <4>1. edits \in Nat /\ stray \in BOOLEAN
        BY <1>3 DEF LogTypes
      <4>2. edits' \in Nat
        BY <1>2, <4>1
      <4>3. PICK b \in BOOLEAN : b = ((SelectsBelow(tree, Root) \ SelectsBelow(u, Root)) \cap SavedSelects # {})
        OBVIOUS
      <4>4. stray' \in BOOLEAN
        BY <1>2, <4>1, Zenon
      <4> QED BY <4>2, <4>4
    <3> QED BY <1>2, <1>3, <1>12, <3>1 DEF LogTypes
  <2>5. Log!LengthsAgree' /\ Log!Recording' /\ SavesFirst'
    BY <1>2, <1>3 DEF Log!LengthsAgree, Log!Recording, SavesFirst
  <2> QED BY <2>1, <2>2, <2>3, <2>4, <2>5 DEF EditInv
<1>14. ASSUME NEW t, NEW d, Mark(t, d), SelectsBelow(t, Root) \subseteq SavedSelects
       PROVE  Mark(t, d)'
  <2>1. SoundTree(t) /\ t.selects <= tree.selects /\ d \in Levels /\ t.children[Root] = RootAt(d)
    BY <1>14 DEF Mark
  <2>2. t \in Tree /\ Range(t.children[Root]) \in SUBSET Select /\ \A r \in Select : t.query[r] # None => t.query[r] \in UnionNode
    <3>1. t \in Tree
      BY <2>1 DEF SoundTree
    <3> QED BY <1>3, <2>1, <3>1 DEF Tree
  <2>3. PICK X : X = Under(t, Range(t.children[Root]))
    OBVIOUS
  <2>4. X \subseteq SavedSelects
    BY <1>3, <1>14, <2>1, <2>2, <2>3, SelectsBelowIs DEF SoundTree
  <2>5. ASSUME ~stray'
        PROVE  \A x \in X :
                 /\ u.query[x] = t.query[x]
                 /\ t.query[x] # None => u.children[t.query[x]] = t.children[t.query[x]]
                 /\ BackTo(op_list, "SetLimit", x, d, u.limit[x], t.limit[x])
                 /\ BackTo(op_list, "SetOffset", x, d, u.offset[x], t.offset[x])
    <3>1. ~stray /\ (SelectsBelow(tree, Root) \ SelectsBelow(u, Root)) \cap SavedSelects = {}
      BY <1>2, <2>5
    <3>2. SUFFICES ASSUME NEW x \in X
                   PROVE  /\ u.query[x] = t.query[x]
                          /\ t.query[x] # None => u.children[t.query[x]] = t.children[t.query[x]]
                          /\ BackTo(op_list, "SetLimit", x, d, u.limit[x], t.limit[x])
                          /\ BackTo(op_list, "SetOffset", x, d, u.offset[x], t.offset[x])
      OBVIOUS
    <3>3. /\ tree.query[x] = t.query[x]
          /\ t.query[x] # None => tree.children[t.query[x]] = t.children[t.query[x]]
          /\ BackTo(op_list, "SetLimit", x, d, tree.limit[x], t.limit[x])
          /\ BackTo(op_list, "SetOffset", x, d, tree.offset[x], t.offset[x])
      BY <1>14, <2>3, <3>1, <3>2 DEF Mark, GivesBack
    <3>4. x \in Select
      BY <2>2, <2>3, <3>2, UnderIsLeast
    <3>5. ASSUME t.query[x] # None
          PROVE  u.children[t.query[x]] = t.children[t.query[x]]
      <4>1. PICK q \in UnionNode : q = t.query[x]
        BY <2>2, <3>4, <3>5
      <4>2. q # None /\ tree.query[x] = q /\ tree.children[q] = t.children[q]
        BY <3>3, <3>5, <4>1
      <4>3. CASE q # tree.query[s]
        BY <1>4, <4>1, <4>2, <4>3 DEF IsNarrowed
      <4>4. CASE q = tree.query[s] /\ Range(tree.children[q]) \subseteq Kept(tree, s, types)
        BY <1>4, <4>1, <4>2, <4>4 DEF IsNarrowed
      <4>5. CASE q = tree.query[s] /\ ~(Range(tree.children[q]) \subseteq Kept(tree, s, types))
        <5>1. PICK r \in Range(tree.children[q]) : r \notin Kept(tree, s, types)
          BY <4>5
        <5>2. r \in Under(tree, R0) /\ r \notin Under(u, R0)
          <6>1. tree.query[s] # None /\ r \in Range(tree.children[tree.query[s]]) /\ SoundTree(tree)
            BY <1>3, <4>2, <4>5, <5>1
          <6> QED BY ONLY <1>4, <1>8, <1>9, <5>1, <6>1, s \in Select, NarrowLoses
        <5>3. r \in SelectsBelow(tree, Root) /\ r \notin SelectsBelow(u, Root)
          <6>1. SelectsBelow(tree, Root) = Under(tree, R0)
            BY <1>3, <1>7, SelectsBelowIs DEF SoundTree
          <6>2. SelectsBelow(u, Root) = Under(u, R0)
            BY <1>3, <1>5, <1>6, <1>7, SelectsBelowIs DEF SoundTree
          <6> QED BY <5>2, <6>1, <6>2
        <5>4. r \in SavedSelects
          <6>1. r \in Range(t.children[t.query[x]])
            BY <4>1, <4>2, <5>1
          <6>2. r \in X
            <7>1. x \in Under(t, Range(t.children[Root]))
              BY <2>3, <3>2
            <7>2. PICK Y : Y = Range(t.children[Root])
              OBVIOUS
            <7>3. r \in Under(t, Y)
              BY ONLY <2>2, <3>5, <6>1, <7>1, <7>2, InSubquery
            <7> QED BY <2>3, <7>2, <7>3
          <6> QED BY <2>4, <6>2
        <5> QED BY <3>1, <5>3, <5>4
      <4> QED BY <4>1, <4>3, <4>4, <4>5
    <3> QED BY <1>6, <3>3, <3>5
  <2>6. /\ t.selects <= tree'.selects /\ d \in Levels' /\ t.children[Root] = RootAt(d)'
        /\ op_list' = op_list
    BY <1>2, <1>6, <1>11, <1>12, <2>1
  <2>7. ~stray' => GivesBack(t, d)'
    <3>1. SUFFICES ASSUME ~stray', NEW x \in X
                   PROVE  /\ tree'.query[x] = t.query[x]
                          /\ t.query[x] # None => tree'.children[t.query[x]] = t.children[t.query[x]]
                          /\ BackTo(op_list', "SetLimit", x, d, tree'.limit[x], t.limit[x])
                          /\ BackTo(op_list', "SetOffset", x, d, tree'.offset[x], t.offset[x])
      BY <2>3 DEF GivesBack, Under, BackTo, Closed
    <3> QED BY <1>2, <2>5, <2>6, <3>1
  <2> QED BY <2>1, <2>6, <2>7 DEF Mark, SoundTree, Founded, Unmade
<1>15. ASSUME PromiseInv
       PROVE  PromiseInv'
  <2>1. Log!MarksInOrder'
    BY <1>2, <1>15 DEF PromiseInv, Log!MarksInOrder
  <2>2. ASSUME NEW i \in 1 .. Len(saved)
        PROVE  Mark(saved[i], Len(op_list) - state_stack[i])'
    <3>1. Mark(saved[i], Len(op_list) - state_stack[i])
      BY <1>15, <2>2 DEF PromiseInv, MarkInv
    <3>2. PICK t, d : t = saved[i] /\ d = Len(op_list) - state_stack[i]
      OBVIOUS
    <3>3. i \in DOMAIN saved
      <4>1. saved \in Seq(Tree)
        BY <1>3 DEF LogTypes
      <4> QED BY <2>2, <4>1
    <3>4. SelectsBelow(t, Root) \subseteq SavedSelects
      BY <3>2, <3>3 DEF SavedSelects
    <3>5. Mark(t, d)'
      BY <1>14, <3>1, <3>2, <3>4
    <3>6. saved'[i] = t /\ Len(op_list') - state_stack'[i] = d
      BY <1>2, <3>2
    <3> QED BY <3>5, <3>6 DEF Mark, GivesBack
  <2>3. target' = NoTree /\ remaining' = 0 /\ Len(saved') = Len(saved)
    BY <1>2
  <2> QED BY <2>1, <2>2, <2>3 DEF PromiseInv, MarkInv
<1> QED BY <1>13, <1>15

\* What the invariant says of the tree and of its log, when neither changes.
LEMMA SameLog ==
  ASSUME EditInv, UNCHANGED <<tree, op_list, trail>>
  PROVE  /\ SoundTree(tree)' /\ RootInv' /\ LevelInv'
         /\ stray' = stray => \A t, d : Mark(t, d) => Mark(t, d)'
<1>1. SoundTree(tree)'
  BY DEF EditInv, SoundTree, Founded, Unmade
<1>2. RootInv'
  BY DEF EditInv, RootInv, RootAt, Levels
<1>3. LevelInv'
  <2>1. \A i : RootAt(i)' = RootAt(i)
    BY DEF RootAt
  <2>2. \A i : RootsTo(i)' = RootsTo(i)
    <3>1. \A i : {Range(RootAt(k)') : k \in 0 .. i} = {Range(RootAt(k)) : k \in 0 .. i}
      BY <2>1
    <3> QED BY <3>1 DEF RootsTo
  <2>3. SUFFICES ASSUME NEW j \in Levels'
                 PROVE  Level(tree', Range(RootAt(j)'), Touched(op_list', j), RootsTo(j)')
    BY DEF LevelInv, Level, Parents, Types, Nested, Under, Touched, RootsTo, RootAt, TypesOf, Closed
  <2>4. j \in Levels
    BY <2>3 DEF Levels
  <2> QED BY <2>1, <2>2, <2>4 DEF EditInv, LevelInv
<1>4. ASSUME stray' = stray, NEW t, NEW d, Mark(t, d)
      PROVE  Mark(t, d)'
  <2>1. Levels' = Levels /\ RootAt(d)' = RootAt(d)
    BY DEF Levels, RootAt
  <2>2. GivesBack(t, d) => GivesBack(t, d)'
    BY DEF GivesBack, Under, Closed, BackTo
  <2> QED BY <1>4, <2>1, <2>2 DEF Mark, SoundTree, Founded, Unmade
<1> QED BY <1>1, <1>2, <1>3, <1>4

\* What the invariant says of the stacks.
LEMMA Stacks ==
  ASSUME EditInv
  PROVE  /\ op_list \in Seq(Op) /\ trail \in Seq(Tree) /\ saved \in Seq(Tree) /\ state_stack \in Seq(Nat)
         /\ Len(op_list) \in Nat /\ Len(trail) = Len(op_list)
         /\ Len(state_stack) \in Nat /\ Len(saved) = Len(state_stack)
         /\ memorizing = Len(state_stack) /\ undoing = FALSE
         /\ stray \in BOOLEAN /\ edits \in Nat /\ remaining \in 0 .. Len(op_list) /\ remaining \in Nat
         /\ \A i \in 1 .. Len(state_stack) : state_stack[i] \in Nat
         /\ Len(state_stack) = 0 => remaining = Len(op_list)
         /\ Len(state_stack) > 0 => state_stack[1] = 0
<1>1. LogTypes /\ Log!LengthsAgree /\ Log!Recording /\ SavesFirst
  BY DEF EditInv
<1>2. op_list \in Seq(Op) /\ trail \in Seq(Tree) /\ saved \in Seq(Tree) /\ state_stack \in Seq(Nat)
  BY <1>1 DEF LogTypes
<1>3. /\ Len(op_list) \in Nat /\ Len(state_stack) \in Nat /\ \A i \in 1 .. Len(state_stack) : state_stack[i] \in Nat
      /\ undoing \in BOOLEAN => undoing = FALSE
  BY <1>1, <1>2, LenProperties, ElementOfSeq DEF Log!Recording
<1>4. remaining \in Nat
  BY <1>1, <1>3 DEF LogTypes, Levels
<1> QED BY <1>1, <1>2, <1>3, <1>4 DEF LogTypes, Levels, Log!LengthsAgree, Log!Recording, SavesFirst

\* save_state keeps the invariant.
LEMMA SaveStep ==
  ASSUME EditInv, Log!HSaveState, UNCHANGED <<edits, stray>>
  PROVE  EditInv' /\ (PromiseInv => PromiseInv')
<1>1. /\ remaining = 0 /\ state_stack' = Append(state_stack, Len(op_list)) /\ memorizing' = memorizing + 1
      /\ saved' = Append(saved, tree) /\ target' = NoTree
      /\ UNCHANGED <<tree, op_list, undoing, remaining, trail, intact, edits, stray>>
  BY DEF Log!HSaveState, Log!SaveState, Log!Idle
<1>2. /\ op_list \in Seq(Op) /\ trail \in Seq(Tree) /\ saved \in Seq(Tree) /\ state_stack \in Seq(Nat)
      /\ Len(op_list) \in Nat /\ Len(trail) = Len(op_list)
      /\ Len(state_stack) \in Nat /\ Len(saved) = Len(state_stack)
      /\ memorizing = Len(state_stack) /\ undoing = FALSE
      /\ stray \in BOOLEAN /\ edits \in Nat /\ remaining \in 0 .. Len(op_list)
      /\ \A i \in 1 .. Len(state_stack) : state_stack[i] \in Nat
      /\ Len(state_stack) = 0 => remaining = Len(op_list)
      /\ Len(state_stack) > 0 => state_stack[1] = 0
  BY Stacks
<1>3. PICK n \in Nat : n = Len(state_stack)
  BY <1>2
<1>4. /\ state_stack' \in Seq(Nat) /\ Len(state_stack') = n + 1 /\ state_stack'[n + 1] = Len(op_list)
      /\ \A i \in 1 .. n : state_stack'[i] = state_stack[i]
  BY <1>1, <1>2, <1>3
<1>5. tree \in Tree /\ SoundTree(tree)
  BY DEF EditInv, SoundTree
<1>6. /\ saved' \in Seq(Tree) /\ Len(saved') = n + 1 /\ saved'[n + 1] = tree
      /\ \A i \in 1 .. n : saved'[i] = saved[i]
  BY <1>1, <1>2, <1>3, <1>5
<1>7. \A i \in 1 .. n + 1 : i \in 1 .. n \/ i = n + 1
  OBVIOUS
<1>8. EditInv'
  <2>1. SoundTree(tree)' /\ RootInv' /\ LevelInv'
    BY <1>1, SameLog
  <2>2. LogTypes' /\ Log!LengthsAgree' /\ Log!Recording'
    BY <1>1, <1>2, <1>3, <1>4, <1>6 DEF LogTypes, Levels, Log!LengthsAgree, Log!Recording
  <2>3. SavesFirst'
    <3>1. CASE n = 0
      BY <1>1, <1>2, <1>3, <1>4, <3>1 DEF SavesFirst
    <3>2. CASE n # 0
      BY <1>1, <1>2, <1>3, <1>4, <3>2 DEF SavesFirst
    <3> QED BY <3>1, <3>2
  <2> QED BY <2>1, <2>2, <2>3 DEF EditInv
<1>9. ASSUME PromiseInv
      PROVE  PromiseInv'
  <2>1. /\ \A i \in 1 .. n : state_stack[i] <= Len(op_list)
        /\ \A i, j \in 1 .. n : i <= j => state_stack[i] <= state_stack[j]
    BY <1>1, <1>2, <1>3, <1>9 DEF PromiseInv, Log!MarksInOrder
  <2>2. Log!MarksInOrder'
    <3>1. \A i \in 1 .. n + 1 : state_stack'[i] <= Len(op_list)
      BY <1>2, <1>4, <1>7, <2>1
    <3>2. ASSUME NEW i \in 1 .. n + 1, NEW j \in 1 .. n + 1, i <= j
          PROVE  state_stack'[i] <= state_stack'[j]
      <4>1. CASE j = n + 1
        BY <1>4, <3>1, <4>1
      <4>2. CASE j # n + 1
        <5>1. i \in 1 .. n /\ j \in 1 .. n
          BY <3>2, <4>2
        <5> QED BY <1>4, <2>1, <3>2, <5>1
      <4> QED BY <4>1, <4>2
    <3>3. SavesFirst'
      BY <1>8 DEF EditInv
    <3> QED BY <1>1, <1>2, <1>4, <3>1, <3>2, <3>3 DEF Log!MarksInOrder, SavesFirst
  <2>3. \A t, d : Mark(t, d) => Mark(t, d)'
    BY <1>1, SameLog
  <2>4. Mark(tree, 0)
    <3>1. 0 \in Levels /\ tree.children[Root] = RootAt(0)
      BY <1>2 DEF Levels, RootAt
    <3>2. GivesBack(tree, 0)
      BY DEF GivesBack, BackTo
    <3>3. tree.selects <= tree.selects
      <4>1. tree.selects \in Nat
        BY <1>5 DEF Tree
      <4> QED BY <4>1
    <3> QED BY <1>5, <3>1, <3>2, <3>3 DEF Mark
  <2>5. ASSUME NEW i \in 1 .. n + 1
        PROVE  Mark(saved[i], Len(op_list) - state_stack[i])'
    <3>1. PICK t, d : t = saved'[i] /\ d = Len(op_list') - state_stack'[i]
      OBVIOUS
    <3>2. Mark(t, d)
      <4>1. CASE i = n + 1
        <5>1. t = tree /\ d = 0
          BY <1>1, <1>2, <1>4, <1>6, <3>1, <4>1
        <5> QED BY <2>4, <5>1
      <4>2. CASE i \in 1 .. n
        <5>1. t = saved[i] /\ d = Len(op_list) - state_stack[i]
          BY <1>1, <1>4, <1>6, <3>1, <4>2
        <5>2. Mark(saved[i], Len(op_list) - state_stack[i])
          BY <1>2, <1>3, <1>9, <4>2 DEF PromiseInv, MarkInv
        <5> QED BY <5>1, <5>2
      <4> QED BY <1>7, <2>5, <4>1, <4>2
    <3>3. Mark(t, d)'
      BY <2>3, <3>2
    <3> QED BY <3>1, <3>3 DEF Mark, GivesBack
  <2>6. MarkInv'
    <3>1. Len(saved)' = n + 1
      BY <1>6
    <3>2. target' = NoTree /\ ~(remaining' > 0)
      BY <1>1
    <3> QED BY ONLY <2>5, <3>1, <3>2 DEF MarkInv
  <2> QED BY <2>2, <2>6 DEF PromiseInv
<1> QED BY <1>8, <1>9

\* recover keeps the invariant: what it promises is the tree of its save_state.
LEMMA RecoverStep ==
  ASSUME EditInv, Log!HRecover, UNCHANGED <<edits, stray>>
  PROVE  EditInv' /\ (PromiseInv /\ intact' => PromiseInv')
<1>1. /\ remaining = 0 /\ state_stack # <<>> /\ state_stack' = Front(state_stack) /\ memorizing' = memorizing - 1
      /\ remaining' = Log!RecoverCount(Last(state_stack), Len(op_list))
      /\ saved' = Front(saved) /\ target' = Last(saved)
      /\ intact' = (intact /\ ~(0 < Last(state_stack) /\ Len(op_list) <= Last(state_stack)))
      /\ UNCHANGED <<tree, op_list, undoing, trail, edits, stray>>
  <2>1. intact' = (intact /\ ~(0 < Last(state_stack) /\ Len(op_list) <= Last(state_stack)))
    <3>1. intact' = (intact /\ ~(0 < Log!Last(state_stack) /\ Len(op_list) <= Log!Last(state_stack)))
      BY Zenon DEF Log!HRecover, Log!LastStateIndex, Log!Overshoots
    <3>2. Log!Last(state_stack) = Last(state_stack)
      BY DEF Log!Last, Last
    <3> QED BY <3>1, <3>2
  <2>2. /\ remaining' = Log!RecoverCount(Last(state_stack), Len(op_list)) /\ state_stack' = Front(state_stack)
        /\ saved' = Front(saved) /\ target' = Last(saved)
    <3>1. /\ remaining' = Log!RecoverCount(Log!Last(state_stack), Len(op_list)) /\ state_stack' = Log!Front(state_stack)
          /\ saved' = Log!Front(saved) /\ target' = Log!Last(saved)
      BY Zenon DEF Log!HRecover, Log!Recover, Log!LastStateIndex
    <3> QED BY <3>1 DEF Log!Last, Last, Log!Front, Front
  <2>3. /\ remaining = 0 /\ state_stack # <<>> /\ memorizing' = memorizing - 1
        /\ UNCHANGED <<tree, op_list, undoing, trail, edits, stray>>
    BY DEF Log!HRecover, Log!Recover, Log!Idle
  <2> QED BY <2>1, <2>2, <2>3
<1>2. /\ op_list \in Seq(Op) /\ trail \in Seq(Tree) /\ saved \in Seq(Tree) /\ state_stack \in Seq(Nat)
      /\ Len(op_list) \in Nat /\ Len(trail) = Len(op_list)
      /\ Len(state_stack) \in Nat /\ Len(saved) = Len(state_stack)
      /\ memorizing = Len(state_stack) /\ undoing = FALSE
      /\ stray \in BOOLEAN /\ edits \in Nat /\ remaining \in 0 .. Len(op_list)
      /\ \A i \in 1 .. Len(state_stack) : state_stack[i] \in Nat
      /\ Len(state_stack) = 0 => remaining = Len(op_list)
      /\ Len(state_stack) > 0 => state_stack[1] = 0
  BY Stacks
<1>3. PICK n \in Nat \ {0} : n = Len(state_stack)
  BY <1>1, <1>2, EndOf
<1>4. /\ state_stack' \in Seq(Nat) /\ Len(state_stack') = n - 1 /\ Last(state_stack) = state_stack[n]
      /\ \A i \in 1 .. n - 1 : state_stack'[i] = state_stack[i]
  BY <1>1, <1>2, <1>3, EndOf
<1>5. /\ saved' \in Seq(Tree) /\ Len(saved') = n - 1 /\ target' = saved[n]
      /\ \A i \in 1 .. n - 1 : saved'[i] = saved[i]
  <2>1. saved # <<>>
    BY <1>2, <1>3
  <2> QED BY <1>1, <1>2, <1>3, <2>1, EndOf
<1>6. PICK k \in Nat : k = state_stack[n]
  BY <1>2, <1>3
<1>7. remaining' = IF 0 < k /\ k < Len(op_list) THEN Len(op_list) - k ELSE Len(op_list)
  BY <1>1, <1>4, <1>6 DEF Log!RecoverCount
<1>8. remaining' \in 0 .. Len(op_list) /\ (k = 0 => remaining' = Len(op_list))
  BY <1>2, <1>7
<1>9. EditInv'
  <2>1. SoundTree(tree)' /\ RootInv' /\ LevelInv'
    BY <1>1, SameLog
  <2>2. LogTypes' /\ Log!LengthsAgree' /\ Log!Recording'
    BY <1>1, <1>2, <1>3, <1>4, <1>5, <1>8 DEF LogTypes, Levels, Log!LengthsAgree, Log!Recording
  <2>3. SavesFirst'
    <3>1. CASE n = 1
      <4>1. k = 0
        BY <1>2, <1>3, <1>6, <3>1
      <4>2. remaining' = Len(op_list') /\ Len(state_stack') = 0
        BY <1>1, <1>4, <1>8, <3>1, <4>1
      <4> QED BY <4>2 DEF SavesFirst
    <3>2. CASE n # 1
      <4>1. Len(state_stack') \in Nat \ {0} /\ 1 \in 1 .. n - 1
        BY <1>4, <3>2
      <4>2. state_stack'[1] = 0
        BY <1>2, <1>3, <1>4, <4>1
      <4> QED BY <4>1, <4>2 DEF SavesFirst
    <3> QED BY <3>1, <3>2
  <2> QED BY <2>1, <2>2, <2>3 DEF EditInv
<1>10. ASSUME PromiseInv, intact'
       PROVE  PromiseInv'
  <2>1. /\ \A i \in 1 .. n : state_stack[i] <= Len(op_list)
        /\ \A i, j \in 1 .. n : i <= j => state_stack[i] <= state_stack[j]
        /\ \A i \in 1 .. n : Mark(saved[i], Len(op_list) - state_stack[i])
    BY <1>1, <1>2, <1>3, <1>10 DEF PromiseInv, Log!MarksInOrder, MarkInv
  <2>2. ~(0 < k /\ Len(op_list) <= k)
    BY <1>1, <1>4, <1>6, <1>10
  <2>3. remaining' = Len(op_list) - k
    BY <1>2, <1>7, <2>2
  <2>4. \A i \in 1 .. n - 1 : i \in 1 .. n /\ i <= n
    OBVIOUS
  <2>5. Log!MarksInOrder'
    <3>1. \A i \in 1 .. n - 1 : state_stack'[i] <= Len(op_list) - remaining'
      <4>1. ASSUME NEW i \in 1 .. n - 1
            PROVE  state_stack'[i] <= Len(op_list) - remaining'
        <5>1. state_stack'[i] = state_stack[i] /\ state_stack[i] <= k
          BY <1>3, <1>4, <1>6, <2>1, <2>4
        <5>2. Len(op_list) - remaining' = k
          BY <1>2, <2>3
        <5> QED BY <5>1, <5>2
      <4> QED BY <4>1
    <3>2. SavesFirst'
      BY <1>9 DEF EditInv
    <3>3. \A i, j \in 1 .. n - 1 : i <= j => state_stack'[i] <= state_stack'[j]
      BY <1>4, <2>1, <2>4
    <3> QED BY <1>1, <1>4, <3>1, <3>2, <3>3 DEF Log!MarksInOrder, SavesFirst
  <2>6. \A t, d : Mark(t, d) => Mark(t, d)'
    BY <1>1, SameLog
  <2>7. ASSUME NEW i \in 1 .. n - 1
        PROVE  Mark(saved[i], Len(op_list) - state_stack[i])'
    <3>1. PICK t, d : t = saved[i] /\ d = Len(op_list) - state_stack[i]
      OBVIOUS
    <3>2. Mark(t, d)'
      BY <2>1, <2>4, <2>6, <3>1
    <3>3. t = saved'[i] /\ d = Len(op_list') - state_stack'[i]
      BY <1>1, <1>4, <1>5, <3>1
    <3> QED BY <3>2, <3>3 DEF Mark, GivesBack
  <2>8. Mark(target, remaining)' /\ target' # NoTree
    <3>1. PICK t, d : t = saved[n] /\ d = Len(op_list) - state_stack[n]
      OBVIOUS
    <3>2. Mark(t, d)'
      <4>1. n \in 1 .. n
        OBVIOUS
      <4> QED BY <2>1, <2>6, <3>1, <4>1
    <3>3. t = target' /\ d = remaining'
      BY <1>5, <1>6, <2>3, <3>1
    <3>4. saved[n] \in Tree
      BY <1>2, <1>3, ElementOfSeq
    <3> QED BY <1>5, <3>2, <3>3, <3>4, NoTreeAssumption DEF Mark, GivesBack
  <2> QED BY <1>5, <2>5, <2>7, <2>8 DEF PromiseInv, MarkInv
<1> QED BY <1>9, <1>10

\* flush_list keeps the invariant.
LEMMA FlushStep ==
  ASSUME EditInv, Log!HFlush, UNCHANGED <<edits, stray>>
  PROVE  EditInv' /\ (PromiseInv /\ intact' => PromiseInv')
<1>1. /\ remaining = 0 /\ op_list' = <<>> /\ trail' = <<>> /\ intact' = (intact /\ op_list = <<>>) /\ target' = NoTree
      /\ UNCHANGED <<tree, state_stack, memorizing, undoing, remaining, saved, edits, stray>>
  BY DEF Log!HFlush, Log!Flush, Log!Idle
<1>2. /\ op_list \in Seq(Op) /\ trail \in Seq(Tree) /\ saved \in Seq(Tree) /\ state_stack \in Seq(Nat)
      /\ Len(op_list) \in Nat /\ Len(trail) = Len(op_list)
      /\ Len(state_stack) \in Nat /\ Len(saved) = Len(state_stack)
      /\ memorizing = Len(state_stack) /\ undoing = FALSE
      /\ stray \in BOOLEAN /\ edits \in Nat /\ remaining \in 0 .. Len(op_list)
      /\ Len(state_stack) > 0 => state_stack[1] = 0
  BY Stacks
<1>3. Len(op_list') = 0 /\ Len(trail') = 0 /\ op_list' \in Seq(Op) /\ trail' \in Seq(Tree) /\ Levels' = {0}
  BY <1>1 DEF Levels
<1>4. /\ tree \in Tree /\ 0 \in Levels /\ RootAt(0) = tree.children[Root] /\ RootAt(0)' = tree.children[Root]
      /\ RootAt(0) \in Seq(1 .. tree.selects) /\ IsInjective(RootAt(0))
      /\ Level(tree, Range(RootAt(0)), {}, Range(RootAt(0)))
  <2>1. RootAt(0)' = tree'.children[Root]
    BY DEF RootAt
  <2> QED BY <1>1, <2>1, RootLists
<1>5. EditInv'
  <2>1. SoundTree(tree)'
    BY <1>1 DEF EditInv, SoundTree, Founded, Unmade
  <2>2. RootInv'
    BY <1>1, <1>3, <1>4 DEF RootInv
  <2>3. LevelInv'
    <3>1. SUFFICES Level(tree', Range(RootAt(0)'), Touched(op_list', 0), RootsTo(0)')
      BY <1>3 DEF LevelInv, Level, Parents, Types, Nested, Under, Touched, RootsTo, RootAt, TypesOf, Closed
    <3>2. Touched(op_list', 0) = {}
      BY DEF Touched
    <3>3. RootsTo(0)' = Range(RootAt(0)')
      <4>1. {Range(RootAt(k)') : k \in 0 .. 0} = {Range(RootAt(0)')}
        OBVIOUS
      <4> QED BY <4>1 DEF RootsTo
    <3> QED BY <1>1, <1>4, <3>2, <3>3
  <2>4. LogTypes' /\ Log!LengthsAgree' /\ Log!Recording' /\ SavesFirst'
    BY <1>1, <1>2, <1>3 DEF LogTypes, Log!LengthsAgree, Log!Recording, SavesFirst
  <2> QED BY <2>1, <2>2, <2>3, <2>4 DEF EditInv
<1>6. ASSUME PromiseInv, intact'
      PROVE  PromiseInv'
  <2>1. op_list' = op_list /\ trail' = trail
    <3>1. op_list = <<>>
      BY <1>1, <1>6
    <3>2. trail = <<>>
      BY <1>2, <3>1, EmptySeq
    <3> QED BY <1>1, <3>1, <3>2
  <2>2. \A t, d : Mark(t, d) => Mark(t, d)'
    BY <1>1, <2>1, SameLog
  <2>3. Log!MarksInOrder'
    BY <1>1, <1>6, <2>1 DEF PromiseInv, Log!MarksInOrder
  <2>4. ASSUME NEW i \in 1 .. Len(saved)
        PROVE  Mark(saved[i], Len(op_list) - state_stack[i])'
    <3>1. PICK t, d : t = saved[i] /\ d = Len(op_list) - state_stack[i]
      OBVIOUS
    <3>2. Mark(t, d)'
      BY <1>6, <2>2, <2>4, <3>1 DEF PromiseInv, MarkInv
    <3>3. t = saved'[i] /\ d = Len(op_list') - state_stack'[i]
      BY <1>1, <2>1, <3>1
    <3> QED BY <3>2, <3>3 DEF Mark, GivesBack
  <2> QED BY <1>1, <2>3, <2>4 DEF PromiseInv, MarkInv
<1> QED BY <1>5, <1>6

\* What was appended is taken off the end.
LEMMA TakenBack ==
  ASSUME NEW S, NEW b \in Seq(S), NEW e \in S, IsInjective(Append(b, e))
  PROVE  RemoveFirst(Append(b, e), e) = b /\ e \in Range(Append(b, e))
<1>1. PICK a, n : a = Append(b, e) /\ n = Len(b)
  OBVIOUS
<1>2. n \in Nat /\ a \in Seq(S) /\ Len(a) = n + 1 /\ a[n + 1] = e /\ \A i \in 1 .. n : a[i] = b[i]
  BY <1>1, LenProperties
<1>3. n + 1 \in 1 .. Len(a)
  BY <1>2
<1>4. RemoveFirst(a, a[n + 1]) = RemoveAt(a, n + 1)
  BY ONLY <1>1, <1>2, <1>3, IsInjective(Append(b, e)), RemoveFirstAt
<1>5. /\ RemoveAt(a, n + 1) \in Seq(S) /\ Len(RemoveAt(a, n + 1)) = n
      /\ \A i \in 1 .. n : RemoveAt(a, n + 1)[i] = IF i < n + 1 THEN a[i] ELSE a[i + 1]
  <2>1. /\ RemoveAt(a, n + 1) \in Seq(S) /\ Len(RemoveAt(a, n + 1)) = Len(a) - 1
        /\ \A i \in 1 .. Len(a) - 1 : RemoveAt(a, n + 1)[i] = IF i < n + 1 THEN a[i] ELSE a[i + 1]
    BY ONLY <1>2, <1>3, RemoveAtPlace
  <2>2. Len(a) - 1 = n
    BY <1>2
  <2> QED BY <2>1, <2>2
<1>6. RemoveAt(a, n + 1) = b
  <2>1. \A i \in 1 .. n : RemoveAt(a, n + 1)[i] = b[i]
    BY <1>2, <1>5
  <2> QED BY <1>1, <1>5, <2>1, SeqEqual
<1>7. e \in Range(a)
  BY <1>2, <1>3, ListRange
<1> QED BY <1>1, <1>2, <1>4, <1>6, <1>7

\* What was removed is put back in its place.
LEMMA PutBack ==
  ASSUME NEW S, NEW b \in Seq(S), NEW k \in 1 .. Len(b)
  PROVE  InsertAt(RemoveAt(b, k), k, b[k]) = b
<1>1. PICK a, n, e : a = RemoveAt(b, k) /\ n = Len(b) /\ e = b[k]
  OBVIOUS
<1>2. /\ n \in Nat /\ k \in 1 .. n /\ a \in Seq(S) /\ Len(a) = n - 1 /\ e \in S
      /\ \A i \in 1 .. n - 1 : a[i] = IF i < k THEN b[i] ELSE b[i + 1]
  BY <1>1, RemoveAtPlace, LenProperties, ElementOfSeq
<1>3. k \in 1 .. Len(a) + 1 /\ Len(a) + 1 = n
  BY <1>2
<1>4. PICK c : c = InsertAt(a, k, e)
  OBVIOUS
<1>5. /\ c \in Seq(S) /\ Len(c) = Len(a) + 1
      /\ \A i \in 1 .. Len(a) + 1 : c[i] = IF i < k THEN a[i] ELSE IF i = k THEN e ELSE a[i - 1]
  BY ONLY <1>2, <1>3, <1>4, InsertAtPlace
<1>6. ASSUME NEW i \in 1 .. n
      PROVE  c[i] = b[i]
  <2>1. CASE i < k
    <3>1. i \in 1 .. n - 1
      BY <1>2, <1>6, <2>1
    <3> QED BY <1>2, <1>3, <1>5, <1>6, <2>1, <3>1
  <2>2. CASE i = k
    BY <1>1, <1>3, <1>5, <1>6, <2>2
  <2>3. CASE i > k
    <3>1. i - 1 \in 1 .. n - 1 /\ ~(i - 1 < k) /\ (i - 1) + 1 = i /\ ~(i < k) /\ i # k
      BY <1>2, <1>6, <2>3
    <3>2. c[i] = a[i - 1]
      BY <1>3, <1>5, <1>6, <3>1
    <3> QED BY <1>2, <3>1, <3>2
  <2> QED BY <1>2, <1>6, <2>1, <2>2, <2>3
<1>7. c = b
  BY <1>1, <1>3, <1>5, <1>6, SeqEqual
<1> QED BY <1>1, <1>4, <1>7

\* A tree with another list in the root, and the root for parent of a SELECT.
Reparented(t, s, c) == [t EXCEPT !.parent[s] = Root, !.children[Root] = c]

\* The two fields that an undo() of a move writes.
LEMMA ReparentedIs ==
  ASSUME NEW t \in Tree, NEW s \in Select, NEW c \in Seq(Select), NEW u, u = Reparented(t, s, c)
  PROVE  /\ u \in Tree /\ u.children[Root] = c
         /\ \A v \in UnionNode : v # Root => u.children[v] = t.children[v]
         /\ u.parent[s] = Root /\ \A r \in Select : r # s => u.parent[r] = t.parent[r]
         /\ u.query = t.query /\ u.limit = t.limit /\ u.offset = t.offset
         /\ u.types = t.types /\ u.unions = t.unions /\ u.selects = t.selects
<1>1. Root \in UnionNode /\ t.children \in [UnionNode -> Seq(Select)] /\ t.parent \in [Select -> UnionNode \cup {None}]
  BY NodesAssumption DEF Tree, Root
<1> QED BY <1>1 DEF Tree, Reparented

\* The tree that undoing an operation makes.
IsUndone(u, t, op, before) ==
  /\ u \in Tree /\ u.children[Root] = before
  /\ \A v \in UnionNode : v # Root => u.children[v] = t.children[v]
  /\ \A r \in Select : u.parent[r] = IF Moves(op) /\ r = op.select THEN Root ELSE t.parent[r]
  /\ \A r \in Select : u.limit[r] = IF op.type = "SetLimit" /\ r = op.select THEN op.value ELSE t.limit[r]
  /\ \A r \in Select : u.offset[r] = IF op.type = "SetOffset" /\ r = op.select THEN op.value ELSE t.offset[r]
  /\ u.query = t.query /\ u.types = t.types /\ u.unions = t.unions /\ u.selects = t.selects

\* An undo() gives the list of SELECTs of before the edit, and does not raise.
LEMMA UndoneIs ==
  ASSUME NEW t \in Tree, NEW op \in Op, NEW before \in Seq(Select), IsInjective(t.children[Root]),
         RootEdit(op, before, t.children[Root]), NEW u, u = Undone(op, t)
  PROVE  /\ IsUndone(u, t, op, before) /\ ~Raises(op, t)
         /\ op.type = "SetLimit" => Good(op.value)
         /\ op.type = "SetOffset" => op.value >= 0
<1>1. op.select \in Select /\ Root \in UnionNode /\ t.children[Root] \in Seq(Select)
  BY NodesAssumption DEF Op, Tree, Root
<1>2. CASE op.type = "AppendSelect"
  <2>1. t.children[Root] = Append(before, op.select)
    BY <1>2 DEF RootEdit
  <2>2. /\ RemoveFirst(t.children[Root], op.select) = before
        /\ op.select \in Range(t.children[Root])
    BY <1>1, <2>1, TakenBack
  <2>3. u = Reparented(t, op.select, before)
    BY <1>2, <2>2 DEF Undone, Unappended, Reparented, Tree
  <2>4. /\ u \in Tree /\ u.children[Root] = before
        /\ \A v \in UnionNode : v # Root => u.children[v] = t.children[v]
        /\ u.parent[op.select] = Root /\ \A r \in Select : r # op.select => u.parent[r] = t.parent[r]
        /\ u.query = t.query /\ u.limit = t.limit /\ u.offset = t.offset
        /\ u.types = t.types /\ u.unions = t.unions /\ u.selects = t.selects
    BY ONLY <1>1, <2>3, t \in Tree, before \in Seq(Select), ReparentedIs
  <2> QED BY <1>2, <2>2, <2>4 DEF IsUndone, Moves, Raises
<1>3. CASE op.type = "RemoveSelect"
  <2>1. /\ op.origindex \in 1 .. Len(before) /\ before[op.origindex] = op.select
        /\ t.children[Root] = RemoveAt(before, op.origindex)
    BY <1>3 DEF RootEdit
  <2>2. InsertAt(t.children[Root], op.origindex, op.select) = before
    BY <2>1, PutBack
  <2>3. u = Reparented(t, op.select, before)
    BY <1>3, <2>2 DEF Undone, Unremoved, Reparented, Tree
  <2>4. /\ u \in Tree /\ u.children[Root] = before
        /\ \A v \in UnionNode : v # Root => u.children[v] = t.children[v]
        /\ u.parent[op.select] = Root /\ \A r \in Select : r # op.select => u.parent[r] = t.parent[r]
        /\ u.query = t.query /\ u.limit = t.limit /\ u.offset = t.offset
        /\ u.types = t.types /\ u.unions = t.unions /\ u.selects = t.selects
    BY ONLY <1>1, <2>3, t \in Tree, before \in Seq(Select), ReparentedIs
  <2> QED BY <1>3, <2>4 DEF IsUndone, Moves, Raises
<1>4. CASE op.type = "SetLimit"
  <2>1. op.value \in Int \cup {None} /\ t.children[Root] = before /\ Good(op.value)
    BY <1>4 DEF Op, RootEdit
  <2>2. u = [t EXCEPT !.limit[op.select] = op.value]
    BY <1>4 DEF Undone
  <2>3. t.limit \in [Select -> Int \cup {None}]
    BY DEF Tree
  <2>4. PICK s, x : s = op.select /\ x = op.value
    OBVIOUS
  <2>5. u = [t EXCEPT !.limit[s] = x] /\ s \in Select /\ x \in Int \cup {None}
    BY <1>1, <2>1, <2>2, <2>4
  <2>6. /\ u \in Tree /\ u.children = t.children /\ u.parent = t.parent /\ u.offset = t.offset
        /\ u.query = t.query /\ u.types = t.types /\ u.unions = t.unions /\ u.selects = t.selects
        /\ \A r \in Select : u.limit[r] = IF r = s THEN x ELSE t.limit[r]
    BY ONLY <2>3, <2>5, t \in Tree DEF Tree
  <2> QED BY <1>4, <2>1, <2>4, <2>6 DEF IsUndone, Moves, Raises
<1>5. CASE op.type = "SetOffset"
  <2>1. op.value \in Int /\ t.children[Root] = before /\ op.value >= 0
    BY <1>5 DEF Op, RootEdit
  <2>2. u = [t EXCEPT !.offset[op.select] = op.value]
    BY <1>5 DEF Undone
  <2>3. t.offset \in [Select -> Int]
    BY DEF Tree
  <2>4. PICK s, x : s = op.select /\ x = op.value
    OBVIOUS
  <2>5. u = [t EXCEPT !.offset[s] = x] /\ s \in Select /\ x \in Int
    BY <1>1, <2>1, <2>2, <2>4
  <2>6. /\ u \in Tree /\ u.children = t.children /\ u.parent = t.parent /\ u.limit = t.limit
        /\ u.query = t.query /\ u.types = t.types /\ u.unions = t.unions /\ u.selects = t.selects
        /\ \A r \in Select : u.offset[r] = IF r = s THEN x ELSE t.offset[r]
    BY ONLY <2>3, <2>5, t \in Tree DEF Tree
  <2> QED BY <1>5, <2>1, <2>4, <2>6 DEF IsUndone, Moves, Raises
<1> QED BY <1>2, <1>3, <1>4, <1>5 DEF Op

\* It is sound.
LEMMA UndoneSound ==
  ASSUME NEW t, SoundTree(t), NEW op \in Op, op.select <= t.selects, NEW before \in Seq(1 .. t.selects),
         IsInjective(before), NEW u, IsUndone(u, t, op, before),
         op.type = "SetLimit" => Good(op.value), op.type = "SetOffset" => op.value >= 0
  PROVE  SoundTree(u)
<1>1. \A s \in Select : Good(u.limit[s]) /\ u.offset[s] >= 0
  BY DEF SoundTree, IsUndone
<1>2. ASSUME NEW s \in Select, s > t.selects
      PROVE  u.parent[s] = None /\ u.limit[s] = None /\ u.offset[s] = 0
  <2>1. s # op.select
    <3>1. t.selects \in Nat /\ op.select \in Nat /\ s \in Nat
      BY NodesAssumption DEF SoundTree, Tree, Op
    <3> QED BY <1>2, <3>1
  <2> QED BY <1>2, <2>1 DEF SoundTree, Unmade, IsUndone
<1>3. u \in Tree /\ IsInjective(u.children[Root]) /\ u.children[Root] \in Seq(1 .. t.selects)
      /\ (\A v \in UnionNode : v # Root => u.children[v] = t.children[v])
      /\ u.query = t.query /\ u.unions = t.unions /\ u.selects = t.selects
  BY DEF IsUndone
<1> QED BY ONLY <1>1, <1>2, <1>3, SoundTree(t), OtherRootSound

\* The operation that undo() takes, and the tree that it makes.
LEMMA UndoFacts ==
  ASSUME EditInv, remaining > 0, NEW u, u = Undone(Head(op_list), tree)
  PROVE  /\ Len(op_list) \in Nat \ {0} /\ Head(op_list) = op_list[1] /\ op_list[1] \in Op
         /\ Tail(op_list) \in Seq(Op) /\ Len(Tail(op_list)) = Len(op_list) - 1
         /\ \A k \in 1 .. Len(op_list) - 1 : Tail(op_list)[k] = op_list[k + 1]
         /\ Tail(trail) \in Seq(Tree) /\ Len(Tail(trail)) = Len(op_list) - 1
         /\ \A k \in 1 .. Len(op_list) - 1 : Tail(trail)[k] = trail[k + 1]
         /\ SoundTree(u) /\ IsUndone(u, tree, op_list[1], RootAt(1))
         /\ ~Raises(Head(op_list), tree)
<1>1. /\ op_list \in Seq(Op) /\ trail \in Seq(Tree) /\ Len(op_list) \in Nat /\ Len(trail) = Len(op_list)
      /\ remaining \in 0 .. Len(op_list) /\ remaining \in Nat
  BY Stacks
<1>2. Len(op_list) \in Nat \ {0} /\ Len(op_list) > 0 /\ 1 \in 1 .. Len(op_list) /\ 1 \in 0 .. Len(op_list)
  BY <1>1
<1>3. /\ Head(op_list) = op_list[1] /\ op_list[1] \in Op
      /\ Tail(op_list) \in Seq(Op) /\ Len(Tail(op_list)) = Len(op_list) - 1
      /\ \A k \in 1 .. Len(op_list) - 1 : Tail(op_list)[k] = op_list[k + 1]
  BY ONLY <1>1, <1>2, PopHead
<1>4. /\ Tail(trail) \in Seq(Tree) /\ Len(Tail(trail)) = Len(trail) - 1
      /\ \A k \in 1 .. Len(trail) - 1 : Tail(trail)[k] = trail[k + 1]
  BY ONLY <1>1, <1>2, PopHead
<1>5. PICK op, before : op = op_list[1] /\ before = RootAt(1)
  OBVIOUS
<1>6. /\ tree \in Tree /\ op \in Op /\ before \in Seq(Select) /\ IsInjective(tree.children[Root])
      /\ before \in Seq(1 .. tree.selects) /\ IsInjective(before)
  <2>1. 1 \in Levels
    BY <1>2 DEF Levels
  <2> QED BY <1>3, <1>5, <2>1, RootLists
<1>7. RootEdit(op, before, tree.children[Root]) /\ op.select <= tree.selects
  <2>1. RootEdit(op_list[1], RootAt(1), RootAt(1 - 1)) /\ op_list[1].select <= tree.selects
    BY <1>2 DEF EditInv, RootInv
  <2>2. RootAt(1 - 1) = tree.children[Root]
    BY DEF RootAt
  <2> QED BY <1>5, <2>1, <2>2
<1>8. u = Undone(op, tree)
  BY <1>3, <1>5
<1>9. /\ IsUndone(u, tree, op, before) /\ ~Raises(op, tree)
      /\ op.type = "SetLimit" => Good(op.value)
      /\ op.type = "SetOffset" => op.value >= 0
  BY ONLY <1>6, <1>7, <1>8, UndoneIs
<1>10. SoundTree(u)
  <2>1. SoundTree(tree)
    BY DEF EditInv
  <2> QED BY ONLY <1>6, <1>7, <1>9, <2>1, UndoneSound
<1> QED BY <1>1, <1>2, <1>3, <1>4, <1>5, <1>9, <1>10

\* A level of the tree before, once the operation is undone.
LEMMA UndoLevel ==
  ASSUME NEW t, SoundTree(t), NEW op \in Op, NEW before, NEW u, IsUndone(u, t, op, before),
         NEW R \in SUBSET Select, NEW T, NEW O, Level(t, R, T, O), NEW T2 \in SUBSET T, NEW O2 \in SUBSET O,
         T = T2 \/ (Moves(op) /\ T = T2 \cup {op.select}), Moves(op) => op.select \in T
  PROVE  Level(u, R, T2, O2)
<1>1. /\ t \in Tree /\ u \in Tree /\ u.query = t.query /\ u.types = t.types
      /\ \A v \in UnionNode : v # Root => u.children[v] = t.children[v]
      /\ \A r \in Select : u.parent[r] = IF Moves(op) /\ r = op.select THEN Root ELSE t.parent[r]
  BY DEF SoundTree, IsUndone
<1>2. Under(t, R) \subseteq Select /\ Nested(t, R) \subseteq Select
  BY UnderIsLeast DEF Nested
<1>3. \A r \in Select : t.query[r] # None => t.query[r] \in UnionNode /\ t.query[r] # Root
  BY <1>1 DEF SoundTree, Tree
<1>4. \A r \in Under(t, R) :
        /\ u.query[r] = t.query[r] /\ u.types[r] = t.types[r]
        /\ t.query[r] # None => u.children[t.query[r]] = t.children[t.query[r]]
  BY <1>1, <1>2, <1>3
<1>5. \A r \in Nested(t, R) : r \notin T /\ r \notin O
  BY <1>1, LevelApart
<1>6. \A r \in Nested(t, R) : u.parent[r] = t.parent[r] /\ r \notin T2 /\ r \notin O2
  BY <1>1, <1>2, <1>5
<1>7. \A r \in R : u.parent[r] \in {Root, None} \/ r \in T2
  <2>1. \A r \in R : t.parent[r] \in {Root, None} \/ r \in T
    BY DEF Level, Parents
  <2> QED BY <1>1, <2>1
<1>8. R \in SUBSET R
  OBVIOUS
<1> QED BY ONLY <1>1, <1>4, <1>6, <1>7, <1>8, R \in SUBSET Select, Level(t, R, T, O), LevelStays

\* The lists of the root, one operation less.
LEMMA UndoRoots ==
  ASSUME EditInv, remaining > 0, tree' = Undone(Head(op_list), tree),
         op_list' = Tail(op_list), trail' = Tail(trail)
  PROVE  /\ Levels' = 0 .. Len(op_list) - 1
         /\ \A i \in Levels' : i + 1 \in Levels /\ RootAt(i)' = RootAt(i + 1) /\ RootsTo(i)' \subseteq RootsTo(i + 1)
<1>1. PICK n \in Nat \ {0} : n = Len(op_list)
  BY UndoFacts
<1>2. /\ Len(op_list') = n - 1 /\ tree'.children[Root] = RootAt(1)
      /\ \A k \in 1 .. n - 1 : trail'[k] = trail[k + 1]
  <2>1. IsUndone(tree', tree, op_list[1], RootAt(1))
    BY UndoFacts
  <2> QED BY <1>1, <2>1, UndoFacts DEF IsUndone
<1>3. Levels' = 0 .. n - 1 /\ Levels = 0 .. n
  BY <1>1, <1>2 DEF Levels
<1>4. ASSUME NEW i \in 0 .. n - 1
      PROVE  RootAt(i)' = RootAt(i + 1)
  <2>1. CASE i = 0
    <3>1. RootAt(0)' = tree'.children[Root]
      BY DEF RootAt
    <3> QED BY <1>2, <2>1, <3>1
  <2>2. CASE i # 0
    <3>1. i \in 1 .. n - 1 /\ i + 1 # 0
      BY <1>4, <2>2
    <3>2. RootAt(i)' = trail'[i].children[Root] /\ RootAt(i + 1) = trail[i + 1].children[Root]
      BY <2>2, <3>1 DEF RootAt
    <3> QED BY <1>2, <3>1, <3>2
  <2> QED BY <2>1, <2>2
<1>5. ASSUME NEW i \in 0 .. n - 1
      PROVE  RootsTo(i)' \subseteq RootsTo(i + 1)
  <2>1. \A k \in 0 .. i : k \in 0 .. n - 1 /\ k + 1 \in 0 .. i + 1
    BY <1>5
  <2>2. {Range(RootAt(k)') : k \in 0 .. i} \subseteq {Range(RootAt(k)) : k \in 0 .. i + 1}
    BY <1>4, <2>1
  <2> QED BY <2>2 DEF RootsTo
<1>6. \A i \in 0 .. n - 1 : i + 1 \in 0 .. n
  OBVIOUS
<1> QED BY <1>1, <1>3, <1>4, <1>5, <1>6

\* undo() keeps the invariant.
LEMMA UndoStep ==
  ASSUME EditInv, Log!HUndo, UNCHANGED <<edits, stray>>
  PROVE  EditInv' /\ (PromiseInv => PromiseInv')
<1>1. /\ remaining > 0 /\ tree' = Undone(Head(op_list), tree) /\ op_list' = Tail(op_list)
      /\ trail' = Tail(trail) /\ undoing' = FALSE /\ remaining' = remaining - 1
      /\ UNCHANGED <<state_stack, memorizing, saved, target, intact, edits, stray>>
  BY DEF Log!HUndo, Log!Undo
<1>2. PICK n \in Nat \ {0} : n = Len(op_list)
  BY <1>1, UndoFacts
<1>3. PICK op : op = op_list[1]
  OBVIOUS
<1>4. /\ op \in Op /\ op_list' \in Seq(Op) /\ Len(op_list') = n - 1
      /\ \A k \in 1 .. n - 1 : op_list'[k] = op_list[k + 1]
      /\ trail' \in Seq(Tree) /\ Len(trail') = n - 1
      /\ SoundTree(tree') /\ IsUndone(tree', tree, op, RootAt(1))
  BY <1>1, <1>2, <1>3, UndoFacts
<1>5. Levels' = 0 .. n - 1 /\ Levels = 0 .. n
  BY <1>1, <1>2, <1>4 DEF Levels
<1>6. \A i \in 0 .. n - 1 : i + 1 \in Levels /\ RootAt(i)' = RootAt(i + 1) /\ RootsTo(i)' \subseteq RootsTo(i + 1)
  BY <1>1, <1>5, UndoRoots
<1>7. /\ state_stack \in Seq(Nat) /\ saved \in Seq(Tree) /\ Len(trail) = n
      /\ Len(state_stack) \in Nat /\ Len(saved) = Len(state_stack)
      /\ memorizing = Len(state_stack) /\ undoing = FALSE
      /\ stray \in BOOLEAN /\ edits \in Nat /\ remaining \in 0 .. n
      /\ \A i \in 1 .. Len(state_stack) : state_stack[i] \in Nat
      /\ Len(state_stack) = 0 => remaining = n
      /\ Len(state_stack) > 0 => state_stack[1] = 0
  BY <1>2, Stacks
<1>8. tree'.selects = tree.selects
  BY <1>4 DEF IsUndone
<1>9. EditInv'
  <2>1. SoundTree(tree)'
    BY <1>4 DEF SoundTree, Founded, Unmade
  <2>2. RootInv'
    <3>1. ASSUME NEW k \in 1 .. n - 1
          PROVE  RootEdit(op_list'[k], RootAt(k)', RootAt(k - 1)') /\ op_list'[k].select <= tree'.selects
      <4>1. /\ k + 1 \in 1 .. Len(op_list) /\ k \in 0 .. n - 1 /\ k - 1 \in 0 .. n - 1
            /\ (k + 1) - 1 = k /\ (k - 1) + 1 = k
        BY <1>2, <3>1
      <4>2. RootEdit(op_list[k + 1], RootAt(k + 1), RootAt((k + 1) - 1)) /\ op_list[k + 1].select <= tree.selects
        BY <4>1 DEF EditInv, RootInv
      <4>3. RootAt(k)' = RootAt(k + 1) /\ RootAt(k - 1)' = RootAt((k - 1) + 1)
        BY <1>6, <4>1
      <4> QED BY <1>4, <1>8, <3>1, <4>1, <4>2, <4>3
    <3>2. ASSUME NEW i \in 0 .. n - 1
          PROVE  RootAt(i)' \in Seq(1 .. tree'.selects) /\ IsInjective(RootAt(i)')
      BY <1>6, <1>8 DEF EditInv, RootInv
    <3> QED BY <1>4, <1>5, <3>1, <3>2 DEF RootInv
  <2>3. LevelInv'
    <3>1. SUFFICES ASSUME NEW j \in Levels'
                   PROVE  Level(tree', Range(RootAt(j)'), Touched(op_list', j), RootsTo(j)')
      BY DEF LevelInv, Level, Parents, Types, Nested, Under, Touched, RootsTo, RootAt, TypesOf, Closed
    <3>2. j \in 0 .. n - 1 /\ j + 1 \in Levels /\ RootAt(j)' = RootAt(j + 1) /\ RootsTo(j)' \subseteq RootsTo(j + 1)
      BY <1>5, <1>6, <3>1
    <3>3. PICK R, T, O, T2, O2 : /\ R = Range(RootAt(j + 1)) /\ T = Touched(op_list, j + 1) /\ O = RootsTo(j + 1)
                                 /\ T2 = Touched(op_list', j) /\ O2 = RootsTo(j)'
      OBVIOUS
    <3>4. R \in SUBSET Select /\ Level(tree, R, T, O)
      BY <3>2, <3>3, RootLists
    <3>5. /\ T2 \subseteq T /\ (Moves(op) => T = T2 \cup {op.select}) /\ (~Moves(op) => T = T2)
      <4>1. Len(op_list) \in Nat \ {0} /\ (\A k \in 1 .. Len(op_list) - 1 : op_list'[k] = op_list[k + 1])
            /\ j \in 0 .. Len(op_list) - 1
        BY <1>2, <1>4, <3>2
      <4>2. /\ Touched(op_list', j) \subseteq Touched(op_list, j + 1)
            /\ Moves(op_list[1]) => Touched(op_list, j + 1) = Touched(op_list', j) \cup {op_list[1].select}
            /\ ~Moves(op_list[1]) => Touched(op_list, j + 1) = Touched(op_list', j)
        BY ONLY <4>1, LessTouched
      <4> QED BY <1>3, <3>3, <4>2
    <3>6. T2 \in SUBSET T /\ O2 \in SUBSET O
          /\ (T = T2 \/ (Moves(op) /\ T = T2 \cup {op.select})) /\ (Moves(op) => op.select \in T)
      BY <3>2, <3>3, <3>5
    <3>7. SoundTree(tree) /\ op \in Op /\ IsUndone(tree', tree, op, RootAt(1))
      BY <1>4 DEF EditInv
    <3>8. Level(tree', R, T2, O2)
      BY ONLY <3>4, <3>6, <3>7, UndoLevel
    <3> QED BY <3>2, <3>3, <3>8
  <2>4. remaining' \in 0 .. n - 1
    BY <1>1, <1>7
  <2>5. LogTypes' /\ Log!LengthsAgree' /\ Log!Recording'
    <3>1. remaining' \in Levels'
      BY <1>5, <2>4
    <3> QED BY <1>1, <1>4, <1>7, <3>1 DEF LogTypes, Log!LengthsAgree, Log!Recording
  <2>6. SavesFirst'
    BY <1>1, <1>4, <1>7 DEF SavesFirst
  <2> QED BY <2>1, <2>2, <2>3, <2>5, <2>6 DEF EditInv
<1>10. ASSUME NEW t, NEW d \in 1 .. n, Mark(t, d)
       PROVE  Mark(t, d - 1)'
  <2>1. SoundTree(t) /\ t.selects <= tree.selects /\ t.children[Root] = RootAt(d) /\ (~stray => GivesBack(t, d))
    BY <1>10 DEF Mark
  <2>2. d - 1 \in 0 .. n - 1 /\ (d - 1) + 1 = d
    OBVIOUS
  <2>3. d - 1 \in Levels' /\ t.children[Root] = RootAt(d - 1)' /\ t.selects <= tree'.selects
    BY <1>5, <1>6, <1>8, <2>1, <2>2
  <2>4. /\ tree \in Tree /\ tree'.query = tree.query
        /\ \A v \in UnionNode : v # Root => tree'.children[v] = tree.children[v]
        /\ \A r \in Select :
             /\ tree'.limit[r] = IF op.type = "SetLimit" /\ r = op.select THEN op.value ELSE tree.limit[r]
             /\ tree'.offset[r] = IF op.type = "SetOffset" /\ r = op.select THEN op.value ELSE tree.offset[r]
    BY <1>4 DEF IsUndone, EditInv, SoundTree
  <2>5. ASSUME ~stray', NEW x \in Under(t, Range(t.children[Root]))
        PROVE  /\ tree'.query[x] = t.query[x]
               /\ t.query[x] # None => tree'.children[t.query[x]] = t.children[t.query[x]]
               /\ BackTo(op_list', "SetLimit", x, d - 1, tree'.limit[x], t.limit[x])
               /\ BackTo(op_list', "SetOffset", x, d - 1, tree'.offset[x], t.offset[x])
    <3>1. /\ tree.query[x] = t.query[x]
          /\ t.query[x] # None => tree.children[t.query[x]] = t.children[t.query[x]]
          /\ BackTo(op_list, "SetLimit", x, d, tree.limit[x], t.limit[x])
          /\ BackTo(op_list, "SetOffset", x, d, tree.offset[x], t.offset[x])
      BY <1>1, <2>1, <2>5 DEF GivesBack
    <3>2. x \in Select
      BY <2>5 DEF Under
    <3>3. t.query[x] # None => t.query[x] \in UnionNode /\ t.query[x] # Root
      BY <2>1, <3>2 DEF SoundTree, Tree
    <3>4. Len(op_list) \in Nat \ {0} /\ (\A k \in 1 .. Len(op_list) - 1 : op_list'[k] = op_list[k + 1])
          /\ d \in 1 .. Len(op_list)
      BY <1>2, <1>4, <1>10
    <3>5. /\ tree'.limit[x] = IF op_list[1].type = "SetLimit" /\ op_list[1].select = x THEN op_list[1].value ELSE tree.limit[x]
          /\ tree'.offset[x] = IF op_list[1].type = "SetOffset" /\ op_list[1].select = x THEN op_list[1].value ELSE tree.offset[x]
      BY <1>3, <2>4, <3>2
    <3>6. BackTo(op_list', "SetLimit", x, d - 1, tree'.limit[x], t.limit[x])
      BY ONLY <3>1, <3>4, <3>5, BackNearer
    <3>7. BackTo(op_list', "SetOffset", x, d - 1, tree'.offset[x], t.offset[x])
      BY ONLY <3>1, <3>4, <3>5, BackNearer
    <3> QED BY <2>4, <3>1, <3>3, <3>6, <3>7
  <2>6. ~stray' => GivesBack(t, d - 1)'
    BY <2>5 DEF GivesBack, Under, BackTo, Closed
  <2> QED BY <2>1, <2>3, <2>6 DEF Mark, SoundTree, Founded, Unmade
<1>11. ASSUME PromiseInv
       PROVE  PromiseInv'
  <2>1. /\ \A i \in 1 .. Len(state_stack) : state_stack[i] <= n - remaining
        /\ \A i, j \in 1 .. Len(state_stack) : i <= j => state_stack[i] <= state_stack[j]
        /\ \A i \in 1 .. Len(saved) : Mark(saved[i], n - state_stack[i])
        /\ target # NoTree => Mark(target, remaining)
        /\ remaining > 0 => target # NoTree
    BY <1>2, <1>11 DEF PromiseInv, Log!MarksInOrder, MarkInv
  <2>2. Log!MarksInOrder'
    <3>1. Len(op_list') - remaining' = n - remaining
      BY <1>1, <1>4, <1>7
    <3>2. SavesFirst'
      BY <1>9 DEF EditInv
    <3> QED BY <1>1, <2>1, <3>1, <3>2 DEF Log!MarksInOrder, SavesFirst
  <2>3. ASSUME NEW i \in 1 .. Len(saved)
        PROVE  Mark(saved[i], Len(op_list) - state_stack[i])'
    <3>1. PICK t, d : t = saved[i] /\ d = n - state_stack[i]
      OBVIOUS
    <3>2. d \in 1 .. n
      <4>1. PICK k \in Nat : k = state_stack[i]
        BY <1>7, <2>3
      <4>2. k <= n - remaining /\ remaining \in 1 .. n
        BY <1>1, <1>7, <2>1, <2>3, <4>1
      <4> QED BY <3>1, <4>1, <4>2
    <3>3. Mark(t, d - 1)'
      BY <1>10, <2>1, <2>3, <3>1, <3>2
    <3>4. t = saved'[i] /\ d - 1 = Len(op_list') - state_stack'[i]
      <4>1. state_stack[i] \in Nat
        BY <1>7, <2>3
      <4> QED BY <1>1, <1>4, <3>1, <4>1
    <3> QED BY <3>3, <3>4 DEF Mark, GivesBack
  <2>4. Mark(target, remaining)' /\ target' # NoTree
    <3>1. PICK t, d : t = target /\ d = remaining
      OBVIOUS
    <3>2. d \in 1 .. n /\ Mark(t, d) /\ target # NoTree
      BY <1>1, <1>7, <2>1, <3>1
    <3>3. Mark(t, d - 1)'
      BY <1>10, <3>2
    <3>4. t = target' /\ d - 1 = remaining'
      BY <1>1, <3>1
    <3> QED BY <1>1, <3>2, <3>3, <3>4 DEF Mark, GivesBack
  <2>5. MarkInv'
    <3>1. Len(saved)' = Len(saved)
      BY <1>1
    <3> QED BY <2>3, <2>4, <3>1 DEF MarkInv
  <2> QED BY <2>2, <2>5 DEF PromiseInv
<1> QED BY <1>9, <1>11

\* What is below the root has been made.
LEMMA BelowRoot ==
  ASSUME NEW t, SoundTree(t)
  PROVE  /\ SelectsBelow(t, Root) = Under(t, Range(t.children[Root]))
         /\ \A s \in SelectsBelow(t, Root) : s \in Select /\ s <= t.selects
<1>1. /\ t \in Tree /\ Root \in UnionNode /\ t.children[Root] \in Seq(1 .. t.selects) /\ t.selects \in Nat
      /\ t.children[Root] \in Seq(Select)
  BY NodesAssumption DEF SoundTree, Tree, Root, Unmade
<1>2. Range(t.children[Root]) \in SUBSET Select /\ Range(t.children[Root]) \subseteq 1 .. t.selects
  BY <1>1, ListRange
<1>3. SelectsBelow(t, Root) = Under(t, Range(t.children[Root]))
  BY <1>1, SelectsBelowIs DEF SoundTree
<1>4. ASSUME NEW s \in Under(t, Range(t.children[Root]))
      PROVE  s \in Select /\ s <= t.selects
  <2>1. s \in Select /\ s \in Nat
    <3>1. s \in Select
      BY <1>4 DEF Under
    <3> QED BY <3>1, NodesAssumption
  <2>2. ASSUME s > t.selects
        PROVE  FALSE
    <3>1. s \notin Nested(t, Range(t.children[Root]))
      BY <1>1, <1>2, <2>1, <2>2, UnderNew DEF SoundTree
    <3>2. s \in Range(t.children[Root])
      BY <1>1, <1>2, <1>4, <3>1, UnderOrNested
    <3> QED BY <1>1, <1>2, <2>2, <3>2
  <2> QED BY <1>1, <2>1, <2>2
<1> QED BY <1>3, <1>4

\* Operations that raise are not undone while the invariant holds.
LEMMA NothingRaises ==
  ASSUME EditInv, remaining > 0
  PROVE  ~Raises(Head(op_list), tree)
<1>1. PICK u : u = Undone(Head(op_list), tree)
  OBVIOUS
<1> QED BY <1>1, UndoFacts

\* The invariant holds of the parsed trees.
LEMMA UnionInvInit ==
  ASSUME Init
  PROVE  UnionInv
<1>1. /\ tree \in ParsedTrees /\ op_list = <<>> /\ state_stack = <<>> /\ memorizing = 0 /\ undoing = FALSE
      /\ remaining = 0 /\ saved = <<>> /\ target = NoTree /\ trail = <<>> /\ intact = TRUE
      /\ edits = 0 /\ stray = FALSE
  BY DEF Init, Log!MgrInit, Log!HistoryInit
<1>2. /\ tree \in Tree /\ IsForest(tree) /\ Unmade(tree)
      /\ \A u \in UnionNode : \A s \in Range(tree.children[u]) : tree.parent[s] = u
      /\ \A s \in Select :
           /\ Good(tree.limit[s]) /\ tree.offset[s] >= 0
           /\ tree.query[s] # None => tree.types[s] \subseteq TypesOf(tree, tree.query[s])
  BY <1>1, ParsedAssumption
<1>3. SoundTree(tree)
  <2>1. Founded(tree)
    <3>1. SUFFICES ASSUME NEW W \in SUBSET (UnionNode \ {Root}), W # {}
                   PROVE  \E u \in W : \A s \in Range(tree.children[u]) : tree.query[s] \notin W
      BY DEF Founded
    <3>2. W \in SUBSET UnionNode
      OBVIOUS
    <3> QED BY <1>2, <3>1, <3>2 DEF IsForest
  <2> QED BY <1>2, <2>1 DEF SoundTree, IsForest
<1>4. Root \in UnionNode /\ tree.children[Root] \in Seq(Select) /\ Range(tree.children[Root]) \in SUBSET Select
  <2>1. Root \in UnionNode /\ tree.children[Root] \in Seq(Select)
    BY <1>2, NodesAssumption DEF Tree, Root
  <2> QED BY <2>1, ListRange
<1>5. Len(op_list) = 0 /\ Len(state_stack) = 0 /\ Len(saved) = 0 /\ Len(trail) = 0 /\ Levels = {0}
  BY <1>1 DEF Levels
<1>6. RootAt(0) = tree.children[Root] /\ Touched(op_list, 0) = {} /\ RootsTo(0) = Range(RootAt(0))
  <2>1. {Range(RootAt(k)) : k \in 0 .. 0} = {Range(RootAt(0))}
    OBVIOUS
  <2> QED BY <2>1 DEF RootAt, Touched, RootsTo
<1>7. PICK R : R = Range(tree.children[Root])
  OBVIOUS
<1>8. Under(tree, R) \subseteq Select
  BY <1>4, <1>7, UnderIsLeast
<1>9. \A s \in Select : tree.query[s] # None => tree.query[s] \in UnionNode /\ tree.query[s] # Root
  BY <1>2 DEF Tree, IsForest
<1>10. Level(tree, R, {}, R)
  <2>1. Parents(tree, R, {})
    BY <1>2, <1>4, <1>7, <1>8, <1>9 DEF Parents
  <2>2. Nested(tree, R) \cap R = {}
    BY <1>2, <1>4, <1>7, <1>8, <1>9 DEF Nested, IsForest
  <2>3. Types(tree, R)
    BY <1>2, <1>8 DEF Types
  <2> QED BY <2>1, <2>2, <2>3 DEF Level
<1>11. RootInv /\ LevelInv
  <2>1. RootAt(0) \in Seq(1 .. tree.selects) /\ IsInjective(RootAt(0))
    BY <1>2, <1>4, <1>6 DEF Unmade, IsForest
  <2>2. \A i \in 1 .. Len(op_list) : FALSE
    BY <1>5
  <2>3. RootInv
    BY <1>5, <2>1, <2>2 DEF RootInv
  <2>4. LevelInv
    <3>1. SUFFICES Level(tree, Range(RootAt(0)), Touched(op_list, 0), RootsTo(0))
      BY <1>5 DEF LevelInv
    <3> QED BY <1>6, <1>7, <1>10
  <2> QED BY <2>3, <2>4
<1>12. LogTypes /\ Log!LengthsAgree /\ Log!Recording /\ SavesFirst
  <2>1. op_list \in Seq(Op) /\ trail \in Seq(Tree) /\ saved \in Seq(Tree) /\ state_stack \in Seq(Nat)
    BY <1>1
  <2>2. LogTypes
    <3>1. memorizing \in Int /\ edits \in Nat /\ remaining \in Levels
      BY <1>1, <1>5
    <3>2. stray \in BOOLEAN
      BY <1>1
    <3> QED BY <2>1, <3>1, <3>2 DEF LogTypes
  <2>3. Log!LengthsAgree /\ Log!Recording
    BY <1>1, <1>5 DEF Log!LengthsAgree, Log!Recording
  <2>4. SavesFirst
    BY <1>1, <1>5 DEF SavesFirst
  <2> QED BY <2>2, <2>3, <2>4
<1>13. EditInv
  BY <1>3, <1>11, <1>12 DEF EditInv
<1>14. PromiseInv
  BY <1>1, <1>5 DEF PromiseInv, Log!MarksInOrder, MarkInv
<1> QED BY <1>1, <1>13, <1>14 DEF UnionInv

\* An edit keeps the invariant.
LEMMA EditStep ==
  ASSUME EditInv,
         \/ \E field \in Field : \E value \in Values(field) :
              \/ SetBound(field, value)
              \/ \E s \in Select : SetSelectBound(s, field, value)
         \/ AppendSelect
         \/ \E i \in DOMAIN tree.children[Root] : RemoveSelect(i)
         \/ \E s \in Select, types \in SUBSET Etype : SetPossibleTypes(s, types)
  PROVE  EditInv' /\ (PromiseInv => PromiseInv') /\ intact' = intact
<1>1. ASSUME NEW field \in Field, NEW value \in Values(field), SetBound(field, value)
      PROVE  EditInv' /\ (PromiseInv => PromiseInv') /\ intact' = intact
  <2>1. intact' = intact
    BY <1>1 DEF SetBound, Perform
  <2> QED BY <1>1, <2>1, SetBoundStep
<1>2. ASSUME NEW field \in Field, NEW value \in Values(field), NEW s \in Select, SetSelectBound(s, field, value)
      PROVE  EditInv' /\ (PromiseInv => PromiseInv') /\ intact' = intact
  <2>1. PICK edit : edit = SetOn(tree, s, field, value)
    OBVIOUS
  <2>2. Perform(edit, s) /\ IsEdit(edit, SetOn(tree, s, field, value)) /\ ~Refused(field, value)
    BY <1>2, <2>1 DEF SetSelectBound, IsEdit
  <2>3. s <= tree.selects
    <3>1. SoundTree(tree) /\ s \in SelectsBelow(tree, Root)
      BY <1>2 DEF EditInv, SetSelectBound
    <3> QED BY <3>1, BelowRoot
  <2>4. intact' = intact
    BY <2>2 DEF Perform
  <2>5. EditInv' /\ (PromiseInv => PromiseInv')
    BY ONLY <2>2, <2>3, EditInv, field \in Field, value \in Values(field), s \in Select, SetStep
  <2> QED BY <2>4, <2>5
<1>3. ASSUME AppendSelect
      PROVE  EditInv' /\ (PromiseInv => PromiseInv') /\ intact' = intact
  <2>1. intact' = intact
    BY <1>3 DEF AppendSelect, Perform
  <2> QED BY <1>3, <2>1, AppendStep
<1>4. ASSUME NEW i \in DOMAIN tree.children[Root], RemoveSelect(i)
      PROVE  EditInv' /\ (PromiseInv => PromiseInv') /\ intact' = intact
  <2>1. intact' = intact
    BY <1>4 DEF RemoveSelect, Perform
  <2> QED BY <1>4, <2>1, RemoveStep
<1>5. ASSUME NEW s \in Select, NEW types \in SUBSET Etype, SetPossibleTypes(s, types)
      PROVE  EditInv' /\ (PromiseInv => PromiseInv') /\ intact' = intact
  <2>1. intact' = intact
    BY <1>5 DEF SetPossibleTypes
  <2> QED BY <1>5, <2>1, NarrowStep
<1> QED BY <1>1, <1>2, <1>3, <1>4, <1>5

\* Every step keeps the invariant.
LEMMA UnionInvStep ==
  ASSUME UnionInv, [Next]_vars
  PROVE  UnionInv'
<1>1. CASE UNCHANGED vars
  <2>1. /\ UNCHANGED <<tree, op_list, state_stack, memorizing, undoing, remaining>>
        /\ UNCHANGED <<saved, target, trail, intact, edits, stray>>
    BY <1>1 DEF vars, Log!hvars, Log!vars, Log!mgr, Log!history
  <2>2. EditInv => EditInv'
    <3>1. ASSUME EditInv
          PROVE  EditInv'
      <4>1. SoundTree(tree)' /\ RootInv' /\ LevelInv'
        BY <2>1, <3>1, SameLog
      <4> QED BY <2>1, <3>1, <4>1 DEF EditInv, LogTypes, Levels, Log!LengthsAgree, Log!Recording, SavesFirst
    <3> QED BY <3>1
  <2>3. EditInv /\ PromiseInv => PromiseInv'
    <3>1. SUFFICES ASSUME EditInv, PromiseInv
                   PROVE  PromiseInv'
      OBVIOUS
    <3>2. \A t, d : Mark(t, d) => Mark(t, d)'
      BY <2>1, <3>1, SameLog
    <3>3. Log!MarksInOrder'
      BY <2>1, <3>1 DEF PromiseInv, Log!MarksInOrder
    <3>4. ASSUME NEW t, NEW d, NEW t2, NEW d2, Mark(t, d), t2 = t, d2 = d
          PROVE  Mark(t2, d2)'
      BY <3>2, <3>4
    <3>5. ASSUME NEW i \in 1 .. Len(saved)
          PROVE  Mark(saved[i], Len(op_list) - state_stack[i])'
      <4>1. PICK t, d : t = saved[i] /\ d = Len(op_list) - state_stack[i]
        OBVIOUS
      <4>2. Mark(t, d)'
        BY <3>1, <3>2, <3>5, <4>1 DEF PromiseInv, MarkInv
      <4>3. t = saved'[i] /\ d = Len(op_list') - state_stack'[i]
        BY <2>1, <4>1
      <4> QED BY <4>2, <4>3 DEF Mark, GivesBack
    <3>6. (target # NoTree => Mark(target, remaining))'
      <4>1. PICK t, d : t = target /\ d = remaining
        OBVIOUS
      <4>2. t # NoTree => Mark(t, d)'
        BY <3>1, <3>2, <4>1 DEF PromiseInv, MarkInv
      <4>3. t = target' /\ d = remaining'
        BY <2>1, <4>1
      <4> QED BY <4>2, <4>3 DEF Mark, GivesBack
    <3>7. (remaining > 0 => target # NoTree)' /\ Len(saved)' = Len(saved)
      BY <2>1, <3>1 DEF PromiseInv, MarkInv
    <3>8. MarkInv'
      BY <3>5, <3>6, <3>7 DEF MarkInv
    <3> QED BY <3>3, <3>8 DEF PromiseInv
  <2>4. intact' = intact
    BY <2>1
  <2> QED BY <2>2, <2>3, <2>4 DEF UnionInv, Balanced
<1>2. CASE \/ \E field \in Field : \E value \in Values(field) :
                \/ SetBound(field, value)
                \/ \E s \in Select : SetSelectBound(s, field, value)
           \/ AppendSelect
           \/ \E i \in DOMAIN tree.children[Root] : RemoveSelect(i)
           \/ \E s \in Select, types \in SUBSET Etype : SetPossibleTypes(s, types)
  <2>1. CASE Balanced
    <3>1. EditInv
      BY <2>1 DEF UnionInv
    <3>2. EditInv' /\ (PromiseInv => PromiseInv') /\ intact' = intact
      BY ONLY <1>2, <3>1, EditStep
    <3> QED BY <3>2 DEF UnionInv
  <2>2. CASE ~Balanced
    <3>0. ASSUME NEW edit, NEW s, Perform(edit, s)
          PROVE  intact' = intact
      BY <3>0 DEF Perform
    <3>1. intact' = intact
      <4>1. ASSUME NEW field \in Field, NEW value \in Values(field), SetBound(field, value)
            PROVE  intact' = intact
        BY <3>0, <4>1 DEF SetBound
      <4>2. ASSUME NEW field \in Field, NEW value \in Values(field), NEW s \in Select, SetSelectBound(s, field, value)
            PROVE  intact' = intact
        BY <3>0, <4>2 DEF SetSelectBound
      <4>3. ASSUME AppendSelect
            PROVE  intact' = intact
        BY <3>0, <4>3 DEF AppendSelect
      <4>4. ASSUME NEW i \in DOMAIN tree.children[Root], RemoveSelect(i)
            PROVE  intact' = intact
        BY <3>0, <4>4 DEF RemoveSelect
      <4>5. ASSUME NEW s \in Select, NEW types \in SUBSET Etype, SetPossibleTypes(s, types)
            PROVE  intact' = intact
        BY <4>5 DEF SetPossibleTypes
      <4> QED BY ONLY <1>2, <4>1, <4>2, <4>3, <4>4, <4>5
    <3> QED BY <2>2, <3>1 DEF UnionInv, Balanced
  <2> QED BY <2>1, <2>2
<1>3. CASE Log!HManager /\ UNCHANGED <<edits, stray>>
  <2>1. intact' \in BOOLEAN /\ (intact' => intact)
    <3>1. CASE Log!HSaveState
      BY <3>1 DEF Log!HSaveState, UnionInv
    <3>2. CASE Log!HRecover
      BY <3>2 DEF Log!HRecover, UnionInv
    <3>3. CASE Log!HRecoverRefused
      BY <3>3 DEF Log!HRecoverRefused
    <3>4. CASE Log!HUndo
      BY <3>4 DEF Log!HUndo, UnionInv
    <3>5. CASE Log!HUndoRaises
      BY <3>5 DEF Log!HUndoRaises, UnionInv
    <3>6. CASE Log!HFlush
      BY <3>6 DEF Log!HFlush, UnionInv
    <3> QED BY <1>3, <3>1, <3>2, <3>3, <3>4, <3>5, <3>6 DEF Log!HManager
  <2>2. CASE ~Balanced
    BY <2>1, <2>2 DEF UnionInv, Balanced
  <2>3. CASE Balanced
    <3>1. EditInv /\ (intact => PromiseInv)
      BY <2>3 DEF UnionInv
    <3>2. CASE Log!HRecoverRefused
      <4>1. memorizing <= 0 /\ memorizing > -MaxUnbalanced /\ intact' = FALSE
        BY <3>2 DEF Log!HRecoverRefused, Log!RecoverRefused
      <4>2. memorizing \in Nat
        BY <3>1, Stacks
      <4>3. MaxUnbalanced # 0
        BY <4>1, <4>2
      <4> QED BY <4>1, <4>3 DEF UnionInv, Balanced
    <3>3. CASE Log!HUndoRaises
      <4>1. remaining > 0 /\ Raises(Head(op_list), tree)
        BY <3>3 DEF Log!HUndoRaises, Log!UndoRaises
      <4> QED BY <3>1, <4>1, NothingRaises
    <3>4. CASE Log!HSaveState \/ Log!HRecover \/ Log!HUndo \/ Log!HFlush
      <4>1. EditInv' /\ (PromiseInv /\ intact' => PromiseInv')
        BY ONLY <1>3, <3>1, <3>4, SaveStep, RecoverStep, UndoStep, FlushStep
      <4> QED BY <2>1, <3>1, <4>1 DEF UnionInv
    <3> QED BY <1>3, <3>2, <3>3, <3>4 DEF Log!HManager
  <2> QED BY <2>2, <2>3
<1> QED BY <1>1, <1>2, <1>3 DEF Next

\* The invariant, whatever the client does.
THEOREM UnionInvAlways == Spec => []UnionInv
<1>1. Init => UnionInv
  BY UnionInvInit
<1>2. UnionInv /\ [Next]_vars => UnionInv'
  BY UnionInvStep
<1> QED BY <1>1, <1>2, PTL DEF Spec

\* The union of what is below the root is the only one that has it.
LEMMA OneUnion ==
  ASSUME EditInv, NEW s \in SelectsBelow(tree, Root)
  PROVE  tree.parent[s] = UnionOf(tree, s) \/ (tree.parent[s] = None /\ UnionOf(tree, s) = Root)
<1>1. PICK R, X : R = Range(tree.children[Root]) /\ X = SelectsBelow(tree, Root)
  OBVIOUS
<1>2. SoundTree(tree)
  BY DEF EditInv
<1>3. tree \in Tree /\ Root \in UnionNode /\ R \in SUBSET Select /\ Level(tree, R, {}, R)
  <2>1. /\ tree \in Tree /\ Root \in UnionNode /\ 0 \in Levels /\ RootAt(0) = tree.children[Root]
        /\ \A i \in Levels : /\ Range(RootAt(i)) \in SUBSET Select
                             /\ Level(tree, Range(RootAt(i)), Touched(op_list, i), RootsTo(i))
        /\ Touched(op_list, 0) = {} /\ RootsTo(0) = Range(RootAt(0))
    BY RootLists
  <2>2. Level(tree, Range(RootAt(0)), Touched(op_list, 0), RootsTo(0))
    BY <2>1
  <2> QED BY <1>1, <2>1, <2>2
<1>4. X = Under(tree, R) /\ X \subseteq Select /\ X = R \cup Nested(tree, R)
  BY <1>1, <1>2, <1>3, BelowRoot, UnderOrNested
<1>5. \A r \in X : tree.query[r] # None => tree.query[r] \in UnionNode
  BY <1>3, <1>4 DEF Tree
<1>6. PICK unions : unions = ({Root} \cup {tree.query[r] : r \in X}) \ {None}
  OBVIOUS
<1>7. UnionOf(tree, s) = CHOOSE u \in unions : s \in Range(tree.children[u])
  BY <1>1, <1>6 DEF UnionOf
<1>8. Root \in unions
  BY <1>3, <1>6, NodesAssumption
<1>9. \A u \in unions : u = Root \/ \E r \in X : u = tree.query[r] /\ tree.query[r] # None
  BY <1>6
<1>10. CASE s \in R
  <2>1. s \notin Nested(tree, R) /\ tree.parent[s] \in {Root, None}
    BY <1>3, <1>10 DEF Level, Parents
  <2>2. \A u \in unions : s \in Range(tree.children[u]) => u = Root
    BY <1>3, <1>4, <1>9, <1>10, <2>1 DEF Nested
  <2>3. s \in Range(tree.children[Root])
    BY <1>1, <1>10
  <2>4. UnionOf(tree, s) = Root
    BY <1>7, <1>8, <2>2, <2>3
  <2> QED BY <2>1, <2>4
<1>11. CASE s \notin R
  <2>1. s \in Nested(tree, R)
    BY <1>1, <1>4, <1>11
  <2>2. PICK r \in X : tree.query[r] # None /\ s \in Range(tree.children[tree.query[r]])
    BY <1>4, <2>1 DEF Nested
  <2>3. tree.query[r] \in unions /\ tree.parent[s] = tree.query[r]
    BY <1>3, <1>4, <1>6, <2>2 DEF Level, Parents
  <2>4. \A u \in unions : s \in Range(tree.children[u]) => u = tree.parent[s]
    BY <1>1, <1>3, <1>4, <1>9, <1>11 DEF Level, Parents
  <2>5. UnionOf(tree, s) = tree.parent[s]
    BY <1>7, <2>2, <2>3, <2>4
  <2> QED BY <2>5
<1> QED BY <1>10, <1>11

\* What recover() promised, once every operation is undone.
LEMMA GivenBack ==
  ASSUME EditInv, PromiseInv, remaining = 0, ~stray, target # NoTree
  PROVE  View(tree) = View(target)
<1>1. PICK t, R : t = target /\ R = Range(target.children[Root])
  OBVIOUS
<1>2. SoundTree(t) /\ t.children[Root] = RootAt(0) /\ GivesBack(t, 0)
  BY <1>1 DEF PromiseInv, MarkInv, Mark
<1>3. SoundTree(tree) /\ t.children[Root] = tree.children[Root] /\ tree \in Tree /\ Root \in UnionNode
  BY <1>2, RootLists DEF EditInv
<1>4. t \in Tree /\ R \in SUBSET Select /\ R = Range(tree.children[Root]) /\ R = Range(t.children[Root])
  <2>1. t \in Tree
    BY <1>2 DEF SoundTree
  <2>2. t.children[Root] \in Seq(Select)
    BY <1>3, <2>1 DEF Tree
  <2> QED BY <1>1, <1>3, <2>1, <2>2, ListRange
<1>5. ASSUME NEW s \in Under(t, R)
      PROVE  /\ tree.query[s] = t.query[s] /\ tree.limit[s] = t.limit[s] /\ tree.offset[s] = t.offset[s]
             /\ t.query[s] # None => tree.children[t.query[s]] = t.children[t.query[s]]
  <2>1. /\ tree.query[s] = t.query[s]
        /\ t.query[s] # None => tree.children[t.query[s]] = t.children[t.query[s]]
        /\ BackTo(op_list, "SetLimit", s, 0, tree.limit[s], t.limit[s])
        /\ BackTo(op_list, "SetOffset", s, 0, tree.offset[s], t.offset[s])
    BY <1>2, <1>4, <1>5 DEF GivesBack
  <2>2. \A k \in 1 .. 0 : FALSE
    OBVIOUS
  <2> QED BY <2>1, <2>2 DEF BackTo
<1>6. Under(tree, R) = Under(t, R)
  BY <1>3, <1>4, <1>5, UnderStays
<1>7. SelectsBelow(tree, Root) = Under(t, R) /\ SelectsBelow(t, Root) = Under(t, R)
  BY <1>2, <1>3, <1>4, <1>6, BelowRoot
<1>8. PICK X : X = Under(t, R)
  OBVIOUS
<1>9. [s \in X |-> [limit |-> tree.limit[s], offset |-> tree.offset[s],
                    query |-> IF tree.query[s] = None THEN <<>> ELSE tree.children[tree.query[s]]]]
      = [s \in X |-> [limit |-> t.limit[s], offset |-> t.offset[s],
                      query |-> IF t.query[s] = None THEN <<>> ELSE t.children[t.query[s]]]]
  BY <1>5, <1>8
<1> QED BY <1>1, <1>3, <1>7, <1>8, <1>9 DEF View

\* The invariant gives the properties.
LEMMA InvIsSound ==
  ASSUME UnionInv
  PROVE  Balanced => TreeIsSound
<1>1. SUFFICES ASSUME EditInv
               PROVE  TreeIsSound
  BY DEF UnionInv
<1>2. TypeOK
  <2>1. LogTypes /\ Log!LengthsAgree /\ SoundTree(tree)
    BY <1>1 DEF EditInv
  <2> QED BY <2>1 DEF TypeOK, LogTypes, Log!LengthsAgree, SoundTree
<1>3. ParentsLeadUp
  BY <1>1, OneUnion DEF ParentsLeadUp
<1> QED BY <1>2, <1>3 DEF TreeIsSound

\* While the log is intact, the invariant gives the promise of recover().
LEMMA InvUndoes ==
  ASSUME UnionInv
  PROVE  UndoIsExact
<1>1. intact => EditInv /\ PromiseInv
  BY DEF UnionInv, Balanced
<1>2. RecoverRestoresUnion
  BY <1>1, GivenBack DEF RecoverRestoresUnion, Log!Idle
<1>3. UndoNeverRaises
  <2>1. SUFFICES ASSUME intact, remaining # 0
                 PROVE  ~Raises(Head(op_list), tree)
    BY DEF UndoNeverRaises, Log!UndoNeverRaises, Log!Idle
  <2>2. remaining > 0
    BY <1>1, <2>1, Stacks
  <2> QED BY <1>1, <2>1, <2>2, NothingRaises
<1> QED BY <1>2, <1>3 DEF UndoIsExact

\* A SELECT is in one place and finds its union from there, however the SELECTs were wrapped,
\* removed, narrowed and recovered, as long as no recover() came without a save_state().
THEOREM TreeIsSoundWhileBalanced == Spec => [](Balanced => TreeIsSound)
<1>1. UnionInv => (Balanced => TreeIsSound)
  BY InvIsSound
<1> QED BY <1>1, UnionInvAlways, PTL

\* The same without the proviso, for a client that calls recover() after save_state() only:
\* the tree of unions and SELECTs is sound after every call.
THEOREM TreeIsSoundAlways ==
  ASSUME MaxUnbalanced = 0
  PROVE  Spec => []TreeIsSound
<1>1. UnionInv => TreeIsSound
  BY InvIsSound DEF Balanced
<1> QED BY <1>1, UnionInvAlways, PTL

\* recover() gives the SELECTs of the union back, and no operation raises while it is undone.
THEOREM UndoIsExactAlways == Spec => []UndoIsExact
<1>1. UnionInv => UndoIsExact
  BY InvUndoes
<1> QED BY <1>1, UnionInvAlways, PTL

-----------------------------------------------------------------------------
\* The SELECT that gives a type.

\* The first SELECT of a union that is an alias, or gives the type.
Answers(t, s, etype) == t.query[s] # None \/ etype \in t.types[s]
FirstTo(t, v, etype) == SelectInSeq(t.children[v], LAMBDA s : t.query[s] # None \/ etype \in t.types[s])

\* The SELECT that _locate_subquery takes is the first that answers.
LEMMA FirstIs ==
  ASSUME NEW t \in Tree, NEW v \in UnionNode, NEW etype
  PROVE  /\ FirstTo(t, v, etype) = 0 \/ (/\ FirstTo(t, v, etype) \in 1 .. Len(t.children[v])
                                         /\ Answers(t, t.children[v][FirstTo(t, v, etype)], etype))
         /\ (\E s \in Range(t.children[v]) : Answers(t, s, etype)) => FirstTo(t, v, etype) # 0
<1>1. PICK c, n : c = t.children[v] /\ n = Len(c)
  OBVIOUS
<1>2. c \in Seq(Select) /\ n \in Nat
  BY <1>1, LenProperties DEF Tree
<1>3. PICK I : I = {i \in 1 .. n : Answers(t, c[i], etype)}
  OBVIOUS
<1>4. FirstTo(t, v, etype) = IF I # {} THEN Min(I) ELSE 0
  BY <1>1, <1>3 DEF FirstTo, SelectInSeq, Answers
<1>5. I \subseteq Nat /\ I \subseteq 1 .. n
  BY <1>2, <1>3
<1>6. I # {} => Min(I) \in I
  <2>1. SUFFICES ASSUME I # {}
                 PROVE  Min(I) \in I
    OBVIOUS
  <2>2. \E i \in I : \A j \in I : i <= j
    BY <1>5, <2>1, LeastNat
  <2> QED BY <2>2 DEF Min
<1>7. (\E s \in Range(c) : Answers(t, s, etype)) => I # {}
  <2>1. Range(c) = {c[i] : i \in 1 .. n}
    BY <1>1, <1>2, ListRange
  <2> QED BY <1>3, <2>1
<1>8. \A i \in I : i # 0 /\ i \in 1 .. n /\ Answers(t, c[i], etype)
  BY <1>2, <1>3
<1> QED BY <1>1, <1>4, <1>6, <1>7, <1>8

\* Locate is defined by recursion on the unions.
Located(t, v, etype, locate) ==
  LET children == t.children[v]
      at == FirstTo(t, v, etype)
  IN  IF Len(children) = 1 /\ t.query[children[1]] = None THEN children[1]
      ELSE IF at = 0 THEN 0
      ELSE IF t.query[children[at]] # None THEN locate[t.query[children[at]]]
      ELSE children[at]

\* The unions that a recursion on a union goes to.
Below(t) == [v \in UnionNode |-> {t.query[s] : s \in Range(t.children[v])} \ {None}]

\* Going down into subqueries ends.
LEMMA BelowEnds ==
  ASSUME NEW t \in Tree, Founded(t), \A s \in Select : t.query[s] # Root
  PROVE  Below(t) \in [UnionNode -> SUBSET UnionNode] /\ Ends(UnionNode, Below(t))
<1>1. \A v \in UnionNode : t.children[v] \in Seq(Select) /\ Range(t.children[v]) \subseteq Select
  BY ListRange DEF Tree
<1>2. \A s \in Select : t.query[s] \in UnionNode \cup {None}
  BY DEF Tree
<1>3. Below(t) \in [UnionNode -> SUBSET UnionNode]
  BY <1>1, <1>2 DEF Below
<1>4. SUFFICES ASSUME NEW W \in SUBSET UnionNode, W # {}
               PROVE  \E v \in W : Below(t)[v] \cap W = {}
  BY <1>3 DEF Ends
<1>5. CASE W \ {Root} = {}
  <2>1. W = {Root}
    BY <1>4, <1>5
  <2>2. Root \notin Below(t)[Root]
    BY <1>1, <2>1, <1>4 DEF Below
  <2> QED BY <2>1, <2>2
<1>6. CASE W \ {Root} # {}
  <2>1. PICK v \in W \ {Root} : \A s \in Range(t.children[v]) : t.query[s] \notin W \ {Root}
    <3>1. W \ {Root} \in SUBSET (UnionNode \ {Root})
      OBVIOUS
    <3> QED BY <1>6, <3>1 DEF Founded
  <2>2. v \in UnionNode /\ \A s \in Range(t.children[v]) : t.query[s] # Root
    BY <1>1, <2>1
  <2>3. Below(t)[v] \cap W = {}
    BY <2>1, <2>2 DEF Below
  <2> QED BY <2>1, <2>3
<1> QED BY <1>5, <1>6

\* _locate_subquery satisfies the equation that defines it.
LEMMA LocateIs ==
  ASSUME NEW t \in Tree, Founded(t), \A s \in Select : t.query[s] # Root, NEW etype
  PROVE  \E locate : \A v \in UnionNode :
           locate[v] = Located(t, v, etype, locate) /\ Locate(t, v, etype) = locate[v]
<1> DEFINE D == UnionNode
           V == Select \cup {0}
           Uses == Below(t)
           H == [v \in D |-> [f \in [D -> V] |-> Located(t, v, etype, f)]]
           locate == CHOOSE f : f = [v \in UnionNode |-> Located(t, v, etype, f)]
<1>1. Uses \in [D -> SUBSET D] /\ Ends(D, Uses)
  BY BelowEnds
<1>2. V # {}
  OBVIOUS
<1>3. ASSUME NEW v \in D
      PROVE  /\ t.children[v] \in Seq(Select) /\ Range(t.children[v]) \subseteq Select
             /\ Len(t.children[v]) = 1 => t.children[v][1] \in Select
             /\ FirstTo(t, v, etype) # 0 =>
                  /\ t.children[v][FirstTo(t, v, etype)] \in Range(t.children[v])
                  /\ t.query[t.children[v][FirstTo(t, v, etype)]] # None =>
                       t.query[t.children[v][FirstTo(t, v, etype)]] \in Uses[v]
  <2>1. t.children[v] \in Seq(Select) /\ Range(t.children[v]) \subseteq Select
    BY ListRange DEF Tree
  <2>2. Range(t.children[v]) = {t.children[v][i] : i \in 1 .. Len(t.children[v])}
    BY <2>1, ListRange
  <2>3. Len(t.children[v]) = 1 => 1 \in 1 .. Len(t.children[v])
    OBVIOUS
  <2>4. FirstTo(t, v, etype) # 0 => t.children[v][FirstTo(t, v, etype)] \in Range(t.children[v])
    BY <2>2, FirstIs
  <2> QED BY <2>1, <2>2, <2>3, <2>4 DEF Below
<1>4. ASSUME NEW v \in D, NEW f \in [D -> V]
      PROVE  Located(t, v, etype, f) \in V
  <2>1. Uses[v] \subseteq D
    BY <1>1
  <2> QED BY <1>3, <2>1 DEF Located
<1>5. ASSUME NEW v \in D, NEW f, NEW g, \A w \in Uses[v] : f[w] = g[w]
      PROVE  Located(t, v, etype, f) = Located(t, v, etype, g)
  BY <1>3, <1>5 DEF Located
<1> HIDE DEF V, Uses
<1>6. H \in [D -> [[D -> V] -> V]]
  BY <1>4
<1>7. Depends(D, V, Uses, H)
  BY <1>5 DEF Depends
<1>8. PICK f \in [D -> V] : Solves(D, H, f)
  <2> HIDE DEF H, D
  <2> QED BY ONLY <1>1, <1>2, <1>6, <1>7, Recursion
<1>9. \A v \in D : f[v] = Located(t, v, etype, f)
  BY <1>8 DEF Solves
<1>10. f = [v \in D |-> Located(t, v, etype, f)]
  BY <1>8, <1>9
<1>11. locate = [v \in UnionNode |-> Located(t, v, etype, locate)]
  BY <1>10
<1>12. ASSUME NEW v \in UnionNode
       PROVE  Locate(t, v, etype) = locate[v]
  BY DEF Locate, Located, FirstTo
<1>13. \A v \in UnionNode : locate[v] = Located(t, v, etype, locate)
  <2> HIDE DEF locate
  <2> QED BY <1>11
<1> QED BY <1>12, <1>13

\* A union that has a subquery beside another SELECT.
Mixed(t, u) == Len(t.children[u]) > 1 /\ \E s \in Range(t.children[u]) : t.query[s] # None

\* What Locate finds in a union is below the root and gives the type.
Finds(t, X, etype, locate, v) ==
  (\E s \in Range(t.children[v]) : etype \in t.types[s]) =>
    locate[v] \in X /\ etype \in t.types[locate[v]]

\* The type that a SELECT of a union gives is found, when those of the subqueries are.
LEMMA LocateStep ==
  ASSUME NEW t \in Tree, NEW X \in SUBSET Select, NEW etype, NEW locate,
         NEW v \in UnionNode, ~Mixed(t, v), Range(t.children[v]) \subseteq X,
         locate[v] = Located(t, v, etype, locate),
         \A s \in X : t.query[s] # None => t.types[s] \subseteq TypesOf(t, t.query[s]),
         \A s \in Range(t.children[v]) : t.query[s] # None => Finds(t, X, etype, locate, t.query[s])
  PROVE  Finds(t, X, etype, locate, v)
<1>1. SUFFICES ASSUME NEW s \in Range(t.children[v]), etype \in t.types[s]
               PROVE  locate[v] \in X /\ etype \in t.types[locate[v]]
  BY DEF Finds
<1>2. PICK c, at : c = t.children[v] /\ at = FirstTo(t, v, etype)
  OBVIOUS
<1>3. c \in Seq(Select) /\ Range(c) = {c[i] : i \in 1 .. Len(c)} /\ Len(c) \in Nat
  <2>1. c \in Seq(Select)
    BY <1>2 DEF Tree
  <2> QED BY <2>1, ListRange, LenProperties
<1>4. at # 0 /\ at \in 1 .. Len(c) /\ Answers(t, c[at], etype)
  BY <1>1, <1>2, FirstIs DEF Answers
<1>5. c[at] \in X /\ c[at] \in Range(c) /\ c[at] \in Select
  BY <1>2, <1>3, <1>4
<1>6. CASE Len(c) = 1 /\ t.query[c[1]] = None
  <2>1. locate[v] = c[1] /\ s = c[1]
    BY <1>1, <1>2, <1>3, <1>6 DEF Located
  <2> QED BY <1>1, <2>1
<1>7. CASE ~(Len(c) = 1 /\ t.query[c[1]] = None) /\ t.query[c[at]] = None
  <2>1. locate[v] = c[at]
    BY <1>2, <1>4, <1>7 DEF Located
  <2> QED BY <1>4, <1>5, <1>7, <2>1 DEF Answers
<1>8. CASE ~(Len(c) = 1 /\ t.query[c[1]] = None) /\ t.query[c[at]] # None
  <2>1. locate[v] = locate[t.query[c[at]]]
    BY <1>2, <1>4, <1>8 DEF Located
  <2>2. Len(c) = 1
    <3>1. ~(Len(c) > 1)
      BY <1>2, <1>5, <1>8 DEF Mixed
    <3>2. PICK n \in Nat : n = Len(c)
      BY <1>3
    <3>3. ~(n > 1) /\ at \in 1 .. n
      BY <1>4, <3>1, <3>2
    <3>4. n = 1
      BY ONLY <3>3, n \in Nat
    <3> QED BY <3>2, <3>4
  <2>3. s = c[at]
    BY <1>1, <1>2, <1>3, <1>4, <2>2
  <2>4. etype \in TypesOf(t, t.query[s])
    BY <1>1, <1>5, <1>8, <2>3
  <2>5. \E r \in Range(t.children[t.query[s]]) : etype \in t.types[r]
    BY <2>4 DEF TypesOf
  <2>6. Finds(t, X, etype, locate, t.query[s])
    BY <1>2, <1>5, <1>8, <2>3
  <2> QED BY <2>1, <2>3, <2>5, <2>6 DEF Finds
<1> QED BY <1>6, <1>7, <1>8

\* In every union that is in use.
LEMMA LocateFindsAll ==
  ASSUME EditInv, \A u \in UnionsBelow(tree) : ~Mixed(tree, u), NEW etype, NEW locate,
         \A v \in UnionNode : locate[v] = Located(tree, v, etype, locate)
  PROVE  Finds(tree, SelectsBelow(tree, Root), etype, locate, Root)
<1>1. PICK R, X : R = Range(tree.children[Root]) /\ X = SelectsBelow(tree, Root)
  OBVIOUS
<1>2. SoundTree(tree)
  BY DEF EditInv
<1>3. tree \in Tree /\ Root \in UnionNode /\ R \in SUBSET Select /\ Types(tree, R)
  <2>1. /\ tree \in Tree /\ Root \in UnionNode /\ 0 \in Levels /\ RootAt(0) = tree.children[Root]
        /\ \A i \in Levels : /\ Range(RootAt(i)) \in SUBSET Select
                             /\ Level(tree, Range(RootAt(i)), Touched(op_list, i), RootsTo(i))
    BY RootLists
  <2> QED BY <1>1, <2>1 DEF Level
<1>4. X = Under(tree, R) /\ X \in SUBSET Select /\ R \subseteq X /\ Closed(tree, X)
  BY <1>1, <1>2, <1>3, BelowRoot, UnderIsLeast, UnderIsClosed
<1>5. \A s \in X : tree.query[s] # None => tree.types[s] \subseteq TypesOf(tree, tree.query[s])
  BY <1>3, <1>4 DEF Types
<1>6. PICK U : U = UnionsBelow(tree)
  OBVIOUS
<1>7. /\ Root \in U /\ U \subseteq UnionNode /\ \A v \in U : Range(tree.children[v]) \subseteq X
      /\ \A s \in X : tree.query[s] # None => tree.query[s] \in U
  <2>1. U = ({Root} \cup {tree.query[s] : s \in X}) \ {None}
    BY <1>1, <1>6 DEF UnionsBelow
  <2>2. \A s \in X : tree.query[s] # None => tree.query[s] \in UnionNode
    BY <1>3, <1>4 DEF Tree
  <2>3. Root # None
    BY <1>3, NodesAssumption
  <2>4. \A v \in U : v = Root \/ \E s \in X : v = tree.query[s] /\ tree.query[s] # None
    BY <2>1
  <2> QED BY <1>1, <1>3, <1>4, <2>1, <2>2, <2>3, <2>4 DEF Closed
<1>8. ASSUME NEW v \in U, \A s \in Range(tree.children[v]) : tree.query[s] # None => Finds(tree, X, etype, locate, tree.query[s])
      PROVE  Finds(tree, X, etype, locate, v)
  <2>1. /\ v \in UnionNode /\ ~Mixed(tree, v) /\ Range(tree.children[v]) \subseteq X
        /\ locate[v] = Located(tree, v, etype, locate)
    BY <1>6, <1>7, <1>8
  <2> QED BY ONLY <1>3, <1>4, <1>5, <1>8, <2>1, LocateStep
<1>9. PICK W : W = {v \in U \ {Root} : ~Finds(tree, X, etype, locate, v)}
  OBVIOUS
<1>10. W = {}
  <2>1. SUFFICES ASSUME W # {}
                 PROVE  FALSE
    OBVIOUS
  <2>2. W \in SUBSET (UnionNode \ {Root})
    BY <1>7, <1>9
  <2>3. PICK v \in W : \A s \in Range(tree.children[v]) : tree.query[s] \notin W
    BY <1>2, <2>1, <2>2 DEF SoundTree, Founded
  <2>4. \A s \in Range(tree.children[v]) : tree.query[s] # None => Finds(tree, X, etype, locate, tree.query[s])
    <3>1. SUFFICES ASSUME NEW s \in Range(tree.children[v]), tree.query[s] # None
                   PROVE  Finds(tree, X, etype, locate, tree.query[s])
      OBVIOUS
    <3>2. s \in X /\ s \in Select
      BY <1>4, <1>7, <1>9, <2>3, <3>1
    <3>3. tree.query[s] \in U /\ tree.query[s] # Root
      BY <1>2, <1>7, <3>1, <3>2 DEF SoundTree
    <3> QED BY <1>9, <2>3, <3>1, <3>3
  <2> QED BY <1>8, <1>9, <2>3, <2>4
<1>11. \A s \in Range(tree.children[Root]) : tree.query[s] # None => Finds(tree, X, etype, locate, tree.query[s])
  <2>1. SUFFICES ASSUME NEW s \in Range(tree.children[Root]), tree.query[s] # None
                 PROVE  Finds(tree, X, etype, locate, tree.query[s])
    OBVIOUS
  <2>2. s \in X /\ s \in Select
    BY <1>1, <1>4, <2>1
  <2>3. tree.query[s] \in U /\ tree.query[s] # Root
    BY <1>2, <1>7, <2>1, <2>2 DEF SoundTree
  <2> QED BY <1>9, <1>10, <2>3
<1> QED BY <1>1, <1>7, <1>8, <1>11

\* In a sound tree every column that has a type is located.
LEMMA InvLocates ==
  ASSUME UnionInv
  PROVE  Balanced => LocateFinds
<1>1. SUFFICES ASSUME EditInv, \A u \in UnionsBelow(tree) : ~Mixed(tree, u),
                      NEW s \in Range(tree.children[Root]), NEW etype \in tree.types[s]
               PROVE  /\ Locate(tree, Root, etype) \in SelectsBelow(tree, Root)
                      /\ etype \in tree.types[Locate(tree, Root, etype)]
  BY DEF UnionInv, LocateFinds, Mixed
<1>2. SoundTree(tree) /\ tree \in Tree /\ Root \in UnionNode
  BY <1>1, RootLists DEF EditInv
<1>3. PICK locate : \A v \in UnionNode :
        locate[v] = Located(tree, v, etype, locate) /\ Locate(tree, v, etype) = locate[v]
  BY <1>2, LocateIs DEF SoundTree
<1>4. Finds(tree, SelectsBelow(tree, Root), etype, locate, Root)
  BY <1>1, <1>3, LocateFindsAll
<1> QED BY <1>1, <1>2, <1>3, <1>4 DEF Finds

\* A type that the union gives is located in a SELECT that gives it, however the SELECTs were
\* wrapped, removed, narrowed and recovered.
THEOREM LocateFindsWhileBalanced == Spec => [](Balanced => LocateFinds)
<1>1. UnionInv => (Balanced => LocateFinds)
  BY InvLocates
<1> QED BY <1>1, UnionInvAlways, PTL

\* The same without the proviso, for a client that calls recover() after save_state() only:
\* _locate_subquery finds a SELECT for every type of the column.
THEOREM LocateFindsAlways ==
  ASSUME MaxUnbalanced = 0
  PROVE  Spec => []LocateFinds
<1>1. UnionInv => LocateFinds
  BY InvLocates DEF Balanced
<1> QED BY <1>1, UnionInvAlways, PTL
-----------------------------------------------------------------------------
\* The rows of a union.

Row == Select \X {1, 2}

\* The lists of a list, one after the other.
LEMMA FlattenIs ==
  ASSUME NEW S, NEW lists \in Seq(Seq(S))
  PROVE  FlattenSeq(lists) \in Seq(S) /\ (Len(lists) = 1 => FlattenSeq(lists) = lists[1])
<1> DEFINE n == Len(lists)
           D == 1 .. n
           V == Seq(S)
           Body(f, i) == IF i = 1 THEN lists[i] ELSE f[i - 1] \o lists[i]
           Uses == [i \in D |-> IF i = 1 THEN {} ELSE {i - 1}]
           H == [i \in D |-> [f \in [D -> V] |-> Body(f, i)]]
           flatten == CHOOSE flatten : flatten = [i \in 1 .. Len(lists) |-> Body(flatten, i)]
<1>1. n \in Nat /\ \A i \in 1 .. n : lists[i] \in Seq(S)
  BY LenProperties, ElementOfSeq
<1>2. \A i \in D : i \in Nat /\ (i # 1 => i - 1 \in D /\ i - 1 < i)
  BY <1>1
<1>3. CASE n = 0
  <2>1. FlattenSeq(lists) = lists /\ lists = <<>>
    BY <1>3, EmptySeq DEF FlattenSeq
  <2> QED BY <1>3, <2>1
<1>4. CASE n # 0
  <2>1. V # {} /\ <<>> \in V
    OBVIOUS
  <2>2. \A i \in D : lists[i] \in V
    BY <1>1
  <2>3. \A a, b \in V : a \o b \in V
    OBVIOUS
  <2> HIDE DEF n, V
  <2>4. Uses \in [D -> SUBSET D]
    BY <1>2
  <2>5. ASSUME NEW f \in [D -> V], NEW i \in D
        PROVE  Body(f, i) \in V
    <3>1. i # 1 => f[i - 1] \in V
      BY <1>2
    <3> QED BY <2>2, <2>3, <3>1
  <2>6. H \in [D -> [[D -> V] -> V]]
    <3> HIDE DEF Body, D
    <3> QED BY <2>5
  <2>7. Ends(D, Uses)
    <3>1. SUFFICES ASSUME NEW W \in SUBSET D, W # {}
                   PROVE  \E i \in W : Uses[i] \cap W = {}
      BY DEF Ends
    <3>2. W \in SUBSET Nat
      BY <1>2, <3>1
    <3>3. PICK i \in W : \A j \in W : i <= j
      BY <3>1, <3>2, LeastNat
    <3>4. i \in D /\ i - 1 \notin W
      BY <1>2, <3>1, <3>3
    <3> QED BY <3>3, <3>4
  <2>8. Depends(D, V, Uses, H)
    <3>1. SUFFICES ASSUME NEW i \in D, NEW f \in [D -> V], NEW g \in [D -> V], \A j \in Uses[i] : f[j] = g[j]
                   PROVE  Body(f, i) = Body(g, i)
      <4> HIDE DEF Body, D
      <4> QED BY DEF Depends
    <3>2. i # 1 => f[i - 1] = g[i - 1]
      BY <3>1
    <3> QED BY <3>2
  <2>9. PICK f \in [D -> V] : Solves(D, H, f)
    <3> HIDE DEF H, Uses, D
    <3> QED BY ONLY <2>1, <2>4, <2>6, <2>7, <2>8, Recursion
  <2>10. \A i \in D : f[i] = Body(f, i)
    <3> HIDE DEF Body, D
    <3> QED BY <2>9 DEF H, Solves
  <2>11. f = [i \in D |-> Body(f, i)]
    <3> HIDE DEF Body, D
    <3> QED BY <2>9, <2>10
  <2>12. flatten = [i \in D |-> Body(flatten, i)]
    BY <2>11 DEF n
  <2>13. FlattenSeq(lists) = flatten[n]
    BY <1>4 DEF FlattenSeq, n
  <2>14. \A i \in D : flatten[i] = Body(flatten, i)
    <3> HIDE DEF flatten
    <3> QED BY <2>12
  <2> HIDE DEF flatten
  <2>15. \A i \in D : flatten[i] \in V
    <3> DEFINE Bad == {i \in D : flatten[i] \notin V}
    <3>1. SUFFICES ASSUME Bad # {}
                   PROVE  FALSE
      OBVIOUS
    <3>2. Bad \in SUBSET Nat
      BY <1>2
    <3>3. PICK i \in Bad : \A j \in Bad : i <= j
      BY <3>1, <3>2, LeastNat
    <3>4. i \in D /\ flatten[i] \notin V
      BY <3>3
    <3>5. CASE i = 1
      BY <2>2, <2>14, <3>4, <3>5
    <3>6. CASE i # 1
      <4>1. i - 1 \in D /\ i - 1 \notin Bad
        BY <1>2, <3>3, <3>4, <3>6
      <4>2. flatten[i - 1] \in V
        BY <4>1
      <4>3. flatten[i] = flatten[i - 1] \o lists[i]
        BY <2>14, <3>4, <3>6
      <4> QED BY <2>2, <2>3, <3>4, <4>2, <4>3
    <3> QED BY <3>5, <3>6
  <2>16. n \in D
    BY <1>1, <1>4
  <2>17. n = 1 => flatten[n] = lists[1]
    BY <2>14, <2>16
  <2> QED BY <2>13, <2>15, <2>16, <2>17 DEF V, n
<1> QED BY <1>3, <1>4

\* A bound takes a part of the rows; no bound takes them all.
LEMMA BoundedIs ==
  ASSUME NEW S, NEW rows \in Seq(S)
  PROVE  /\ \A limit, offset : Good(limit) /\ (limit # None => limit \in Int) /\ offset \in Int /\ offset >= 0 =>
              Bounded(rows, limit, offset) \in Seq(S)
         /\ Bounded(rows, None, 0) = rows
<1>1. PICK n \in Nat : n = Len(rows)
  BY LenProperties
<1>2. ASSUME NEW x \in Seq(S), NEW m \in Int, NEW k \in Nat, m >= 1, k <= Len(x)
      PROVE  SubSeq(x, m, k) \in Seq(S)
  <2>1. \A i \in m .. k : x[i] \in S
    <3>1. Len(x) \in Nat
      OBVIOUS
    <3>2. \A i \in m .. k : i \in 1 .. Len(x)
      BY <1>2, <3>1
    <3> QED BY <3>2, ElementOfSeq
  <2> QED BY <1>2, <2>1
<1>3. ASSUME NEW limit, NEW offset, Good(limit), limit # None => limit \in Int, offset \in Int, offset >= 0
      PROVE  Bounded(rows, limit, offset) \in Seq(S)
  <2>1. PICK rest : rest = SubSeq(rows, offset + 1, Len(rows))
    OBVIOUS
  <2>2. rest \in Seq(S)
    <3>1. offset + 1 \in Int /\ offset + 1 >= 1 /\ n <= n
      BY <1>3, <1>1
    <3> QED BY <1>1, <1>2, <2>1, <3>1
  <2>3. Bounded(rows, limit, offset) = IF limit = None \/ limit >= Len(rest) THEN rest ELSE SubSeq(rest, 1, limit)
    BY <2>1 DEF Bounded
  <2>4. CASE limit = None \/ limit >= Len(rest)
    BY <2>2, <2>3, <2>4
  <2>5. CASE ~(limit = None \/ limit >= Len(rest))
    <3>1. Len(rest) \in Nat
      BY <2>2
    <3>2. limit \in Nat /\ limit <= Len(rest)
      BY <1>3, <2>5, <3>1 DEF Good
    <3>3. SubSeq(rest, 1, limit) \in Seq(S)
      BY <1>2, <2>2, <3>2
    <3> QED BY <2>3, <2>5, <3>3
  <2> QED BY <2>4, <2>5
<1>4. Bounded(rows, None, 0) = rows
  <2>1. SubSeq(rows, 1, Len(rows)) = rows
    OBVIOUS
  <2> QED BY <2>1 DEF Bounded
<1> QED BY <1>3, <1>4

\* Rows is defined by recursion on the unions.
RowsFrom(t, s, rows) == IF t.query[s] = None THEN <<<<s, 1>>, <<s, 2>>>> ELSE rows[t.query[s]]
RowsOf(t, s, rows) == Bounded(RowsFrom(t, s, rows), t.limit[s], t.offset[s])
RowLists(t, v, rows) == [i \in DOMAIN t.children[v] |-> RowsOf(t, t.children[v][i], rows)]

\* The trees that have rows.
HasRows(t) ==
  /\ t \in Tree /\ Founded(t) /\ \A s \in Select : t.query[s] # Root
  /\ \A s \in Select : Good(t.limit[s]) /\ t.offset[s] >= 0

\* The rows of the SELECTs of a union are lists of rows, in the order of the SELECTs.
LEMMA RowListsIs ==
  ASSUME NEW t, HasRows(t), NEW v \in UnionNode, NEW f, \A w \in Below(t)[v] : f[w] \in Seq(Row)
  PROVE  /\ RowLists(t, v, f) \in Seq(Seq(Row)) /\ Len(RowLists(t, v, f)) = Len(t.children[v])
         /\ \A i \in 1 .. Len(t.children[v]) : RowLists(t, v, f)[i] = RowsOf(t, t.children[v][i], f)
<1>1. PICK c, n : c = t.children[v] /\ n = Len(c)
  OBVIOUS
<1>2. c \in Seq(Select) /\ n \in Nat /\ DOMAIN c = 1 .. n /\ Range(c) = {c[i] : i \in 1 .. n}
  <2>1. c \in Seq(Select)
    BY <1>1 DEF HasRows, Tree
  <2> QED BY <1>1, <2>1, ListRange, LenProperties
<1>3. ASSUME NEW i \in 1 .. n
      PROVE  RowsOf(t, c[i], f) \in Seq(Row)
  <2>1. PICK s : s = c[i]
    OBVIOUS
  <2>2. s \in Select /\ s \in Range(t.children[v])
    BY <1>1, <1>2, <2>1, ElementOfSeq
  <2>3. RowsFrom(t, s, f) \in Seq(Row)
    <3>1. CASE t.query[s] = None
      <4>1. <<s, 1>> \in Row /\ <<s, 2>> \in Row
        BY <2>2 DEF Row
      <4>2. <<<<s, 1>>, <<s, 2>>>> \in Seq(Row)
        BY <4>1
      <4> QED BY <3>1, <4>2 DEF RowsFrom
    <3>2. CASE t.query[s] # None
      <4>1. t.query[s] \in Below(t)[v]
        BY <2>2, <3>2 DEF Below
      <4> QED BY <3>2, <4>1 DEF RowsFrom
    <3> QED BY <3>1, <3>2
  <2>4. Good(t.limit[s]) /\ (t.limit[s] # None => t.limit[s] \in Int) /\ t.offset[s] \in Int /\ t.offset[s] >= 0
    BY <2>2 DEF HasRows, Tree
  <2> QED BY <2>1, <2>3, <2>4, BoundedIs DEF RowsOf
<1>4. RowLists(t, v, f) = [i \in 1 .. n |-> RowsOf(t, c[i], f)]
  BY <1>1, <1>2 DEF RowLists
<1>5. [i \in 1 .. n |-> RowsOf(t, c[i], f)] \in Seq(Seq(Row))
  BY <1>2, <1>3
<1>6. Len(RowLists(t, v, f)) = n
  BY <1>2, <1>4, <1>5
<1> QED BY <1>1, <1>4, <1>5, <1>6

\* They depend on the subqueries of these SELECTs alone.
LEMMA RowListsDepend ==
  ASSUME NEW t, t \in Tree, NEW v \in UnionNode, NEW f, NEW g, \A w \in Below(t)[v] : f[w] = g[w]
  PROVE  RowLists(t, v, f) = RowLists(t, v, g)
<1>1. PICK c : c = t.children[v]
  OBVIOUS
<1>2. c \in Seq(Select) /\ DOMAIN c = 1 .. Len(c) /\ Range(c) = {c[i] : i \in 1 .. Len(c)}
  <2>1. c \in Seq(Select)
    BY <1>1 DEF Tree
  <2> QED BY <2>1, ListRange, LenProperties
<1>3. ASSUME NEW i \in DOMAIN c
      PROVE  RowsOf(t, c[i], f) = RowsOf(t, c[i], g)
  <2>1. c[i] \in Range(t.children[v])
    BY <1>1, <1>2
  <2>2. t.query[c[i]] # None => t.query[c[i]] \in Below(t)[v]
    BY <2>1 DEF Below
  <2>3. RowsFrom(t, c[i], f) = RowsFrom(t, c[i], g)
    BY <2>2 DEF RowsFrom
  <2> QED BY <2>3 DEF RowsOf
<1> QED BY <1>1, <1>3 DEF RowLists

\* The rows of a union satisfy the equation that defines them.
LEMMA RowsIs ==
  ASSUME NEW t, HasRows(t)
  PROVE  \E rows : \A v \in UnionNode :
           /\ rows[v] = FlattenSeq(RowLists(t, v, rows)) /\ Rows(t, v) = rows[v]
           /\ rows[v] \in Seq(Row)
<1> DEFINE D == UnionNode
           V == Seq(Row)
           Uses == Below(t)
           Body(f, v) == FlattenSeq(RowLists(t, v, f))
           H == [v \in D |-> [f \in [D -> V] |-> Body(f, v)]]
           rows == CHOOSE rows : rows = [v \in UnionNode |-> Body(rows, v)]
<1>1. Uses \in [D -> SUBSET D] /\ Ends(D, Uses) /\ t \in Tree
  BY BelowEnds DEF HasRows
<1>2. V # {}
  <2>1. <<>> \in V
    OBVIOUS
  <2> QED BY <2>1
<1>3. ASSUME NEW f \in [D -> V], NEW v \in D
      PROVE  Body(f, v) \in V
  <2>1. \A w \in Below(t)[v] : f[w] \in Seq(Row)
    BY <1>1, <1>3
  <2>2. RowLists(t, v, f) \in Seq(Seq(Row))
    BY <2>1, RowListsIs
  <2> QED BY <2>2, FlattenIs
<1>4. H \in [D -> [[D -> V] -> V]]
  <2> HIDE DEF Body, D, V
  <2> QED BY <1>3
<1>5. Depends(D, V, Uses, H)
  <2>1. SUFFICES ASSUME NEW v \in D, NEW f \in [D -> V], NEW g \in [D -> V], \A w \in Uses[v] : f[w] = g[w]
                 PROVE  Body(f, v) = Body(g, v)
    <3> HIDE DEF Body, D, V, Uses
    <3> QED BY DEF Depends
  <2>2. RowLists(t, v, f) = RowLists(t, v, g)
    BY <1>1, <2>1, RowListsDepend
  <2> QED BY <2>2
<1>6. PICK f \in [D -> V] : Solves(D, H, f)
  <2> HIDE DEF H, D, V, Uses
  <2> QED BY ONLY <1>1, <1>2, <1>4, <1>5, Recursion
<1>7. \A v \in D : f[v] = Body(f, v)
  <2> HIDE DEF Body, D, V
  <2> QED BY <1>6 DEF H, Solves
<1>8. f = [v \in D |-> Body(f, v)]
  <2> HIDE DEF Body, V
  <2> QED BY <1>6, <1>7
<1>9. rows = [v \in D |-> Body(rows, v)]
  <2> HIDE DEF Body
  <2> QED BY <1>8
<1>10. \A v \in UnionNode : Rows(t, v) = rows[v]
  BY DEF Rows, RowLists, RowsOf, RowsFrom
<1> HIDE DEF rows
<1>11. \A v \in UnionNode : rows[v] = Body(rows, v)
  <2> HIDE DEF Body
  <2> QED BY <1>9
<1>12. \A v \in UnionNode : rows[v] \in Seq(Row)
  <2> DEFINE Bad == {v \in UnionNode : rows[v] \notin Seq(Row)}
  <2>1. SUFFICES ASSUME Bad # {}
                 PROVE  FALSE
    OBVIOUS
  <2>2. PICK v \in Bad : Uses[v] \cap Bad = {}
    <3>1. Bad \in SUBSET D
      OBVIOUS
    <3> HIDE DEF Bad, Uses
    <3> QED BY <1>1, <2>1, <3>1 DEF Ends
  <2>3. \A w \in Below(t)[v] : rows[w] \in Seq(Row)
    BY <1>1, <2>2
  <2>4. RowLists(t, v, rows) \in Seq(Seq(Row))
    BY <2>2, <2>3, RowListsIs
  <2>5. rows[v] \in Seq(Row)
    BY <1>11, <2>2, <2>4, FlattenIs
  <2> QED BY <2>2, <2>5
<1> QED BY <1>10, <1>11, <1>12

\* A union has the rows of another tree when what is below it is the same: those of V are, and
\* lead to unions of V alone.
SameUnion(u, v, t, w, V) ==
  /\ u.children[v] = t.children[w]
  /\ \A s \in Range(t.children[w]) :
       /\ u.query[s] = t.query[s] /\ u.limit[s] = t.limit[s] /\ u.offset[s] = t.offset[s]
       /\ t.query[s] # None => t.query[s] \in V

\* Unions that look the same have the same rows, if their subqueries do.
LEMMA RowListsSame ==
  ASSUME NEW t, NEW u, t \in Tree, NEW v \in UnionNode, NEW w \in UnionNode, NEW V, SameUnion(u, v, t, w, V),
         NEW f, NEW g, \A x \in V : g[x] = f[x]
  PROVE  RowLists(u, v, g) = RowLists(t, w, f)
<1>1. PICK c : c = t.children[w]
  OBVIOUS
<1>2. c \in Seq(Select) /\ DOMAIN c = 1 .. Len(c) /\ Range(c) = {c[i] : i \in 1 .. Len(c)}
  <2>1. c \in Seq(Select)
    BY <1>1 DEF Tree
  <2> QED BY <2>1, ListRange, LenProperties
<1>3. u.children[v] = c
  BY <1>1 DEF SameUnion
<1>4. ASSUME NEW i \in DOMAIN c
      PROVE  RowsOf(u, c[i], g) = RowsOf(t, c[i], f)
  <2>1. c[i] \in Range(t.children[w])
    BY <1>1, <1>2
  <2>2. PICK s : s = c[i]
    OBVIOUS
  <2>3. /\ u.query[s] = t.query[s] /\ u.limit[s] = t.limit[s] /\ u.offset[s] = t.offset[s]
        /\ t.query[s] # None => t.query[s] \in V
    BY <2>1, <2>2 DEF SameUnion
  <2>4. RowsFrom(u, s, g) = RowsFrom(t, s, f)
    BY <2>3 DEF RowsFrom
  <2> QED BY <2>2, <2>3, <2>4 DEF RowsOf
<1> QED BY <1>1, <1>3, <1>4 DEF RowLists

\* Unions that look the same, down to the last subquery, have the same rows.
LEMMA RowsSame ==
  ASSUME NEW t, HasRows(t), NEW u, HasRows(u), NEW V \in SUBSET UnionNode,
         \A v \in V : SameUnion(u, v, t, v, V),
         NEW v \in UnionNode, NEW w \in UnionNode, SameUnion(u, v, t, w, V)
  PROVE  Rows(u, v) = Rows(t, w)
<1>1. PICK f : \A x \in UnionNode : f[x] = FlattenSeq(RowLists(t, x, f)) /\ Rows(t, x) = f[x] /\ f[x] \in Seq(Row)
  BY RowsIs
<1>2. PICK g : \A x \in UnionNode : g[x] = FlattenSeq(RowLists(u, x, g)) /\ Rows(u, x) = g[x] /\ g[x] \in Seq(Row)
  BY RowsIs
<1>3. t \in Tree
  BY DEF HasRows
<1>4. PICK Bad : Bad = {x \in V : g[x] # f[x]}
  OBVIOUS
<1>5. Bad = {}
  <2>1. SUFFICES ASSUME Bad # {}
                 PROVE  FALSE
    OBVIOUS
  <2>2. PICK x \in Bad : Below(t)[x] \cap Bad = {}
    <3>1. Ends(UnionNode, Below(t)) /\ Bad \in SUBSET UnionNode
      BY <1>4, BelowEnds DEF HasRows
    <3> QED BY <2>1, <3>1 DEF Ends
  <2>3. x \in V /\ x \in UnionNode /\ SameUnion(u, x, t, x, V)
    BY <1>4, <2>2
  <2>4. PICK B : B = Below(t)[x]
    OBVIOUS
  <2>5. \A y \in B : y \in V /\ g[y] = f[y]
    <3>1. B = {t.query[s] : s \in Range(t.children[x])} \ {None}
      BY <2>3, <2>4 DEF Below
    <3>2. \A s \in Range(t.children[x]) : t.query[s] # None => t.query[s] \in V
      BY <2>3 DEF SameUnion
    <3>3. \A y \in B : y \in V
      BY <3>1, <3>2
    <3> QED BY <1>4, <2>2, <2>4, <3>3
  <2>6. SameUnion(u, x, t, x, B)
    BY <2>3, <2>4 DEF SameUnion, Below
  <2>7. RowLists(u, x, g) = RowLists(t, x, f)
    BY ONLY <1>3, <2>3, <2>5, <2>6, RowListsSame
  <2> QED BY <1>1, <1>2, <1>4, <2>2, <2>3, <2>7
<1>6. \A x \in V : g[x] = f[x]
  BY <1>4, <1>5
<1>7. RowLists(u, v, g) = RowLists(t, w, f)
  BY ONLY <1>3, <1>6, RowListsSame, SameUnion(u, v, t, w, V), v \in UnionNode, w \in UnionNode
<1> QED BY <1>1, <1>2, <1>7

\* The rows of a tree whose SELECTs were wrapped are those they had, within the bounds of the
\* SELECT that took their place.
LEMMA WrappedRows ==
  ASSUME NEW t, SoundTree(t), CanWrap(t), NEW u, IsWrapped(u, t)
  PROVE  Rows(u, Root) = Bounded(Rows(t, Root), u.limit[New(t)], u.offset[New(t)])
<1>1. PICK n, q : n = New(t) /\ q = t.unions + 1
  OBVIOUS
<1>2. SoundTree(u)
  BY WrapSound
<1>3. HasRows(t) /\ HasRows(u)
  BY <1>2 DEF SoundTree, HasRows
<1>4. PICK V : V = UnionNode \ {Root, q}
  OBVIOUS
<1>5. /\ t \in Tree /\ Root \in UnionNode /\ q \in UnionNode /\ q # Root /\ n \in Select /\ t.query[n] = None
      /\ Range(t.children[Root]) \in SUBSET Select /\ n \notin Range(t.children[Root])
      /\ t.unions \in Nat /\ t.selects \in Nat /\ n = t.selects + 1
      /\ \A s \in Select : t.query[s] # None => t.query[s] \in V
  BY <1>1, <1>4, OldSelects
<1>6. \A v \in UnionNode : Range(t.children[v]) \in SUBSET Select /\ n \notin Range(t.children[v])
  <2>1. SUFFICES ASSUME NEW v \in UnionNode
                 PROVE  Range(t.children[v]) \in SUBSET Select /\ n \notin Range(t.children[v])
    OBVIOUS
  <2>2. t.children[v] \in Seq(Select) /\ t.children[v] \in Seq(1 .. t.selects)
    BY <1>5 DEF SoundTree, Unmade, Tree
  <2>3. Range(t.children[v]) \subseteq Select /\ Range(t.children[v]) \subseteq 1 .. t.selects
    BY <2>2, ListRange
  <2>4. n \notin 1 .. t.selects
    BY <1>5
  <2> QED BY <2>3, <2>4
<1>7. /\ u.children[Root] = <<n>> /\ u.children[q] = t.children[Root] /\ u.query[n] = q
      /\ \A v \in V : u.children[v] = t.children[v]
      /\ \A s \in Select : s # n => u.query[s] = t.query[s] /\ u.limit[s] = t.limit[s] /\ u.offset[s] = t.offset[s]
  BY <1>1, <1>4 DEF IsWrapped
<1>8. \A v \in V : SameUnion(u, v, t, v, V)
  BY <1>4, <1>5, <1>6, <1>7 DEF SameUnion
<1>9. SameUnion(u, q, t, Root, V)
  BY <1>5, <1>6, <1>7 DEF SameUnion
<1>10. Rows(u, q) = Rows(t, Root)
  BY <1>3, <1>4, <1>5, <1>8, <1>9, RowsSame
<1>11. PICK g : \A x \in UnionNode : g[x] = FlattenSeq(RowLists(u, x, g)) /\ Rows(u, x) = g[x] /\ g[x] \in Seq(Row)
  BY <1>3, RowsIs
<1>12. /\ RowLists(u, Root, g) \in Seq(Seq(Row)) /\ Len(RowLists(u, Root, g)) = 1
       /\ RowLists(u, Root, g)[1] = RowsOf(u, n, g)
  <2>1. PICK c : c = u.children[Root]
    OBVIOUS
  <2>2. c = <<n>> /\ Len(c) = 1 /\ c[1] = n /\ 1 \in 1 .. Len(c)
    BY <1>7, <2>1
  <2>3. \A w \in Below(u)[Root] : g[w] \in Seq(Row)
    <3>1. Below(u)[Root] \subseteq UnionNode
      BY <1>3, <1>5, BelowEnds DEF HasRows
    <3> QED BY <1>11, <3>1
  <2>4. /\ RowLists(u, Root, g) \in Seq(Seq(Row)) /\ Len(RowLists(u, Root, g)) = Len(c)
        /\ \A i \in 1 .. Len(c) : RowLists(u, Root, g)[i] = RowsOf(u, c[i], g)
    BY <1>3, <1>5, <2>1, <2>3, RowListsIs
  <2> QED BY <2>2, <2>4
<1>13. g[Root] = RowsOf(u, n, g)
  BY <1>5, <1>11, <1>12, FlattenIs
<1>14. RowsOf(u, n, g) = Bounded(g[q], u.limit[n], u.offset[n])
  <2>1. q # None
    BY <1>5, NodesAssumption
  <2> QED BY <1>7, <2>1 DEF RowsOf, RowsFrom
<1> QED BY <1>1, <1>5, <1>10, <1>11, <1>13, <1>14

\* The bound of the SELECT that took the place of the others, once a limit or an offset of the
\* root is set: the one that was asked for, unless it was refused.
LEMMA BoundSet ==
  ASSUME EditInv, NEW field \in Field, NEW value \in Values(field), SetBound(field, value),
         Len(tree.children[Root]) # 1
  PROVE  /\ SoundTree(tree) /\ CanWrap(tree) /\ IsWrapped(tree', tree)
         /\ tree'.limit[New(tree)] = IF field = "limit" /\ ~Refused(field, value) THEN value ELSE None
         /\ tree'.offset[New(tree)] = IF field # "limit" /\ ~Refused(field, value) THEN value ELSE 0
<1>1. PICK edit : edit = SetOnRoot(tree, field, value)
  OBVIOUS
<1>2. tree' = edit.tree /\ CanWrap(tree) /\ SoundTree(tree)
  BY <1>1 DEF SetBound, Perform, EditInv
<1>3. PICK w, n : w = Wrapped(tree) /\ n = New(tree)
  OBVIOUS
<1>4. PICK t : t = w.tree
  OBVIOUS
<1>5. IsWrapped(t, tree) /\ t.limit = tree.limit /\ t.offset = tree.offset
  BY <1>2, <1>3, <1>4, WrapFacts
<1>6. t \in Tree /\ t.children[Root] = <<n>> /\ n \in Select /\ SoundTree(t)
  BY <1>2, <1>3, <1>5, OldSelects, WrapSound DEF IsWrapped
<1>7. t.limit[n] = None /\ t.offset[n] = 0
  <2>1. n \in Select /\ n > tree.selects
    BY <1>2, <1>3, OldSelects
  <2>2. tree.limit[n] = None /\ tree.offset[n] = 0
    BY <1>2, <2>1 DEF SoundTree, Unmade
  <2> QED BY <1>5, <2>2
<1>8. CASE Refused(field, value)
  <2>1. edit = w
    BY <1>1, <1>3, <1>8 DEF SetOnRoot
  <2> QED BY <1>2, <1>3, <1>4, <1>5, <1>7, <1>8, <2>1
<1>9. CASE ~Refused(field, value)
  <2>1. PICK e : e = SetOn(t, n, field, value)
    OBVIOUS
  <2>2. edit.tree = e.tree
    BY <1>1, <1>3, <1>4, <1>6, <1>9, <2>1 DEF SetOnRoot, Then
  <2>3. PICK u : u = e.tree
    OBVIOUS
  <2>4. SetsOne(u, t, n, field, value)
    <3>1. CASE Acts(e)
      <4>1. IsEdit(e, SetOn(t, n, field, value))
        BY <2>1 DEF IsEdit
      <4>2. SetsOne(e.tree, t, n, field, value)
        BY ONLY <1>6, <3>1, <4>1, SetFacts, field \in Field, value \in Values(field)
      <4> QED BY <2>3, <4>2
    <3>2. CASE ~Acts(e)
      <4>1. /\ u = t
            /\ field = "limit" => value = t.limit[n]
            /\ field # "limit" => value = t.offset[n]
        BY <2>1, <2>3, <3>2 DEF Acts, SetOn, Nothing
      <4>2. \A r \in Select :
              /\ t.limit[r] = IF r = n /\ field = "limit" THEN value ELSE t.limit[r]
              /\ t.offset[r] = IF r = n /\ field # "limit" THEN value ELSE t.offset[r]
        <5>1. CASE field = "limit"
          BY <4>1, <5>1
        <5>2. CASE field # "limit"
          BY <4>1, <5>2
        <5> QED BY <5>1, <5>2
      <4> QED BY <1>6, <4>1, <4>2 DEF SetsOne
    <3> QED BY <3>1, <3>2
  <2>5. /\ u \in Tree /\ u.children = t.children /\ u.parent = t.parent /\ u.query = t.query
        /\ u.types = t.types /\ u.selects = t.selects /\ u.unions = t.unions
        /\ \A r \in Select :
             /\ u.limit[r] = IF r = n /\ field = "limit" THEN value ELSE t.limit[r]
             /\ u.offset[r] = IF r = n /\ field # "limit" THEN value ELSE t.offset[r]
    BY <2>4 DEF SetsOne
  <2>6. \A r \in Select : r # n => u.limit[r] = t.limit[r] /\ u.offset[r] = t.offset[r]
    BY <2>5
  <2>7. /\ u.limit[n] = IF field = "limit" THEN value ELSE None
        /\ u.offset[n] = IF field # "limit" THEN value ELSE 0
    BY <1>6, <1>7, <2>5
  <2>8. Good(u.limit[n]) /\ u.offset[n] >= 0
    <3>1. Good(None)
      BY DEF Good
    <3>2. field = "limit" => Good(value)
      BY <1>9, GoodValues
    <3>3. field # "limit" => value >= 0
      BY <1>9, GoodValues DEF Field
    <3> QED BY <2>7, <3>1, <3>2, <3>3
  <2>9. IsWrapped(u, tree)
    BY ONLY <1>3, <1>5, <2>5, <2>6, <2>8 DEF IsWrapped
  <2> QED BY <1>2, <1>3, <1>9, <2>2, <2>3, <2>7, <2>9
<1> QED BY <1>8, <1>9

\* What BoundsApplyToTheUnion says of a step.
BoundApplies(field, value) ==
  (SetBound(field, value) /\ Len(tree.children[Root]) > 1) =>
    Rows(tree', Root) =
      IF Refused(field, value) THEN Rows(tree, Root)
      ELSE IF field = "limit" THEN Bounded(Rows(tree, Root), value, 0)
      ELSE Bounded(Rows(tree, Root), None, value)

\* One call of set_limit or set_offset bounds the rows of the union.
LEMMA BoundStep ==
  ASSUME EditInv, NEW field \in Field, NEW value \in Values(field)
  PROVE  BoundApplies(field, value)
<1>1. SUFFICES ASSUME SetBound(field, value), Len(tree.children[Root]) > 1
               PROVE  Rows(tree', Root) =
                        IF Refused(field, value) THEN Rows(tree, Root)
                        ELSE IF field = "limit" THEN Bounded(Rows(tree, Root), value, 0)
                        ELSE Bounded(Rows(tree, Root), None, value)
  BY DEF BoundApplies
<1>2. PICK u, n : u = tree' /\ n = New(tree)
  OBVIOUS
<1>3. /\ SoundTree(tree) /\ CanWrap(tree) /\ IsWrapped(u, tree)
      /\ u.limit[n] = IF field = "limit" /\ ~Refused(field, value) THEN value ELSE None
      /\ u.offset[n] = IF field # "limit" /\ ~Refused(field, value) THEN value ELSE 0
  <2>1. PICK k : k = Len(tree.children[Root])
    OBVIOUS
  <2>2. k \in Nat /\ k > 1
    <3>1. tree.children[Root] \in Seq(Select)
      BY RootLists
    <3> QED BY <1>1, <2>1, <3>1, LenProperties
  <2>3. k # 1
    BY ONLY <2>2
  <2>4. Len(tree.children[Root]) # 1
    BY <2>1, <2>3
  <2> QED BY <1>1, <1>2, <2>4, BoundSet
<1>4. Rows(u, Root) = Bounded(Rows(tree, Root), u.limit[n], u.offset[n])
  BY <1>2, <1>3, WrappedRows
<1>5. Bounded(Rows(tree, Root), None, 0) = Rows(tree, Root)
  <2>1. HasRows(tree) /\ Root \in UnionNode
    BY <1>3, OldSelects DEF SoundTree, HasRows
  <2>2. Rows(tree, Root) \in Seq(Row)
    BY <2>1, RowsIs
  <2> QED BY <2>2, BoundedIs
<1> QED BY <1>2, <1>3, <1>4, <1>5

\* A limit or an offset set on a union of several SELECTs bounds the rows of them all, as long
\* as no recover() came without a save_state().
THEOREM BoundsApplyWhileBalanced ==
  Spec => [][Balanced => \A field \in Field : \A value \in Values(field) : BoundApplies(field, value)]_vars
<1>1. UnionInv /\ [Next]_vars => (Balanced => \A field \in Field : \A value \in Values(field) : BoundApplies(field, value))
  BY BoundStep DEF UnionInv
<1> QED BY <1>1, UnionInvAlways, PTL DEF Spec

\* A limit or an offset set on a union of several SELECTs bounds the rows of them all; one that
\* is refused changes no row.
THEOREM BoundsApplyAlways ==
  ASSUME MaxUnbalanced = 0
  PROVE  Spec => BoundsApplyToTheUnion
<1>1. UnionInv /\ [Next]_vars => \A field \in Field : \A value \in Values(field) : BoundApplies(field, value)
  BY BoundStep DEF UnionInv, Balanced
<1> QED BY <1>1, UnionInvAlways, PTL DEF Spec, BoundsApplyToTheUnion, BoundApplies
=============================================================================
