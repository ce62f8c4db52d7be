-------------------------- MODULE RestrictionTree --------------------------
(***************************************************************************)
(* The restrictions of a SELECT: the tree of And, Or, Not, Exists and      *)
(* Relation nodes under its WHERE clause, edited by                        *)
(* EditableMixIn.add_restriction and remove_node (on the SELECT or on an   *)
(* Exists) with their undo operations, over the undo log.                  *)
(*                                                                         *)
(* A relation stands for itself and everything below it; its variable      *)
(* references are registered and unregistered together.                    *)
(***************************************************************************)
EXTENDS Integers, Sequences, FiniteSets, SequencesExt

CONSTANTS
  Relation, Binary, Not, Exists,  \* identities of the nodes, Binary for And and Or
  Select,                         \* the SELECT node
  Nil,                            \* Python's None
  ParsedTrees,                    \* the trees the edits start from
  MaxOps, MaxSaves, MaxUnbalanced, NoTree

VARIABLES tree, op_list, state_stack, memorizing, undoing, remaining,
          saved, target, trail, intact,
          astray  \* history: remove_node has followed a wrong parent

Unary == Not \cup Exists
Node  == Relation \cup Binary \cup Unary
Scope == {Select} \cup Exists

ASSUME KindsAssumption ==
  /\ Relation \cap (Binary \cup Unary) = {} /\ Binary \cap Unary = {} /\ Not \cap Exists = {}
  /\ Select \notin Node /\ Nil \notin Node \cup {Select}

ASSUME FiniteAssumption == IsFiniteSet(Node)

ASSUME BoundsAssumption ==
  MaxOps \in Nat /\ MaxSaves \in Nat /\ MaxUnbalanced \in Nat

\* children: of a binary node, of Not, and the query of Exists; references: the
\* relations whose variable references are registered.
Tree == [where      : Node \cup {Nil},
         children   : [Node -> Seq(Node)],
         parent     : [Node -> Node \cup {Select, Nil}],
         references : SUBSET Relation]

ASSUME NoTreeAssumption == NoTree \notin Tree

\* Indexes are Python's plus one, 0 stands for None.
Op == [type : {"AddNode"}, node : Relation]
 \cup [type : {"ReplaceNode"}, old_node : Node, new_node : Binary]
 \cup [type : {"RemoveNode"}, node : Node, parent : Node \cup {Select}, index : 0 .. 2]

-----------------------------------------------------------------------------
\* Reading a tree.

ChildSet(t, n) == Range(t.children[n])

\* n and everything below it: what iget_nodes visits.
Subtree(t, n) ==
  LET below[i \in 0 .. Cardinality(Node)] ==
        IF i = 0 THEN {n}
        ELSE LET above == below[i - 1] IN above \cup UNION {ChildSet(t, m) : m \in above}
  IN  below[Cardinality(Node)]

Relations(t, n) == Subtree(t, n) \cap Relation

InTree(t) == IF t.where = Nil THEN {} ELSE Subtree(t, t.where)

\* The node that has n as a child, for a node of the tree.
HolderOf(t, n) ==
  IF n = t.where THEN Select
  ELSE CHOOSE m \in InTree(t) : n \in ChildSet(t, m)

\* How many children a node has.
Arity(n) == IF n \in Relation THEN 0 ELSE IF n \in Binary THEN 2 ELSE 1

\* No node is held twice, nor holds itself, and every one has its children.
IsATree(t) ==
  LET nodes == InTree(t)
  IN  /\ \A m, k \in nodes : ChildSet(t, m) \cap ChildSet(t, k) # {} => m = k
      /\ \A m \in nodes : \A n \in ChildSet(t, m) : m \notin Subtree(t, n)
      /\ \A m \in nodes : Len(t.children[m]) = Arity(m) /\ IsInjective(t.children[m])

\* The parser gives every node its parent, and registers the references it makes.
ASSUME ParsedAssumption ==
  \A t \in ParsedTrees :
    /\ t \in Tree /\ IsATree(t)
    /\ \A n \in InTree(t) : t.parent[n] = HolderOf(t, n)
    /\ \A n \in Node \ InTree(t) : t.children[n] = <<>>
    /\ t.references = InTree(t) \cap Relation

WhereOf(t, s) == IF s = Select THEN t.where ELSE t.children[s][1]

SetWhere(t, s, n) ==
  LET u == IF s = Select THEN [t EXCEPT !.where = n] ELSE [t EXCEPT !.children[s] = <<n>>]
  IN  [u EXCEPT !.parent[n] = s]

Register(t, n)   == [t EXCEPT !.references = @ \cup Relations(t, n)]
Unregister(t, n) == [t EXCEPT !.references = @ \ Relations(t, n)]

-----------------------------------------------------------------------------
\* parent.replace(old, new), as Select, Exists and Node define it.

CanReplace(t, p, old) ==
  CASE p = Select  -> old = t.where
    [] p \in Node  -> old \in ChildSet(t, p)
    [] OTHER       -> FALSE

\* Mutant of Replaced: "new_child.parent = self" is forgotten under a node.
ReplacedKeepsParent(t, p, old, new) ==
  CASE p = Select ->
         [t EXCEPT !.where = new, !.parent = [@ EXCEPT ![old] = Nil, ![new] = Select]]
    [] p \in Node ->
         [t EXCEPT !.children[p] = [i \in DOMAIN @ |-> IF @[i] = old THEN new ELSE @[i]]]

\* Select clears the parent of the replaced node, the others leave it.
Replaced(t, p, old, new) ==
  CASE p = Select ->
         [t EXCEPT !.where = new, !.parent = [@ EXCEPT ![old] = Nil, ![new] = Select]]
    [] p \in Node ->
         [t EXCEPT !.children[p] = [i \in DOMAIN @ |-> IF @[i] = old THEN new ELSE @[i]],
                   !.parent[new] = p]

IndexIn(t, p, n) ==
  IF p \in Scope THEN 0 ELSE CHOOSE i \in DOMAIN t.children[p] : t.children[p][i] = n

\* Not and Exists pass on the removal of their child to their own parent.
Lifted(t, n) ==
  LET lift[m \in Node] == IF t.parent[m] \in Unary THEN lift[t.parent[m]] ELSE m
  IN  lift[n]

\* Mutant of Sibling: "children[index]" for "children[not index]".
SiblingItself(t, p, n) == n

Sibling(t, p, n) == CHOOSE m \in ChildSet(t, p) : m # n

\* parent.remove(n) fails when the parent does not have n as a child.
CanRemove(t, n) ==
  LET m == Lifted(t, n)
      p == t.parent[m]
  IN  IF p \in Binary THEN m \in ChildSet(t, p) /\ CanReplace(t, t.parent[p], p)
      ELSE p = Select /\ m = t.where

\* A binary node goes with its child, and the other child takes its place.
Removed(t, n) ==
  LET m == Lifted(t, n)
      p == t.parent[m]
  IN  IF p \in Binary THEN Replaced(t, t.parent[p], p, Sibling(t, p, m))
      ELSE [t EXCEPT !.where = Nil, !.parent[m] = Nil]

\* What parent.remove(n) returns, kept by RemoveNodeOperation.
RemoveOp(t, n) ==
  LET m == Lifted(t, n)
      p == t.parent[m]
  IN  IF p \in Binary
      THEN [type |-> "RemoveNode", node |-> p, parent |-> t.parent[p],
            index |-> IndexIn(t, t.parent[p], p)]
      ELSE [type |-> "RemoveNode", node |-> m, parent |-> p, index |-> 0]

-----------------------------------------------------------------------------
\* The undo() of the three operations.

UndoAddNode(op, t) ==
  LET u == Unregister(t, op.node)
  IN  IF CanRemove(t, op.node) THEN Removed(u, op.node) ELSE u

\* Mutant of UndoReplaceNode: the references of the former node stay out.
UndoReplaceNodeForgets(op, t) ==
  LET u == Unregister(t, op.new_node)
      p == t.parent[op.new_node]
  IN  IF CanReplace(t, p, op.new_node) THEN Replaced(u, p, op.new_node, op.old_node) ELSE u

UndoReplaceNode(op, t) ==
  LET u == Register(Unregister(t, op.new_node), op.old_node)
      p == t.parent[op.new_node]
  IN  IF CanReplace(t, p, op.new_node) THEN Replaced(u, p, op.new_node, op.old_node) ELSE u

\* Without an index the removed node is its own "sibling": the parent of the child
\* that had taken its place is left as it is.
UndoRemoveNode(op, t) ==
  LET u == IF op.index = 0
           THEN SetWhere(t, op.parent, op.node)
           ELSE [t EXCEPT !.children[op.parent][op.index] = op.node,
                          !.parent = [@ EXCEPT ![t.children[op.parent][op.index]] = op.node,
                                               ![op.node] = op.parent]]
  IN  Register(u, op.node)

Undone(op, t) ==
  CASE op.type = "AddNode"     -> UndoAddNode(op, t)
    [] op.type = "ReplaceNode" -> UndoReplaceNode(op, t)
    [] op.type = "RemoveNode"  -> UndoRemoveNode(op, t)

Raises(op, t) ==
  CASE op.type = "AddNode"     -> ~CanRemove(t, op.node)
    [] op.type = "ReplaceNode" -> ~CanReplace(t, t.parent[op.new_node], op.new_node)
    [] op.type = "RemoveNode"  -> FALSE

-----------------------------------------------------------------------------
\* What an edit must give back: the nodes of the tree where they were, and the
\* registered references.  Parents are left to ParentsLeadToScope.
Restriction(t) ==
  [where      |-> t.where,
   children   |-> [n \in InTree(t) |-> t.children[n]],
   references |-> t.references]

Edits(t, op, u) == Restriction(Undone(op, u)) = Restriction(t)

Log == INSTANCE UndoHistory

vars == <<Log!hvars, astray>>

TypeOK == Log!HTypeOK /\ astray \in BOOLEAN

Init ==
  /\ tree \in ParsedTrees
  /\ Log!MgrInit
  /\ Log!HistoryInit
  /\ astray = FALSE

OpNodes(op) ==
  IF op.type = "ReplaceNode" THEN {op.old_node, op.new_node} ELSE {op.node}

\* The node objects that t and some operations still refer to.
Live(t, ops) == InTree(t) \cup UNION {Subtree(t, n) : n \in UNION {OpNodes(op) : op \in ops}}

\* The identities of the other objects are free for new ones, and nothing is
\* remembered of them.
Collected(t, ops) ==
  LET live == Live(t, ops)
  IN  [t EXCEPT !.children = [n \in Node |-> IF n \in live THEN @[n] ELSE <<>>],
                !.parent   = [n \in Node |-> IF n \in live THEN @[n] ELSE Nil]]

Recorded == Range(op_list)

Change(u, op) ==
  Log!HChange(Collected(u, Recorded \cup IF Log!ShouldRegisterOp THEN {op} ELSE {}), op)

\* add_relation(...) on a scope: make_relation, which registers the references of
\* the new relation, then add_restriction.
AddRestriction(s) ==
  /\ s = Select \/ s \in InTree(tree)
  /\ Relation \ Live(tree, Recorded) # {}
  /\ LET live == Live(tree, Recorded)
         r == CHOOSE n \in Relation \ live : TRUE
         w == WhereOf(tree, s)
         t == [tree EXCEPT !.references = @ \cup {r}]
     IN  IF w = Nil
         THEN Change(SetWhere(t, s, r), [type |-> "AddNode", node |-> r])
         ELSE /\ Binary \ live # {}
              /\ LET b == CHOOSE n \in Binary \ live : TRUE
                     u == [t EXCEPT !.children[b] = <<w, r>>,
                                    !.parent = [@ EXCEPT ![w] = b, ![r] = b]]
                 IN  Change(SetWhere(u, s, b),
                            [type |-> "ReplaceNode", old_node |-> w, new_node |-> b])
  /\ UNCHANGED astray

\* From n up to the node that leaves in its stead, a parent is wrong.
FollowsWrongParent(t, n) ==
  \E m \in InTree(t) :
    /\ n \in Subtree(t, m) /\ m \in Subtree(t, Lifted(t, n))
    /\ t.parent[m] # HolderOf(t, m)

\* remove_node(n), for a node of the tree.
RemoveNode(n) ==
  /\ n \in InTree(tree)
  /\ CanRemove(tree, n)
  /\ Change(Removed(Unregister(tree, n), n), RemoveOp(tree, n))
  /\ astray' = (astray \/ FollowsWrongParent(tree, n))

\* The parent of n does not have it as a child: remove_node raises, once it has
\* unregistered the references and before it records anything.
RemoveNodeRaises(n) ==
  /\ Log!Idle
  /\ n \in InTree(tree)
  /\ ~CanRemove(tree, n)
  /\ tree' = Unregister(tree, n)
  /\ astray' = TRUE
  /\ target' = NoTree
  /\ UNCHANGED <<op_list, state_stack, memorizing, undoing, remaining, saved, trail, intact>>

Next ==
  \/ \E s \in Scope : AddRestriction(s)
  \/ \E n \in Node : RemoveNode(n)
  \/ \E n \in Node : RemoveNodeRaises(n)
  \/ Log!HManager /\ UNCHANGED astray

Spec == Init /\ [][Next]_vars

\* A client that keeps the log intact.
DisciplinedSpec == Init /\ [][Next /\ intact']_vars

-----------------------------------------------------------------------------
\* The tree is a tree, whatever is removed from it.
TreeIsATree == IsATree(tree)

\* check_references: the registered references are those of the tree, unless
\* remove_node has followed a wrong parent.
ReferencesMatchTree ==
  (intact /\ ~astray) => tree.references = InTree(tree) \cap Relation

\* The scope a node stands in, from the top of the tree.
ScopeOf(t, n) ==
  LET up[m \in InTree(t)] ==
        LET h == HolderOf(t, m) IN IF h \in Scope THEN h ELSE up[h]
  IN  up[n]

\* What the code guarantees of parents: only a child of a binary node may have a
\* wrong one, and it is the scope it stands in.  So "node.scope" and "node.stmt",
\* which follow the parents, stay right.
ParentsLeadToScope ==
  intact =>
    \A n \in InTree(tree) :
      \/ tree.parent[n] = HolderOf(tree, n)
      \/ HolderOf(tree, n) \in Binary /\ tree.parent[n] = ScopeOf(tree, n)

\* Between and within the calls.
TreeIsSound == TypeOK /\ TreeIsATree /\ ReferencesMatchTree /\ ParentsLeadToScope

\* recover() gives back the restriction of the save_state() it answers.
RecoverRestoresRestriction ==
  (intact /\ ~astray /\ Log!Idle /\ target # NoTree) => Restriction(tree) = Restriction(target)

\* No operation raises while it is undone.
UndoNeverRaises == (intact /\ ~Log!Idle) => ~Raises(Head(op_list), tree)

\* The operations of add_restriction and remove_node undo what they did.
UndoIsExact == RecoverRestoresRestriction /\ UndoNeverRaises

\* "remove the given node from the tree": the relations that leave are those of
\* the node, no others.
RemovesTheNodeOnly(n) ==
  RemoveNode(n) =>
    InTree(tree') \cap Relation = (InTree(tree) \cap Relation) \ Relations(tree, n)

RemoveIsExact == [][\A n \in Node : ~astray' => RemovesTheNodeOnly(n)]_vars
=============================================================================
