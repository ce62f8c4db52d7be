------------------------------ MODULE LiveTree ------------------------------
(***************************************************************************)
(* The tree of a SELECT as the passes that rewrite it see it: nodes that   *)
(* know their parent, variables that know their references.                *)
(*                                                                         *)
(* A node is its number; Stmt is the statement.  A node that a pass takes  *)
(* out of the tree keeps its number, and what refers to it still does.     *)
(***************************************************************************)
EXTENDS Syntax, FiniteSets, FiniteSetsExt

Stmt == 0
Clauses == <<"selection", "groupby", "orderby", "where", "having">>

\* What prepare_annotation leaves of a variable; 0 and "" stand for None.
Prepared ==
  [scope |-> {}, relations |-> {}, rhsrelations |-> {}, selected |-> {}, typerel |-> 0, uidrel |-> 0,
   attrvar |-> "", constnode |-> 0, optrelations |-> {}, blocsimplification |-> {}]

\* What it does not touch.
Kept == [references |-> {}, attrvars |-> {}, having |-> <<>>, optcomparisons |-> {}]

\* get_variable(name)
Defined(s, name) ==
  IF name \in Range(s.defined_vars) THEN s
  ELSE [s EXCEPT !.defined_vars = Append(@, name), !.stinfo = (name :> (Prepared @@ Kept)) @@ @]

Of(s, n) == s.nodes[n].class
Variable(s, n) == s.nodes[n].what
Parent(s, n) == s.nodes[n].parent

\* The statement with one more node, which has no kids yet; a VariableRef registers itself.
Made(s, class, what, optional, parent) ==
  LET new == Len(s.nodes) + 1
      t == [s EXCEPT !.nodes = Append(@, [class |-> class, what |-> what, optional |-> optional,
                                          kids |-> <<>>, parent |-> parent])]
  IN  IF class # "VariableRef" THEN t
      ELSE LET u == Defined(t, what)
           IN  [u EXCEPT !.stinfo[what].references = @ \cup {new}]

Newest(s) == Len(s.nodes)

\* append(kid)
Appended(s, parent, kid) ==
  [s EXCEPT !.nodes[parent].kids = Append(@, kid), !.nodes[kid].parent = parent]

RECURSIVE Grown(_, _, _)
\* The statement with the nodes of a tree under a parent.
Grown(s, tree, parent) ==
  LET t == Made(s, tree.class, tree.what, tree.optional, parent)
      grow(u, kid) == Appended(Grown(u, kid, Newest(t)), Newest(t), Newest(u) + 1)
  IN  FoldLeft(grow, t, tree.kids)

\* The statement that the parser has made of a text.
Live(select) ==
  LET grow(clause, s, tree) == [Grown(s, tree, Stmt) EXCEPT ![clause] = Append(@, Newest(s) + 1)]
      bare == [nodes |-> <<>>, stinfo |-> <<>>, defined_vars |-> <<>>, distinct |-> select.distinct,
               selection |-> <<>>, groupby |-> <<>>, orderby |-> <<>>, where |-> <<>>, having |-> <<>>,
               vargraph |-> <<>>, vartypes |-> <<>>, index |-> 0, has_aggregat |-> FALSE,
               errors |-> {}]
  IN  FoldLeft(LAMBDA s, clause : FoldLeft(LAMBDA t, tree : grow(clause, t, tree), s, select[clause]),
               bare, Clauses)

ChildrenOf(s, n) ==
  IF n = Stmt THEN s.selection \o s.groupby \o s.orderby \o s.where \o s.having ELSE s.nodes[n].kids

RECURSIVE Below(_, _)
\* iget_nodes: the nodes of a subtree, itself included.
Below(s, n) == {n} \cup UNION {Below(s, kid) : kid \in Range(ChildrenOf(s, n))}

VariableRefs(s, n) == {m \in Below(s, n) \ {Stmt} : Of(s, m) = "VariableRef"}
VariablesBelow(s, n) == {Variable(s, m) : m \in VariableRefs(s, n)}

RECURSIVE Written(_, _)
\* A node and what is below it, without the numbers.
Written(s, n) ==
  [class |-> Of(s, n), what |-> s.nodes[n].what, optional |-> s.nodes[n].optional,
   kids |-> [i \in DOMAIN s.nodes[n].kids |-> Written(s, s.nodes[n].kids[i])]]

Equivalent(s, m, n) == Written(s, m) = Written(s, n)

RECURSIVE Ancestors(_, _)
\* A node and its parents, up to the statement.
Ancestors(s, n) == IF n = Stmt THEN <<Stmt>> ELSE <<n>> \o Ancestors(s, Parent(s, n))

\* scope: the EXISTS or the statement that a node belongs to, itself if it is one.
IsScope(s, n) == n = Stmt \/ Of(s, n) = "Exists"
ScopeOf(s, n) == Head(SelectSeq(Ancestors(s, n), LAMBDA m : IsScope(s, m)))

\* relation(): the relation that a node is in, 0 if none.
RelationOf(s, n) ==
  LET relations == SelectSeq(Ancestors(s, n), LAMBDA m : m # Stmt /\ Of(s, m) = "Relation")
  IN  IF relations = <<>> THEN 0 ELSE Head(relations)

\* ored(): an Or above, with no EXISTS on the way but one where the call begins.
Ored(s, n) ==
  LET above == Ancestors(s, n)
      last == SelectInSubSeq(above, 2, Len(above), LAMBDA m : IsScope(s, m))
  IN  \E i \in 1..last : above[i] # Stmt /\ Of(s, above[i]) = "Or"

\* common_parent(n, m)
CommonParent(s, n, m) ==
  LET above == Range(Ancestors(s, n))
  IN  Ancestors(s, m)[SelectInSeq(Ancestors(s, m), LAMBDA k : k \in above)]

\* parent.replace(old, new), under a statement for its WHERE clause.
Replaced(s, parent, old, new) ==
  LET put(kids) == [i \in DOMAIN kids |-> IF kids[i] = old THEN new ELSE kids[i]]
  IN  IF parent = Stmt THEN [s EXCEPT !.where = put(@), !.nodes[new].parent = Stmt]
      ELSE [s EXCEPT !.nodes[parent].kids = put(@), !.nodes[new].parent = parent]

\* Mutant of Unregistered: unregister_reference() is forgotten.
UnregisteredKept(s, vrefs) == s

Unregistered(s, vrefs) ==
  [s EXCEPT !.stinfo = [name \in DOMAIN @ |-> [@[name] EXCEPT !.references = @ \ vrefs]]]

RECURSIVE RemovedWhole(_, _, _)
\* Mutant of Removed: an And or Or goes with its child as a Not does.
RemovedWhole(s, parent, child) ==
  IF parent = Stmt THEN [s EXCEPT !.where = <<>>] ELSE RemovedWhole(s, Parent(s, parent), parent)

RECURSIVE Removed(_, _, _)
\* parent.remove(child): a Not and an EXISTS go with their child, the other child takes
\* the place of an And or Or.
Removed(s, parent, child) ==
  CASE parent = Stmt -> [s EXCEPT !.where = <<>>]
    [] Of(s, parent) \in {"And", "Or"} ->
         LET other == CHOOSE kid \in Range(s.nodes[parent].kids) : kid # child
         IN  Replaced(s, Parent(s, parent), parent, other)
    [] OTHER -> Removed(s, Parent(s, parent), parent)

\* A relation: its subject, the operator and the object of its comparison.
Lhs(s, r) == s.nodes[r].kids[1]
Operator(s, r) == s.nodes[s.nodes[r].kids[2]].what
Rhs(s, r) == s.nodes[s.nodes[r].kids[2]].kids[1]
IsVariable(s, n) == Of(s, n) = "VariableRef"

IsTypesRestriction(s, r) ==
  /\ s.nodes[r].what = "is"
  /\ Of(s, Rhs(s, r)) = "Etype" \/ (Of(s, Rhs(s, r)) = "Function" /\ s.nodes[Rhs(s, r)].what = "IN")
=============================================================================
