--------------------------- MODULE SelectClauses ---------------------------
(***************************************************************************)
(* The clauses of a SELECT and its variables: the selected terms, the      *)
(* GROUPBY, ORDERBY and HAVING terms, the relations of the WHERE clause,   *)
(* the variables they refer to, and the references that each variable      *)
(* keeps (stinfo['references']).  The editing methods of rql.stmts.Select  *)
(* record into the undo log; undefine_variable and the other methods that  *)
(* make several recorded edits are loops, one edit at a time.              *)
(*                                                                         *)
(* A term holds one VariableRef, bare or inside a function, and stands for *)
(* it.  Where a relation is in the WHERE clause is left to RestrictionTree.*)
(***************************************************************************)
EXTENDS Integers, Sequences, FiniteSets, SequencesExt

CONSTANTS
  Var,         \* identities of the Variable objects
  Ref,         \* identities of the VariableRef objects
  VarOf,       \* VariableRef.variable
  Wrapped,     \* the references that are inside a function
  ParsedTrees, \* the SELECTs that the edits start from
  MaxOps, MaxSaves, MaxUnbalanced, NoTree

ASSUME VarOfAssumption == VarOf \in [Ref -> Var] /\ Wrapped \subseteq Ref

ASSUME FiniteAssumption == IsFiniteSet(Var) /\ IsFiniteSet(Ref)

ASSUME BoundsAssumption ==
  MaxOps \in Nat /\ MaxSaves \in Nat /\ MaxUnbalanced \in Nat

VARIABLES
  tree, op_list, state_stack, memorizing, undoing, remaining,
  saved, target, trail, intact,
  agenda,  \* what the running method has yet to do
  strayed  \* history: the edits made that the code does not take back well

\* Relations, and the terms that an undo puts in the WHERE clause.
Node == [kind : {"relation", "term"}, refs : SUBSET Ref]

Tree == [selection : Seq(Ref), groupby : Seq(Ref), orderby : Seq(Ref), having : Seq(Ref),
         where        : SUBSET Node,
         defined_vars : SUBSET Var,
         solutions    : SUBSET Var,   \* the variables that the solutions bind
         references   : SUBSET Ref]   \* the references that the variables know of

ASSUME NoTreeAssumption == NoTree \notin Tree

\* Indexes are Python's plus one.
Op == [type : {"SelectVar", "AddGroup", "AddSort"}, node : Ref]
 \cup [type : {"UnselectVar", "RemoveGroup", "RemoveSort"}, node : Ref, index : Nat \ {0}]
 \cup [type : {"AddNode", "RemoveNode"}, node : Node]
 \cup [type : {"MakeVar"}, node : Var]
 \cup [type : {"UndefineVar"}, node : Var, solutions : SUBSET Var]
 \cup [type : {"SetHaving"}, value : Seq(Ref)]

Call == [call : {"remove_group_term", "remove_sort_term"}, arg : Ref]
   \cup [call : {"drop"}, arg : SUBSET Ref]
   \cup [call : {"undefine"}, arg : Var]
   \cup [call : {"remove_node"}, arg : Node]

-----------------------------------------------------------------------------
\* Reading a tree.

InTree(t) ==
  Range(t.selection) \cup Range(t.groupby) \cup Range(t.orderby) \cup Range(t.having)
    \cup UNION {n.refs : n \in t.where}

References(t, v) == {r \in t.references : VarOf[r] = v}

\* is_equivalent of two terms; Python's "==" on them is identity.
Equivalent(r, q) == VarOf[r] = VarOf[q] /\ (r \in Wrapped <=> q \in Wrapped)

HasEquivalents(s) == \E i, j \in DOMAIN s : i # j /\ Equivalent(s[i], s[j])

-----------------------------------------------------------------------------
\* The trees that editing makes and undoes exactly.

Related(t) == UNION {n.refs : n \in t.where}

\* A reference is in one term or one relation.
OnePlace(t) ==
  LET sel == Range(t.selection)
      grp == Range(t.groupby)
      ord == Range(t.orderby)
      hav == Range(t.having)
      rel == Related(t)
  IN  /\ \A s \in {t.selection, t.groupby, t.orderby, t.having} : IsInjective(s)
      /\ sel \cap (grp \cup ord \cup hav \cup rel) = {}
      /\ grp \cap (ord \cup hav \cup rel) = {}
      /\ ord \cap (hav \cup rel) = {}
      /\ hav \cap rel = {}
      /\ \A n, m \in t.where : n.refs \cap m.refs # {} => n = m

\* The WHERE clause holds no term, and no variable loses track of a reference.
Sound(t) ==
  /\ OnePlace(t)
  /\ \A n \in t.where : n.kind = "relation"
  /\ InTree(t) \subseteq t.references
  /\ t.solutions \subseteq t.defined_vars

\* The variables of the tree are defined in it.
VarsDefined(t) == {VarOf[r] : r \in InTree(t)} \subseteq t.defined_vars

\* The parser registers the references it makes, and defines their variables.
ASSUME ParsedAssumption ==
  \A t \in ParsedTrees :
    t \in Tree /\ Sound(t) /\ VarsDefined(t) /\ t.references = InTree(t)

-----------------------------------------------------------------------------
IndexOf(s, r) == SelectInSeq(s, LAMBDA q : q = r)

\* list.insert: an index after the end is the end.
Insert(s, i, r) == InsertAt(s, IF i <= Len(s) THEN i ELSE Len(s) + 1, r)

-----------------------------------------------------------------------------
SortedLast(t, r, i) == [t EXCEPT !.orderby = Append(@, r), !.references = @ \cup {r}]
UndefinedSolved(t, v) == [t EXCEPT !.defined_vars = @ \ {v}]

\* The tree after each elementary edit.

Selected(t, r, i)   == [t EXCEPT !.selection = Insert(@, i, r), !.references = @ \cup {r}]
Unselected(t, r)    == [t EXCEPT !.selection = RemoveFirst(@, r), !.references = @ \ {r}]
Grouped(t, r, i)    == [t EXCEPT !.groupby = Insert(@, i, r), !.references = @ \cup {r}]
Sorted(t, r, i)     == [t EXCEPT !.orderby = Insert(@, i, r), !.references = @ \cup {r}]
Unsorted(t, r)      == [t EXCEPT !.orderby = RemoveFirst(@, r), !.references = @ \ {r}]
Restricted(t, n)    == [t EXCEPT !.where = @ \cup {n}, !.references = @ \cup n.refs]
Unrestricted(t, n)  == [t EXCEPT !.where = @ \ {n}, !.references = @ \ n.refs]
Undefined(t, v)     == [t EXCEPT !.defined_vars = @ \ {v}, !.solutions = @ \ {v}]

\* remove_group_term deletes the first equivalent term, not the one it is given.
Ungrouped(t, r) ==
  [t EXCEPT !.groupby = RemoveFirstMatch(@, LAMBDA q : Equivalent(r, q)),
            !.references = @ \ {r}]

\* What a turn of the loop of undefine_variable does with one reference.
RelationsOf(t, r) == {n \in t.where : n.kind = "relation" /\ r \in n.refs}

DropEdit(t, r) ==
  CASE RelationsOf(t, r) # {} ->
         LET n == CHOOSE m \in RelationsOf(t, r) : TRUE
         IN  [tree |-> Unrestricted(t, n), op |-> [type |-> "RemoveNode", node |-> n]]
    [] RelationsOf(t, r) = {} /\ r \in Range(t.orderby) ->
         [tree |-> Unsorted(t, r),
          op   |-> [type |-> "RemoveSort", node |-> r, index |-> IndexOf(t.orderby, r)]]
    [] RelationsOf(t, r) = {} /\ r \in Range(t.groupby) \ Range(t.orderby) ->
         [tree |-> Ungrouped(t, r),
          op   |-> [type |-> "RemoveGroup", node |-> r, index |-> IndexOf(t.groupby, r)]]
    [] OTHER ->
         [tree |-> Unselected(t, r),
          op   |-> [type |-> "UnselectVar", node |-> r, index |-> IndexOf(t.selection, r)]]

\* The relation has left with another reference of it, or the reference is
\* inside a function, or in the HAVING clause: none of the branches finds it.
DropRaises(t, r) ==
  /\ RelationsOf(t, r) = {}
  /\ \/ r \in Wrapped
     \/ r \notin Range(t.orderby) \cup Range(t.groupby) \cup Range(t.selection)

-----------------------------------------------------------------------------
\* The undo() of the operations.

\* undefine_variable drops what still refers to the variable first.
DropAll(t, v) ==
  LET drop(r, u) == IF DropRaises(u, r) THEN u ELSE DropEdit(u, r).tree
  IN  FoldSet(drop, t, References(t, v))

\* MakeVarOperation undefines the variable.
UndoMakeVar(t, v) ==
  CASE References(t, v) = {} -> Undefined(t, v)
    [] \E r \in References(t, v) : DropRaises(t, r) -> DropAll(t, v)
    [] OTHER -> Undefined(DropAll(t, v), v)

\* RemoveNodeOperation puts a term, like a relation, in the WHERE clause; a term
\* was alone under the SELECT, and replaces all there is.
UndoRemoveNode(t, n) ==
  IF n.kind = "relation" THEN Restricted(t, n)
  ELSE [t EXCEPT !.where = {n}, !.references = @ \cup n.refs]

Undone(op, t) ==
  CASE op.type = "SelectVar"   -> IF op.node \in Range(t.selection)
                                  THEN Unselected(t, op.node) ELSE t
    [] op.type = "UnselectVar" -> Selected(t, op.node, op.index)
    [] op.type = "AddGroup"    -> Ungrouped(t, op.node)
    [] op.type = "RemoveGroup" -> Grouped(t, op.node, op.index)
    [] op.type = "AddSort"     -> Unsorted(t, op.node)
    [] op.type = "RemoveSort"  -> Sorted(t, op.node, op.index)
    [] op.type = "AddNode"     -> Unrestricted(t, op.node)
    [] op.type = "RemoveNode"  -> UndoRemoveNode(t, op.node)
    [] op.type = "MakeVar"     -> UndoMakeVar(t, op.node)
    [] op.type = "UndefineVar" -> [t EXCEPT !.defined_vars = @ \cup {op.node},
                                            !.solutions = op.solutions]
    [] op.type = "SetHaving"   -> [t EXCEPT !.references = @ \ Range(t.having),
                                            !.having = op.value]

Raises(op, t) ==
  CASE op.type = "SelectVar" -> op.node \notin Range(t.selection)
    [] op.type = "AddGroup"  -> \A q \in Range(t.groupby) : ~Equivalent(op.node, q)
    [] op.type = "AddSort"   -> op.node \notin Range(t.orderby)
    [] op.type = "AddNode"   -> op.node \notin t.where
    [] op.type = "MakeVar"   -> \E r \in References(t, op.node) : DropRaises(t, r)
    [] OTHER -> FALSE

Edits(t, op, u) == Undone(op, u) = t

Log == INSTANCE UndoHistory

-----------------------------------------------------------------------------
log  == <<tree, op_list, state_stack, memorizing, undoing, remaining,
          saved, target, trail, intact>>
vars == <<log, agenda, strayed>>

TypeOK ==
  /\ Log!HTypeOK
  /\ agenda \in Seq(Call)
  /\ strayed \subseteq {"equivalent groups", "having again", "term as a node"}

Init ==
  /\ tree \in ParsedTrees
  /\ Log!MgrInit
  /\ Log!HistoryInit
  /\ agenda = <<>>
  /\ strayed = IF HasEquivalents(tree.groupby) THEN {"equivalent groups"} ELSE {}

\* A method that makes one edit and returns.
EditOnce(u, op) ==
  /\ agenda = <<>>
  /\ Log!HChange(u, op)
  /\ UNCHANGED agenda

\* A method that goes through calls, none of them made yet.
Begin(calls) ==
  /\ agenda = <<>>
  /\ Log!Idle
  /\ calls # <<>>
  /\ agenda' = calls
  /\ UNCHANGED log

Calls(name, s) == [i \in DOMAIN s |-> [call |-> name, arg |-> s[i]]]

\* The references that the tree, the log and the running method still hold.
OpRefs(op) ==
  CASE op.type \in {"AddNode", "RemoveNode"} -> op.node.refs
    [] op.type \in {"MakeVar", "UndefineVar"} -> {}
    [] op.type = "SetHaving" -> Range(op.value)
    [] OTHER -> {op.node}

Held == InTree(tree) \cup tree.references \cup UNION {OpRefs(op) : op \in Range(op_list)}

\* A new VariableRef of v; the identity of one that nothing holds is as good as
\* another's.
Fresh(v, wrapped) ==
  {q \in Ref \ Held : VarOf[q] = v /\ (q \in Wrapped <=> wrapped)}

NewRef(v, wrapped) == CHOOSE q \in Fresh(v, wrapped) : TRUE

MayAdd(v, wrapped) == v \in tree.defined_vars /\ Fresh(v, wrapped) # {}

-----------------------------------------------------------------------------
\* The editing methods.

\* The index is given by switch_selection only, and is 0 there.
AddSelected(v, wrapped, first) ==
  /\ MayAdd(v, wrapped)
  /\ LET r == NewRef(v, wrapped)
     IN  EditOnce(Selected(tree, r, IF first THEN 1 ELSE Len(tree.selection) + 1),
                  [type |-> "SelectVar", node |-> r])
  /\ UNCHANGED strayed

RemoveSelected(r) ==
  /\ r \in Range(tree.selection)
  /\ EditOnce(Unselected(tree, r),
              [type |-> "UnselectVar", node |-> r, index |-> IndexOf(tree.selection, r)])
  /\ UNCHANGED strayed

AddGroupVar(v) ==
  /\ MayAdd(v, FALSE)
  /\ LET r == NewRef(v, FALSE)
     IN  /\ EditOnce(Grouped(tree, r, Len(tree.groupby) + 1), [type |-> "AddGroup", node |-> r])
         /\ strayed' = strayed \cup
              IF \E q \in Range(tree.groupby) : Equivalent(r, q)
              THEN {"equivalent groups"} ELSE {}

\* add_sort_var, and add_sort_term with a term that holds a function.
AddSortTerm(v, wrapped) ==
  /\ MayAdd(v, wrapped)
  /\ LET r == NewRef(v, wrapped)
     IN  EditOnce(Sorted(tree, r, Len(tree.orderby) + 1), [type |-> "AddSort", node |-> r])
  /\ UNCHANGED strayed

\* A comparison on a function of v.  The references of the terms it takes the
\* place of stay registered.
SetHaving(v) ==
  /\ MayAdd(v, TRUE)
  /\ LET r == NewRef(v, TRUE)
     IN  EditOnce([tree EXCEPT !.having = <<r>>, !.references = @ \cup {r}],
                  [type |-> "SetHaving", value |-> tree.having])
  /\ strayed' = strayed \cup IF tree.having # <<>> THEN {"having again"} ELSE {}

\* add_relation(v, rtype, w)
AddRelation(v, w) ==
  /\ MayAdd(v, FALSE)
  /\ w \in tree.defined_vars
  /\ \E q \in Fresh(w, FALSE) \ {NewRef(v, FALSE)} :
       LET n == [kind |-> "relation", refs |-> {NewRef(v, FALSE), q}]
       IN  EditOnce(Restricted(tree, n), [type |-> "AddNode", node |-> n])
  /\ UNCHANGED strayed

\* The new variable has a name that no other has; its object may be one that the
\* log has forgotten.
MakeVariable ==
  /\ \E v \in Var :
       /\ v \notin tree.defined_vars
       /\ \A r \in Held : VarOf[r] # v
       /\ \A op \in Range(op_list) : op.type \in {"MakeVar", "UndefineVar"} => op.node # v
       /\ EditOnce([tree EXCEPT !.defined_vars = @ \cup {v}], [type |-> "MakeVar", node |-> v])
  /\ UNCHANGED strayed

\* remove_node(relation, undefine): the variables that no other reference has are
\* undefined first.
RemoveNode(n, undefine) ==
  /\ n \in tree.where
  /\ LET unused == {v \in tree.defined_vars : References(tree, v) # {} /\ References(tree, v) \subseteq n.refs}
     IN  \E s \in SetToSeqs(IF undefine THEN unused ELSE {}) :
           Begin(Calls("undefine", s) \o Calls("remove_node", <<n>>))
  /\ UNCHANGED strayed

\* remove_node(term): Select.remove takes the term away and records that, then
\* remove_node records it as a node of the WHERE clause.
RemoveTermNode(r) ==
  /\ r \in Range(tree.orderby) \cup Range(tree.groupby)
  /\ LET call == IF r \in Range(tree.orderby) THEN "remove_sort_term" ELSE "remove_group_term"
     IN  Begin(Calls(call, <<r>>)
                 \o Calls("remove_node", <<[kind |-> "term", refs |-> {r}]>>))
  /\ strayed' = strayed \cup {"term as a node"}

RemoveSortTerm(r) == r \in Range(tree.orderby) /\ Begin(Calls("remove_sort_term", <<r>>)) /\ UNCHANGED strayed

RemoveGroupTerm(r) == r \in Range(tree.groupby) /\ Begin(Calls("remove_group_term", <<r>>)) /\ UNCHANGED strayed

RemoveSortTerms == Begin(Calls("remove_sort_term", tree.orderby)) /\ UNCHANGED strayed

RemoveGroups == Begin(Calls("remove_group_term", tree.groupby)) /\ UNCHANGED strayed

\* The references are those the variable knows of at the start, in any order.
UndefineVariable(v) ==
  /\ v \in tree.defined_vars
  /\ Begin((IF References(tree, v) = {} THEN <<>> ELSE Calls("drop", <<References(tree, v)>>))
              \o Calls("undefine", <<v>>))
  /\ UNCHANGED strayed

-----------------------------------------------------------------------------
\* The edits of the running method.

CallEdit(c) ==
  CASE c.call = "undefine" ->
         [tree |-> Undefined(tree, c.arg),
          op   |-> [type |-> "UndefineVar", node |-> c.arg, solutions |-> tree.solutions]]
    [] c.call = "remove_node" ->
         [tree |-> Unrestricted(tree, c.arg), op |-> [type |-> "RemoveNode", node |-> c.arg]]
    [] c.call = "remove_sort_term" ->
         [tree |-> Unsorted(tree, c.arg),
          op   |-> [type |-> "RemoveSort", node |-> c.arg, index |-> IndexOf(tree.orderby, c.arg)]]
    [] c.call = "remove_group_term" ->
         [tree |-> Ungrouped(tree, c.arg),
          op   |-> [type |-> "RemoveGroup", node |-> c.arg, index |-> IndexOf(tree.groupby, c.arg)]]

Proceed ==
  /\ agenda # <<>>
  /\ Head(agenda).call # "drop"
  /\ LET edit == CallEdit(Head(agenda)) IN Log!HChange(edit.tree, edit.op)
  /\ agenda' = Tail(agenda)
  /\ UNCHANGED strayed

Dropping == agenda # <<>> /\ Head(agenda).call = "drop"

Drop(r) ==
  /\ Dropping
  /\ r \in Head(agenda).arg
  /\ ~DropRaises(tree, r)
  /\ LET edit == DropEdit(tree, r) IN Log!HChange(edit.tree, edit.op)
  /\ agenda' = IF Head(agenda).arg = {r} THEN Tail(agenda)
               ELSE [agenda EXCEPT ![1].arg = @ \ {r}]
  /\ UNCHANGED strayed

\* The exception ends undefine_variable; what it has done so far stays.
DropFails(r) ==
  /\ Dropping
  /\ r \in Head(agenda).arg
  /\ DropRaises(tree, r)
  /\ agenda' = <<>>
  /\ UNCHANGED <<log, strayed>>

Next ==
  \/ \E v \in Var, wrapped, first \in BOOLEAN : AddSelected(v, wrapped, first)
  \/ \E r \in Ref : RemoveSelected(r)
  \/ \E v \in Var : AddGroupVar(v)
  \/ \E v \in Var, wrapped \in BOOLEAN : AddSortTerm(v, wrapped)
  \/ \E v \in Var : SetHaving(v)
  \/ \E v, w \in Var : AddRelation(v, w)
  \/ MakeVariable
  \/ \E n \in tree.where, undefine \in BOOLEAN : RemoveNode(n, undefine)
  \/ \E r \in Ref : RemoveTermNode(r)
  \/ \E r \in Ref : RemoveSortTerm(r)
  \/ \E r \in Ref : RemoveGroupTerm(r)
  \/ RemoveSortTerms
  \/ RemoveGroups
  \/ \E v \in Var : UndefineVariable(v)
  \/ Proceed
  \/ \E r \in Ref : Drop(r)
  \/ \E r \in Ref : DropFails(r)
  \/ agenda = <<>> /\ Log!HManager /\ UNCHANGED <<agenda, strayed>>

Spec == Init /\ [][Next]_vars

\* A client that keeps the log intact.
DisciplinedSpec == Init /\ [][Next /\ intact']_vars

-----------------------------------------------------------------------------
Settled == agenda = <<>> /\ Log!Idle /\ intact

\* check_references: the variables know of the references in the tree, and of no
\* other.
CheckReferences == tree.references = InTree(tree)

\* Between two calls of a client, the tree is sound, also when undefine_variable
\* has failed half-way: check_references passes, no reference is in two terms,
\* and neither references nor solutions are of an undefined variable.
SettledTreeIsSound ==
  (Settled /\ strayed = {}) =>
    /\ CheckReferences
    /\ IsInjective(tree.selection \o tree.groupby \o tree.orderby \o tree.having)
    /\ VarsDefined(tree) /\ tree.solutions \subseteq tree.defined_vars

TreeIsSound == TypeOK /\ SettledTreeIsSound

\* recover() gives back the SELECT of the save_state() it answers: its terms in
\* their order, relations, variables, solutions and references.
RecoverRestoresSelect ==
  (Settled /\ strayed \subseteq {"having again"} /\ target # NoTree) => tree = target

\* No operation raises while it is undone, and make_variable is undone when
\* nothing refers to the variable any more.
UndoNeverRaises ==
  (intact /\ strayed \subseteq {"having again"} /\ ~Log!Idle) =>
    LET op == Head(op_list)
    IN  ~Raises(op, tree) /\ (op.type = "MakeVar" => References(tree, op.node) = {})

\* What the methods record undoes what they did, loops that were cut short included.
UndoIsExact == RecoverRestoresSelect /\ UndoNeverRaises
=============================================================================
