----------------------------- MODULE UnionTree -----------------------------
(***************************************************************************)
(* The SELECTs of a union and of its subqueries: append_select,            *)
(* remove_select, set_limit and set_offset, which wrap the SELECTs of a    *)
(* union in a subquery when there are several, and set_possible_types,     *)
(* which removes SELECTs from subqueries; over the undo log of the union.  *)
(*                                                                         *)
(* A SELECT records into the log of the union that is its parent, if it    *)
(* has one: only the first union is saved and recovered here.  A SELECT is *)
(* reduced to its limit, its offset, its subquery and the types that its   *)
(* only column takes.                                                      *)
(***************************************************************************)
EXTENDS Integers, Sequences, SequencesExt, FiniteSets

CONSTANTS
  ParsedTrees,   \* the trees to start from
  Select,        \* the SELECTs, numbered in the order they are made
  UnionNode,     \* the unions, likewise; the first one is the root
  Etype,         \* the types that the column of a SELECT may take
  Limits,        \* the arguments of set_limit; bad values are refused
  Offsets,       \* the arguments of set_offset
  None,          \* no limit, no parent, no subquery
  MaxEdits,      \* bound: the calls of editing methods
  MaxOps, MaxSaves, MaxUnbalanced, NoTree

ASSUME NodesAssumption ==
  Select \subseteq Nat \ {0} /\ UnionNode \subseteq Nat \ {0} /\ 1 \in UnionNode /\ None \notin Int

ASSUME ValuesAssumption == Limits \subseteq Int \cup {None} /\ Offsets \subseteq Int

ASSUME BoundsAssumption ==
  MaxEdits \in Nat /\ MaxOps \in Nat /\ MaxSaves \in Nat /\ MaxUnbalanced \in Nat

VARIABLES tree, op_list, state_stack, memorizing, undoing, remaining,
          saved, target, trail, intact,
          edits,  \* counts the calls of editing methods
          stray   \* history: a saved SELECT was changed and nothing was recorded

Root == 1
Good(limit) == limit = None \/ limit > 0

Tree == [children : [UnionNode -> Seq(Select)],
         parent   : [Select -> UnionNode \cup {None}],
         query    : [Select -> UnionNode \cup {None}],
         limit    : [Select -> Int \cup {None}],
         offset   : [Select -> Int],
         types    : [Select -> SUBSET Etype],
         selects  : Nat,   \* the SELECTs made so far
         unions   : Nat]

ASSUME NoTreeAssumption == NoTree \notin Tree

\* Indexes are Python's plus one.
Op == [type : {"AppendSelect"}, select : Select]
 \cup [type : {"RemoveSelect"}, select : Select, origindex : Nat \ {0}]
 \cup [type : {"SetLimit"}, select : Select, value : Int \cup {None}]
 \cup [type : {"SetOffset"}, select : Select, value : Int]

-----------------------------------------------------------------------------
\* The trees that the parser makes.

\* A SELECT stands in one union, a subquery in one SELECT, and nothing is below itself.
IsForest(t) ==
  /\ \A u \in UnionNode : IsInjective(t.children[u])
  /\ \A u, v \in UnionNode : u # v => Range(t.children[u]) \cap Range(t.children[v]) = {}
  /\ \A r, s \in Select : t.query[r] = t.query[s] /\ t.query[r] # None => r = s
  /\ \A s \in Select : t.query[s] # Root
  /\ \A W \in SUBSET UnionNode :
       W # {} => \E u \in W : \A s \in Range(t.children[u]) : t.query[s] \notin W

\* What has not been made yet is empty, and stands nowhere.
Unmade(t) ==
  /\ t.unions >= Root
  /\ \A u \in UnionNode : t.children[u] \in Seq(1 .. t.selects) /\ (u > t.unions => t.children[u] = <<>>)
  /\ \A s \in Select :
       /\ t.query[s] # None => t.query[s] <= t.unions
       /\ s > t.selects => /\ t.query[s] = None /\ t.parent[s] = None
                           /\ t.limit[s] = None /\ t.offset[s] = 0

\* The types of the SELECTs of a union.
TypesOf(t, u) == UNION {t.types[s] : s \in Range(t.children[u])}

ASSUME ParsedAssumption ==
  \A t \in ParsedTrees :
    /\ t \in Tree /\ IsForest(t) /\ Unmade(t)
    /\ \A u \in UnionNode : \A s \in Range(t.children[u]) : t.parent[s] = u
    /\ \A s \in Select :
         /\ Good(t.limit[s]) /\ t.offset[s] >= 0
         /\ t.query[s] # None => t.types[s] \subseteq TypesOf(t, t.query[s])

-----------------------------------------------------------------------------
\* The tree.

\* The SELECTs of a union and those of the subqueries below it.
SelectsBelow(t, u) ==
  LET below[v \in UnionNode] ==
        LET here == Range(t.children[v])
        IN  here \cup UNION {below[t.query[s]] : s \in {r \in here : t.query[r] # None}}
  IN  below[u]

\* The union of a SELECT that is in use.
UnionOf(t, s) ==
  CHOOSE u \in ({Root} \cup {t.query[r] : r \in SelectsBelow(t, Root)}) \ {None} : s \in Range(t.children[u])

\* What a tree is to its reader.
View(t) ==
  [root |-> t.children[Root],
   selects |-> [s \in SelectsBelow(t, Root) |->
                  [limit |-> t.limit[s], offset |-> t.offset[s],
                   query |-> IF t.query[s] = None THEN <<>> ELSE t.children[t.query[s]]]]]

\* AppendSelectOperation.undo
Unappended(op, t) ==
  [t EXCEPT !.parent[op.select] = Root, !.children[Root] = RemoveFirst(@, op.select)]

\* Mutant of Unremoved: append() instead of insert().
UnremovedLast(op, t) == [t EXCEPT !.parent[op.select] = Root, !.children[Root] = Append(@, op.select)]

\* Mutant of Unremoved: the SELECT is not told of its parent.
UnremovedAside(op, t) == [t EXCEPT !.children[Root] = InsertAt(@, op.origindex, op.select)]

\* RemoveSelectOperation.undo
Unremoved(op, t) ==
  [t EXCEPT !.parent[op.select] = Root, !.children[Root] = InsertAt(@, op.origindex, op.select)]

Undone(op, t) ==
  CASE op.type = "AppendSelect" -> Unappended(op, t)
    [] op.type = "RemoveSelect" -> Unremoved(op, t)
    [] op.type = "SetLimit"     -> [t EXCEPT !.limit[op.select] = op.value]
    [] op.type = "SetOffset"    -> [t EXCEPT !.offset[op.select] = op.value]

\* children.remove() of a SELECT that is not there.
Raises(op, t) == op.type = "AppendSelect" /\ op.select \notin Range(t.children[Root])

Edits(t, op, u) == FALSE   \* the edits are Perform and SetPossibleTypes below

Log == INSTANCE UndoHistory

vars == <<Log!hvars, edits, stray>>

Init ==
  /\ tree \in ParsedTrees
  /\ Log!MgrInit
  /\ Log!HistoryInit
  /\ edits = 0 /\ stray = FALSE

-----------------------------------------------------------------------------
\* Editing methods.  An edit is what it has to record, each operation with the tree before
\* it, and the tree it makes; a silent one changes a SELECT that has no log to record into.

Nothing(t) == [steps |-> <<>>, tree |-> t, silent |-> FALSE]

\* One edit, then another.
Then(e, f) == [steps |-> e.steps \o f.steps, tree |-> f.tree, silent |-> e.silent \/ f.silent]

\* The SELECTs that a pending save_state() answers for.
SavedSelects == UNION {SelectsBelow(saved[i], Root) : i \in DOMAIN saved}

\* What s is to the log is as in HChange.
Perform(edit, s) ==
  LET ops == Reverse([i \in DOMAIN edit.steps |-> edit.steps[i].op])
      trees == Reverse([i \in DOMAIN edit.steps |-> edit.steps[i].before])
  IN  /\ Log!Idle
      /\ edits < MaxEdits /\ edits' = edits + 1
      /\ edit.steps # <<>> \/ edit.silent
      /\ tree' = edit.tree
      /\ IF Log!ShouldRegisterOp
         THEN /\ Len(op_list) + Len(ops) <= MaxOps
              /\ op_list' = ops \o op_list /\ trail' = trees \o trail
         ELSE UNCHANGED <<op_list, trail>>
      /\ target' = NoTree
      /\ stray' = (stray \/ (edit.silent /\ s \in SavedSelects))
      /\ UNCHANGED <<state_stack, memorizing, undoing, remaining, saved, intact>>

New(t) == t.selects + 1

\* append_select: the SELECT is not told of its parent.
Appended(t, s) == [t EXCEPT !.selects = s, !.children[Root] = Append(@, s)]
AppendOp(s) == [type |-> "AppendSelect", select |-> s]

\* remove_select, of the SELECT at an index.
Removed(t, i) == [t EXCEPT !.children[Root] = RemoveAt(@, i)]
RemoveOp(s, i) == [type |-> "RemoveSelect", select |-> s, origindex |-> i]

\* wrap_selects has moved the first k SELECTs to a new union.
Moved(t, k) ==
  LET selects == t.children[Root]
      child == t.unions + 1
      moved == SubSeq(selects, 1, k)
  IN  [t EXCEPT !.unions = child,
                !.children = [@ EXCEPT ![child] = moved, ![Root] = SubSeq(selects, k + 1, Len(selects))],
                !.parent = [s \in Select |-> IF s \in Range(moved) THEN child ELSE @[s]]]

\* wrap_selects: each SELECT goes to a new union, then a SELECT on it takes their place.
Wrapped(t) ==
  LET selects == t.children[Root]
      empty == Moved(t, Len(selects))
      new == [empty EXCEPT !.query[New(t)] = t.unions + 1, !.types[New(t)] = TypesOf(t, Root)]
      removal(k) == [op |-> RemoveOp(selects[k], 1), before |-> IF k = 1 THEN t ELSE Moved(t, k - 1)]
  IN  [steps |-> Append([k \in DOMAIN selects |-> removal(k)], [op |-> AppendOp(New(t)), before |-> empty]),
       tree |-> Appended(new, New(t)), silent |-> FALSE]

CanWrap(t) == t.children[Root] # <<>> /\ New(t) \in Select /\ t.unions + 1 \in UnionNode

\* Whether a SELECT records into the log of the root.
Registers(t, s) == t.parent[s] = Root

\* Select.set_limit and Select.set_offset; "field" is the attribute.
SetOn(t, s, field, value) ==
  LET u == IF field = "limit" THEN [t EXCEPT !.limit[s] = value] ELSE [t EXCEPT !.offset[s] = value]
      old == IF field = "limit" THEN t.limit[s] ELSE t.offset[s]
      op == [type |-> IF field = "limit" THEN "SetLimit" ELSE "SetOffset", select |-> s, value |-> old]
  IN  IF value = old THEN Nothing(t)
      ELSE [steps |-> IF Registers(t, s) THEN <<[op |-> op, before |-> t]>> ELSE <<>>,
            tree |-> u, silent |-> ~Registers(t, s)]

Refused(field, value) == IF field = "limit" THEN ~Good(value) ELSE value < 0

\* Mutant of SetOnRoot: the bound of the first SELECT, whatever comes with it.
SetOnRootFirst(t, field, value) ==
  IF t.children[Root] = <<>> \/ Refused(field, value) THEN Nothing(t)
  ELSE SetOn(t, t.children[Root][1], field, value)

\* Union.set_limit and Union.set_offset: a bad value is refused after the wrapping.
SetOnRoot(t, field, value) ==
  LET wrapping == IF Len(t.children[Root]) = 1 THEN Nothing(t) ELSE Wrapped(t)
      now == wrapping.tree
  IN  IF Refused(field, value) THEN wrapping
      ELSE Then(wrapping, SetOn(now, now.children[Root][1], field, value))

Values(field) == IF field = "limit" THEN Limits ELSE Offsets
Field == {"limit", "offset"}

\* The client asks the root for a limit or an offset.
SetBound(field, value) ==
  /\ Len(tree.children[Root]) = 1 \/ CanWrap(tree)
  /\ LET edit == SetOnRoot(tree, field, value)
     IN  Perform(edit, edit.tree.children[Root][1])

\* The client edits a SELECT itself.
SetSelectBound(s, field, value) ==
  /\ s \in SelectsBelow(tree, Root)
  /\ ~Refused(field, value)
  /\ Perform(SetOn(tree, s, field, value), s)

AppendSelect ==
  /\ New(tree) \in Select
  /\ Perform([steps |-> <<[op |-> AppendOp(New(tree)), before |-> tree]>>,
              tree |-> Appended(tree, New(tree)), silent |-> FALSE], New(tree))

RemoveSelect(i) ==
  LET s == tree.children[Root][i]
  IN  Perform([steps |-> <<[op |-> RemoveOp(s, i), before |-> tree]>>, tree |-> Removed(tree, i), silent |-> FALSE], s)

\* The SELECTs of a union that are kept: SelectSeq, as a recursive function.
Filtered(selects, keep) ==
  LET kept[i \in 0 .. Len(selects)] ==
        IF i = 0 THEN <<>>
        ELSE IF selects[i] \in keep THEN Append(kept[i - 1], selects[i])
        ELSE kept[i - 1]
  IN  kept[Len(selects)]

\* Mutant of Narrowed: a SELECT is kept if all its types are allowed.
NarrowedStrictly(t, s, types) ==
  IF t.query[s] = None THEN [t EXCEPT !.types[s] = types]
  ELSE [t EXCEPT !.types[s] = types, !.children[t.query[s]] = Filtered(@, {r \in Select : t.types[r] \subseteq types})]

\* Select.set_possible_types: what the subquery gives of other types is removed from it, by
\* its own union.
Narrowed(t, s, types) ==
  LET keep == {r \in Range(t.children[t.query[s]]) : t.types[r] \cap types # {}}
      narrow(all) == [r \in Select |-> IF r = s THEN types ELSE IF r \in keep THEN all[r] \cap types ELSE all[r]]
  IN  IF t.query[s] = None THEN [t EXCEPT !.types[s] = types]
      ELSE [t EXCEPT !.types = narrow(@), !.children[t.query[s]] = Filtered(@, keep)]

SetPossibleTypes(s, types) ==
  LET t == Narrowed(tree, s, types)
      gone == SelectsBelow(tree, Root) \ SelectsBelow(t, Root)
  IN  /\ s \in Range(tree.children[Root])
      /\ types \subseteq tree.types[s] /\ types # {} /\ types # tree.types[s]
      /\ Log!Idle
      /\ edits < MaxEdits /\ edits' = edits + 1
      /\ tree' = t
      /\ target' = NoTree
      /\ stray' = (stray \/ gone \cap SavedSelects # {})
      /\ UNCHANGED <<op_list, state_stack, memorizing, undoing, remaining, saved, trail, intact>>

Next ==
  \/ \E field \in Field : \E value \in Values(field) :
       \/ SetBound(field, value)
       \/ \E s \in Select : SetSelectBound(s, field, value)
  \/ AppendSelect
  \/ \E i \in DOMAIN tree.children[Root] : RemoveSelect(i)
  \/ \E s \in Select, types \in SUBSET Etype : SetPossibleTypes(s, types)
  \/ Log!HManager /\ UNCHANGED <<edits, stray>>

Spec == Init /\ [][Next]_vars

-----------------------------------------------------------------------------
\* _locate_subquery: the SELECT that gives a type; 0 for the exception.

\* The first SELECT that is an alias of a subquery answers for all those that follow.
Locate(t, u, etype) ==
  LET locate[v \in UnionNode] ==
        LET children == t.children[v]
            at == SelectInSeq(children, LAMBDA s : t.query[s] # None \/ etype \in t.types[s])
        IN  IF Len(children) = 1 /\ t.query[children[1]] = None THEN children[1]
            ELSE IF at = 0 THEN 0
            ELSE IF t.query[children[at]] # None THEN locate[t.query[children[at]]]
            ELSE children[at]
  IN  locate[u]

-----------------------------------------------------------------------------
\* What the editing methods must do.

TypeOK ==
  /\ tree \in Tree
  /\ \A s \in Select : Good(tree.limit[s]) /\ tree.offset[s] >= 0
  /\ \A u \in UnionNode : IsInjective(tree.children[u])
  /\ op_list \in Seq(Op) /\ Len(op_list) = Len(trail) /\ memorizing \in Int

\* recover() gives the SELECTs of the union back in their order, out of the subqueries that
\* they were moved to, with their bounds; unless a saved SELECT was edited below another
\* union or with no parent, where the log of the root records nothing.
RecoverRestoresUnion ==
  (intact /\ ~stray /\ Log!Idle /\ target # NoTree) => View(tree) = View(target)

\* No operation raises while it is undone.
UndoNeverRaises == Log!UndoNeverRaises

\* The operations of append_select, remove_select and the bounds undo what they did.
UndoIsExact == RecoverRestoresUnion /\ UndoNeverRaises

\* The parent of a SELECT is its union, or nothing when append_select() put it there.
ParentsLeadUp ==
  Log!Idle => \A s \in SelectsBelow(tree, Root) :
    tree.parent[s] = UnionOf(tree, s) \/ (tree.parent[s] = None /\ UnionOf(tree, s) = Root)

\* A SELECT is in one place, and finds the union that records its edits from there.
TreeIsSound == TypeOK /\ ParentsLeadUp

\* The rows of a union on a database where a SELECT without subquery finds two.
Bounded(rows, limit, offset) ==
  LET rest == SubSeq(rows, offset + 1, Len(rows))
  IN  IF limit = None \/ limit >= Len(rest) THEN rest ELSE SubSeq(rest, 1, limit)

Rows(t, u) ==
  LET rows[v \in UnionNode] ==
        LET of(s) == IF t.query[s] = None THEN <<<<s, 1>>, <<s, 2>>>> ELSE rows[t.query[s]]
            bounded(s) == Bounded(of(s), t.limit[s], t.offset[s])
        IN  FlattenSeq([i \in DOMAIN t.children[v] |-> bounded(t.children[v][i])])
  IN  rows[u]

\* A limit or an offset set on a union of several SELECTs bounds the rows of them all; one that is
\* refused changes no row.
BoundsApplyToTheUnion ==
  [][\A field \in Field : \A value \in Values(field) :
       (SetBound(field, value) /\ Len(tree.children[Root]) > 1) =>
         Rows(tree', Root) =
           IF Refused(field, value) THEN Rows(tree, Root)
           ELSE IF field = "limit" THEN Bounded(Rows(tree, Root), value, 0)
           ELSE Bounded(Rows(tree, Root), None, value)]_vars

\* The unions in use.
UnionsBelow(t) == ({Root} \cup {t.query[s] : s \in SelectsBelow(t, Root)}) \ {None}

\* A type that a SELECT of the union gives is located in a SELECT that gives it, however the
\* SELECTs were wrapped and narrowed, unless a union has a subquery beside another SELECT.
LocateFinds ==
  LET mixed(u) == /\ Len(tree.children[u]) > 1
                  /\ \E s \in Range(tree.children[u]) : tree.query[s] # None
  IN  (Log!Idle /\ \A u \in UnionsBelow(tree) : ~mixed(u)) =>
        \A s \in Range(tree.children[Root]) : \A etype \in tree.types[s] :
          LET found == Locate(tree, Root, etype)
          IN  found \in SelectsBelow(tree, Root) /\ etype \in tree.types[found]
=============================================================================
