---------------------------- MODULE ScalarEdits ----------------------------
(***************************************************************************)
(* The editing methods that assign one attribute of a node:                *)
(* Select.set_distinct, set_limit and set_offset, Relation.change_optional.*)
(* Each records the value it replaces (undo.ChangeValueOperation), over    *)
(* the undo log.                                                           *)
(***************************************************************************)
EXTENDS Integers, Sequences

CONSTANTS
  Select,       \* the SELECTs of the edited union
  Relation,     \* the relations of their WHERE clauses
  LimitArgs,    \* the arguments of set_limit
  OffsetArgs,   \* the arguments of set_offset
  None,         \* Python's None
  MaxOps, MaxSaves, MaxUnbalanced, NoTree

ASSUME ArgsAssumption ==
  /\ None \notin Int
  /\ LimitArgs \subseteq Int \cup {None}
  /\ OffsetArgs \subseteq Int \cup {None}

ASSUME BoundsAssumption ==
  MaxOps \in Nat /\ MaxSaves \in Nat /\ MaxUnbalanced \in Nat

VARIABLES tree, op_list, state_stack, memorizing, undoing, remaining,
          saved, target, trail, intact

Sides == {"left", "right"}

Limit    == {None} \cup {l \in Int : l > 0}
Offset   == {None} \cup Nat
Optional == {None, "both"} \cup Sides

Tree == [distinct : [Select -> BOOLEAN],
         limit    : [Select -> Limit],
         offset   : [Select -> Offset],
         optional : [Relation -> Optional]]

ASSUME NoTreeAssumption == NoTree \notin Tree

\* Set...Operation(previous_value, node).
Op == [type : {"SetDistinct"}, node : Select,   value : BOOLEAN]
 \cup [type : {"SetLimit"},    node : Select,   value : Limit]
 \cup [type : {"SetOffset"},   node : Select,   value : Offset]
 \cup [type : {"SetOptional"}, node : Relation, value : Optional]

Undone(op, t) ==
  CASE op.type = "SetDistinct" -> [t EXCEPT !.distinct[op.node] = op.value]
    [] op.type = "SetLimit"    -> [t EXCEPT !.limit[op.node] = op.value]
    [] op.type = "SetOffset"   -> [t EXCEPT !.offset[op.node] = op.value]
    [] op.type = "SetOptional" -> [t EXCEPT !.optional[op.node] = op.value]

Raises(op, t) == FALSE

\* Mutant of SetOptional: a plain assignment.
SetOptionalAssigns(current, value) == value

\* Relation.set_optional: a second side makes it "both", None changes nothing,
\* and "both" itself fails the assertion.
SetOptional(current, value) ==
  IF value \notin Sides THEN current
  ELSE IF current \in {None, value} THEN value
  ELSE "both"

-----------------------------------------------------------------------------
\* The log this component records into: any operation that undoes its edit.
Edits(t, op, u) == Undone(op, u) = t

Log == INSTANCE UndoHistory

vars == Log!hvars

TypeOK == Log!HTypeOK

\* The attributes of a query as it was parsed.
Init ==
  /\ tree \in [distinct : [Select -> BOOLEAN],
              limit    : [Select -> LimitArgs \cap Limit],
              offset   : [Select -> OffsetArgs \cap Offset],
              optional : [Relation -> Optional]]
  /\ Log!MgrInit
  /\ Log!HistoryInit

\* Mutant of SetDistinct: "select.distinct = value", which is not recorded.
SetDistinctUnrecorded ==
  /\ Log!Idle
  /\ \E s \in Select, value \in BOOLEAN :
       /\ value # tree.distinct[s]
       /\ tree' = [tree EXCEPT !.distinct[s] = value]
  /\ target' = NoTree
  /\ UNCHANGED <<op_list, state_stack, memorizing, undoing, remaining, saved, trail, intact>>

\* A setter given the current value records nothing and changes nothing.
SetDistinct ==
  \E s \in Select, value \in BOOLEAN :
    /\ value # tree.distinct[s]
    /\ Log!HChange([tree EXCEPT !.distinct[s] = value],
                   [type |-> "SetDistinct", node |-> s, value |-> tree.distinct[s]])

\* set_limit and set_offset first refuse bad values.
SetLimit ==
  \E s \in Select, limit \in LimitArgs \cap Limit :
    /\ limit # tree.limit[s]
    /\ Log!HChange([tree EXCEPT !.limit[s] = limit],
                   [type |-> "SetLimit", node |-> s, value |-> tree.limit[s]])

\* Mutant of SetOffset: the new value is recorded, not the replaced one.
SetOffsetRecordsNew ==
  \E s \in Select, offset \in OffsetArgs \cap Offset :
    /\ offset # tree.offset[s]
    /\ Log!HChange([tree EXCEPT !.offset[s] = offset],
                   [type |-> "SetOffset", node |-> s, value |-> offset])

SetOffset ==
  \E s \in Select, offset \in OffsetArgs \cap Offset :
    /\ offset # tree.offset[s]
    /\ Log!HChange([tree EXCEPT !.offset[s] = offset],
                   [type |-> "SetOffset", node |-> s, value |-> tree.offset[s]])

\* change_optional records on "value != self.optional", which also holds when the
\* assignment that follows changes nothing, or raises.
ChangeOptional ==
  \E r \in Relation, value \in Optional :
    /\ value # tree.optional[r]
    /\ Log!HChange([tree EXCEPT !.optional[r] = SetOptional(tree.optional[r], value)],
                   [type |-> "SetOptional", node |-> r, value |-> tree.optional[r]])

Next ==
  \/ SetDistinct
  \/ SetLimit
  \/ SetOffset
  \/ ChangeOptional
  \/ Log!HManager

Spec == Init /\ [][Next]_vars

\* What the setters are to the undo log: edits whose operation undoes them.
UsesTheLog == Log!HInit /\ [][Log!HNext]_vars

-----------------------------------------------------------------------------
\* recover() gives every attribute the value it had at the save_state() it
\* answers, as long as the log is intact, and it is a value that the setters accept.
RecoverRestoresAttributes == TypeOK /\ Log!RecoverRestores

\* While a save_state() is pending, no attribute changes without an operation
\* that gives its former value back.
ChangesAreRecorded ==
  [][(Log!Idle /\ Log!ShouldRegisterOp /\ tree' # tree) =>
       /\ op_list' # <<>>
       /\ Tail(op_list') = op_list
       /\ Undone(Head(op_list'), tree') = tree]_vars

\* An outer join, once asked for on one side, is taken back by recover() only:
\* whatever change_optional is given, the side stays.
SidesAreKept ==
  [][Log!Idle =>
       \A r \in Relation :
         \/ tree.optional[r] = None
         \/ tree'.optional[r] \in {tree.optional[r], "both"}]_vars
=============================================================================
