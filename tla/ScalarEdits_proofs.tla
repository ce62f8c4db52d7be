------------------------ MODULE ScalarEdits_proofs -------------------------
(***************************************************************************)
(* The attribute setters meet what the undo log assumes of its edits, for  *)
(* any nodes and arguments; so what is proved of the log holds of them.    *)
(***************************************************************************)
EXTENDS ScalarEdits, SequenceTheorems, TLAPS

\* Relation.set_optional never leaves the four values of the attribute.
LEMMA SetOptionalType ==
  ASSUME NEW current \in Optional, NEW value
  PROVE  SetOptional(current, value) \in Optional
  BY DEF SetOptional, Optional, Sides

\* The undo() of a recorded operation turns a tree into a tree: the log's
\* assumption UndoneIsATree.
LEMMA UndoneType ==
  ASSUME NEW op \in Op, NEW t \in Tree
  PROVE  Undone(op, t) \in Tree
<1>1. CASE op \in [type : {"SetDistinct"}, node : Select, value : BOOLEAN]
  BY <1>1 DEF Undone, Tree
<1>2. CASE op \in [type : {"SetLimit"}, node : Select, value : Limit]
  BY <1>2 DEF Undone, Tree
<1>3. CASE op \in [type : {"SetOffset"}, node : Select, value : Offset]
  BY <1>3 DEF Undone, Tree
<1>4. CASE op \in [type : {"SetOptional"}, node : Relation, value : Optional]
  BY <1>4 DEF Undone, Tree
<1> QED BY <1>1, <1>2, <1>3, <1>4 DEF Op

\* Each setter is an edit of the log: it stays within the trees, and the
\* operation it records gives the former tree back.
LEMMA SetDistinctIsAnEdit ==
  ASSUME tree \in Tree, SetDistinct
  PROVE  Log!HEdit
<1>1. PICK s \in Select, value \in BOOLEAN :
        Log!HChange([tree EXCEPT !.distinct[s] = value],
                    [type |-> "SetDistinct", node |-> s, value |-> tree.distinct[s]])
  BY DEF SetDistinct
<1> DEFINE op == [type |-> "SetDistinct", node |-> s, value |-> tree.distinct[s]]
           u  == [tree EXCEPT !.distinct[s] = value]
<1>2. op \in Op /\ u \in Tree
  BY DEF Op, Tree
<1>3. Undone(op, u) = tree
  BY DEF Undone, Tree
<1> QED BY <1>1, <1>2, <1>3 DEF Log!HEdit, Edits

LEMMA SetLimitIsAnEdit ==
  ASSUME tree \in Tree, SetLimit
  PROVE  Log!HEdit
<1>1. PICK s \in Select, limit \in LimitArgs \cap Limit :
        Log!HChange([tree EXCEPT !.limit[s] = limit],
                    [type |-> "SetLimit", node |-> s, value |-> tree.limit[s]])
  BY DEF SetLimit
<1> DEFINE op == [type |-> "SetLimit", node |-> s, value |-> tree.limit[s]]
           u  == [tree EXCEPT !.limit[s] = limit]
<1>2. op \in Op /\ u \in Tree
  BY DEF Op, Tree
<1>3. Undone(op, u) = tree
  BY DEF Undone, Tree
<1> QED BY <1>1, <1>2, <1>3 DEF Log!HEdit, Edits

LEMMA SetOffsetIsAnEdit ==
  ASSUME tree \in Tree, SetOffset
  PROVE  Log!HEdit
<1>1. PICK s \in Select, offset \in OffsetArgs \cap Offset :
        Log!HChange([tree EXCEPT !.offset[s] = offset],
                    [type |-> "SetOffset", node |-> s, value |-> tree.offset[s]])
  BY DEF SetOffset
<1> DEFINE op == [type |-> "SetOffset", node |-> s, value |-> tree.offset[s]]
           u  == [tree EXCEPT !.offset[s] = offset]
<1>2. op \in Op /\ u \in Tree
  BY DEF Op, Tree
<1>3. Undone(op, u) = tree
  BY DEF Undone, Tree
<1> QED BY <1>1, <1>2, <1>3 DEF Log!HEdit, Edits

LEMMA ChangeOptionalIsAnEdit ==
  ASSUME tree \in Tree, ChangeOptional
  PROVE  Log!HEdit
<1>1. PICK r \in Relation, value \in Optional :
        Log!HChange([tree EXCEPT !.optional[r] = SetOptional(tree.optional[r], value)],
                    [type |-> "SetOptional", node |-> r, value |-> tree.optional[r]])
  BY DEF ChangeOptional
<1> DEFINE op == [type |-> "SetOptional", node |-> r, value |-> tree.optional[r]]
           u  == [tree EXCEPT !.optional[r] = SetOptional(tree.optional[r], value)]
<1>2. op \in Op /\ u \in Tree
  BY SetOptionalType DEF Op, Tree
<1>3. Undone(op, u) = tree
  BY DEF Undone, Tree
<1> QED BY <1>1, <1>2, <1>3 DEF Log!HEdit, Edits

LEMMA InitialTreeType ==
  ASSUME Init
  PROVE  tree \in Tree
  BY DEF Init, Tree

\* A push on the log.
LEMMA PushOp ==
  ASSUME NEW s \in Seq(Op), NEW op \in Op
  PROVE  /\ <<op>> \o s \in Seq(Op)
         /\ Len(<<op>> \o s) = Len(s) + 1
         /\ <<op>> \o s # <<>>
         /\ Head(<<op>> \o s) = op
         /\ Tail(<<op>> \o s) = s
  OBVIOUS

SetterStep == SetDistinct \/ SetLimit \/ SetOffset \/ ChangeOptional

LEMMA SetterIsAnEdit ==
  ASSUME tree \in Tree, SetterStep
  PROVE  Log!HEdit
  BY SetDistinctIsAnEdit, SetLimitIsAnEdit, SetOffsetIsAnEdit, ChangeOptionalIsAnEdit
     DEF SetterStep

\* The tree and the recorded operations keep their types.
TreeType ==
  /\ tree \in Tree
  /\ op_list \in Seq(Op)
  /\ state_stack \in Seq(Nat)
  /\ remaining \in 0 .. Len(op_list)

LEMMA TreeTypeStep ==
  ASSUME TreeType, [Next]_vars
  PROVE  TreeType'
<1> USE DEF TreeType
<1>0. Len(op_list) \in Nat
  BY LenProperties
<1>1. CASE SetterStep
  <2>0. state_stack' = state_stack
    BY <1>1, SetterIsAnEdit DEF Log!HEdit, Log!HChange, Log!Change, Log!AddOperation, Log!mgr
  <2>1. PICK op \in Op, u \in Tree : Log!HChange(u, op)
    BY <1>1, SetterIsAnEdit DEF Log!HEdit
  <2>2. CASE Log!ShouldRegisterOp
    <3>1. /\ tree' = u /\ op_list' = <<op>> \o op_list /\ remaining' = remaining
      BY <2>1, <2>2 DEF Log!HChange, Log!Change, Log!AddOperation
    <3>2. op_list' \in Seq(Op) /\ Len(op_list') = Len(op_list) + 1
      BY <3>1, PushOp
    <3> QED BY <1>0, <2>0, <3>1, <3>2
  <2>3. CASE ~Log!ShouldRegisterOp
    BY <2>0, <2>1, <2>3 DEF Log!HChange, Log!Change, Log!mgr
  <2> QED BY <2>2, <2>3
<1>2. CASE Log!HUndo \/ Log!HUndoRaises
  <2>1. /\ remaining > 0
        /\ tree' = Undone(Head(op_list), tree)
        /\ op_list' = Tail(op_list)
        /\ remaining' \in {remaining - 1, 0}
        /\ state_stack' = state_stack
    BY <1>2 DEF Log!HUndo, Log!Undo, Log!HUndoRaises, Log!UndoRaises
  <2>2. op_list # <<>>
    BY <1>0, <2>1, EmptySeq
  <2>3. Head(op_list) \in Op /\ op_list' \in Seq(Op) /\ Len(op_list') = Len(op_list) - 1
    BY <2>1, <2>2, HeadTailProperties
  <2> QED BY <1>0, <2>1, <2>3, UndoneType
<1>3. CASE Log!HRecover
  <2>0. /\ UNCHANGED <<tree, op_list>>
        /\ state_stack # <<>>
        /\ state_stack' = SubSeq(state_stack, 1, Len(state_stack) - 1)
        /\ remaining' = Log!RecoverCount(Log!LastStateIndex, Len(op_list))
    BY <1>3 DEF Log!HRecover, Log!Recover, Log!Front
  <2>1. Log!LastStateIndex \in Nat
    BY <2>0, EmptySeq, ElementOfSeq DEF Log!LastStateIndex, Log!Last
  <2>3. state_stack' \in Seq(Nat)
    <3>1. Len(state_stack) \in Nat \ {0}
      BY <2>0, EmptySeq
    <3>2. \A i \in 1 .. Len(state_stack) - 1 : state_stack[i] \in Nat
      BY <3>1, ElementOfSeq
    <3> QED BY <2>0, <3>1, <3>2, SubSeqProperties
  <2>2. remaining' \in 0 .. Len(op_list)
    <3>1. CASE 0 < Log!LastStateIndex /\ Log!LastStateIndex < Len(op_list)
      BY <1>0, <2>0, <2>1, <3>1 DEF Log!RecoverCount
    <3>2. CASE ~(0 < Log!LastStateIndex /\ Log!LastStateIndex < Len(op_list))
      BY <1>0, <2>0, <2>1, <3>2 DEF Log!RecoverCount
    <3> QED BY <3>1, <3>2
  <2> QED BY <2>0, <2>2, <2>3
<1>4. CASE Log!HFlush
  <2>1. UNCHANGED <<tree, state_stack, remaining>> /\ remaining = 0 /\ op_list' = <<>>
    BY <1>4 DEF Log!HFlush, Log!Flush, Log!Idle
  <2>2. op_list' \in Seq(Op) /\ Len(op_list') = 0
    BY <2>1, EmptySeq
  <2> QED BY <2>1, <2>2
<1>5. CASE Log!HSaveState
  <2>1. /\ UNCHANGED <<tree, op_list, remaining>>
        /\ state_stack' = Append(state_stack, Len(op_list))
    BY <1>5 DEF Log!HSaveState, Log!SaveState
  <2>2. state_stack' \in Seq(Nat)
    BY <1>0, <2>1
  <2> QED BY <2>1, <2>2
<1>6. CASE Log!HRecoverRefused \/ UNCHANGED vars
  BY <1>6 DEF Log!HRecoverRefused, Log!RecoverRefused, vars, Log!hvars, Log!vars, Log!mgr
<1> QED BY <1>1, <1>2, <1>3, <1>4, <1>5, <1>6 DEF Next, SetterStep, Log!HManager

LEMMA InitialType ==
  ASSUME Init
  PROVE  TreeType
<1>1. op_list = <<>> /\ state_stack = <<>> /\ remaining = 0
  BY DEF Init, Log!MgrInit
<1>2. op_list \in Seq(Op) /\ state_stack \in Seq(Nat) /\ Len(op_list) = 0
  BY <1>1, EmptySeq
<1> QED BY <1>1, <1>2, InitialTreeType DEF TreeType

\* The setters use the undo log as it must be used: each of their steps is an edit
\* whose operation gives the former tree back.
THEOREM SettersUseTheLog == Spec => UsesTheLog
<1>1. Init => TreeType /\ Log!HInit
  BY InitialType, InitialTreeType DEF Init, Log!HInit, Log!Init
<1>2. TreeType /\ [Next]_vars => TreeType' /\ [Log!HNext]_vars
  <2> SUFFICES ASSUME TreeType, [Next]_vars
               PROVE  [Log!HNext]_vars
    BY TreeTypeStep
  <2>1. CASE SetterStep
    BY <2>1, SetterIsAnEdit DEF TreeType, Log!HNext
  <2> QED BY <2>1 DEF Next, SetterStep, Log!HNext
<1> QED BY <1>1, <1>2, PTL DEF Spec, UsesTheLog

\* No attribute changes unrecorded while a save_state() is pending.
THEOREM SettersRecordChanges == Spec => ChangesAreRecorded
<1>1. Init => TreeType
  BY InitialType
<1>2. TreeType /\ [Next]_vars =>
        /\ TreeType'
        /\ [(Log!Idle /\ Log!ShouldRegisterOp /\ tree' # tree) =>
              /\ op_list' # <<>>
              /\ Tail(op_list') = op_list
              /\ Undone(Head(op_list'), tree') = tree]_vars
  <2> SUFFICES ASSUME TreeType, [Next]_vars,
                      Log!Idle, Log!ShouldRegisterOp, tree' # tree
               PROVE  /\ op_list' # <<>>
                      /\ Tail(op_list') = op_list
                      /\ Undone(Head(op_list'), tree') = tree
    BY TreeTypeStep
  <2>1. CASE SetterStep
    <3>1. PICK op \in Op, u \in Tree : Undone(op, u) = tree /\ Log!HChange(u, op)
      BY <2>1, SetterIsAnEdit DEF TreeType, Log!HEdit, Edits
    <3>2. tree' = u /\ op_list' = <<op>> \o op_list
      BY <3>1 DEF Log!HChange, Log!Change, Log!AddOperation
    <3>3. op_list' # <<>> /\ Head(op_list') = op /\ Tail(op_list') = op_list
      BY <3>2, PushOp DEF TreeType
    <3> QED BY <3>1, <3>2, <3>3
  <2>2. CASE Log!HManager \/ UNCHANGED vars
    BY <2>2 DEF Log!HManager, Log!HSaveState, Log!SaveState, Log!HRecover, Log!Recover,
                Log!HRecoverRefused, Log!RecoverRefused, Log!HUndo, Log!Undo,
                Log!HUndoRaises, Log!UndoRaises, Log!HFlush, Log!Flush, Log!Idle,
                vars, Log!hvars, Log!vars
  <2> QED BY <2>1, <2>2 DEF Next, SetterStep
<1> QED BY <1>1, <1>2, PTL DEF Spec, ChangesAreRecorded

\* What set_optional makes of a side that is there.
LEMMA SetOptionalKeepsSides ==
  ASSUME NEW current \in Optional, current # None, NEW value
  PROVE  SetOptional(current, value) \in {current, "both"}
  BY DEF SetOptional, Optional

\* change_optional never takes a side of an outer join away: only an undo does.
THEOREM SettersKeepSides == Spec => SidesAreKept
<1>1. Init => TreeType
  BY InitialType
<1>2. TreeType /\ [Next]_vars =>
        /\ TreeType'
        /\ [Log!Idle => \A r \in Relation :
                         \/ tree.optional[r] = None
                         \/ tree'.optional[r] \in {tree.optional[r], "both"}]_vars
  <2> SUFFICES ASSUME TreeType, [Next]_vars, Log!Idle,
                      NEW r \in Relation, tree.optional[r] # None
               PROVE  tree'.optional[r] \in {tree.optional[r], "both"}
    BY TreeTypeStep
  <2>1. tree \in Tree /\ tree.optional[r] \in Optional
    BY DEF TreeType, Tree
  <2>2. CASE ChangeOptional
    <3>1. PICK q \in Relation, value \in Optional :
            tree' = [tree EXCEPT !.optional[q] = SetOptional(tree.optional[q], value)]
      BY <2>2 DEF ChangeOptional, Log!HChange, Log!Change
    <3>2. CASE q = r
      BY <2>1, <3>1, <3>2, SetOptionalKeepsSides DEF Tree
    <3>3. CASE q # r
      BY <2>1, <3>1, <3>3 DEF Tree
    <3> QED BY <3>2, <3>3
  <2>3. CASE SetDistinct \/ SetLimit \/ SetOffset
    <3>1. tree'.optional = tree.optional
      BY <2>1, <2>3 DEF SetDistinct, SetLimit, SetOffset, Log!HChange, Log!Change, Tree
    <3> QED BY <3>1
  <2>4. CASE Log!HManager \/ UNCHANGED vars
    <3>1. tree' = tree
      BY <2>4 DEF Log!HManager, Log!HSaveState, Log!SaveState, Log!HRecover, Log!Recover,
                  Log!HRecoverRefused, Log!RecoverRefused, Log!HUndo, Log!Undo,
                  Log!HUndoRaises, Log!UndoRaises, Log!HFlush, Log!Flush, Log!Idle,
                  vars, Log!hvars, Log!vars
    <3> QED BY <3>1
  <2> QED BY <2>2, <2>3, <2>4 DEF Next
<1> QED BY <1>1, <1>2, PTL DEF Spec, SidesAreKept
-----------------------------------------------------------------------------
\* What is proved of the undo log, with the setters for its edits.
Chain == INSTANCE UndoHistory_proofs

\* The log's assumptions hold of the setters.
LEMMA LogAssumptions ==
  /\ Chain!BoundsAssumption
  /\ Chain!NoTreeAssumption
  /\ Chain!EditsAreUndoable
  /\ Chain!UndoneIsATree
<1>1. Chain!BoundsAssumption /\ Chain!NoTreeAssumption
  BY BoundsAssumption, NoTreeAssumption DEF Chain!BoundsAssumption, Chain!NoTreeAssumption
<1>2. Chain!EditsAreUndoable
  BY DEF Chain!EditsAreUndoable, Edits, Raises
<1>3. Chain!UndoneIsATree
  BY UndoneType DEF Chain!UndoneIsATree
<1> QED BY <1>1, <1>2, <1>3

\* The log that the setters use is the one of the lemmas.
LEMMA SameInit ==
  ASSUME Log!HInit
  PROVE  Chain!HInit
  BY DEF Log!HInit, Log!Init, Log!MgrInit, Log!HistoryInit,
         Chain!HInit, Chain!Init, Chain!MgrInit, Chain!HistoryInit

LEMMA SameNext ==
  ASSUME [Log!HNext]_vars
  PROVE  [Chain!HNext]_(Chain!hvars)
<1> USE DEF Log!Idle, Log!mgr, Chain!Idle, Chain!mgr
<1>1. CASE Log!HEdit
  BY <1>1 DEF Chain!HNext,
       Log!HEdit, Log!HChange, Log!Change, Log!ShouldRegisterOp, Log!AddOperation,
       Chain!HEdit, Chain!HChange, Chain!Change, Chain!ShouldRegisterOp, Chain!AddOperation
<1>2. CASE Log!HSaveState
  BY <1>2 DEF Chain!HNext, Chain!HManager, Log!HSaveState, Log!SaveState,
       Chain!HSaveState, Chain!SaveState
<1>3. CASE Log!HRecover
  BY <1>3 DEF Chain!HNext, Chain!HManager,
       Log!HRecover, Log!Recover, Log!Overshoots, Log!LastStateIndex, Log!RecoverCount, Log!Last, Log!Front,
       Chain!HRecover, Chain!Recover, Chain!Overshoots, Chain!LastStateIndex, Chain!RecoverCount,
       Chain!Last, Chain!Front
<1>4. CASE Log!HRecoverRefused
  BY <1>4 DEF Chain!HNext, Chain!HManager, Log!HRecoverRefused, Log!RecoverRefused,
       Chain!HRecoverRefused, Chain!RecoverRefused
<1>5. CASE Log!HUndo \/ Log!HUndoRaises
  BY <1>5 DEF Chain!HNext, Chain!HManager, Log!HUndo, Log!Undo, Log!HUndoRaises, Log!UndoRaises,
       Chain!HUndo, Chain!Undo, Chain!HUndoRaises, Chain!UndoRaises
<1>6. CASE Log!HFlush
  BY <1>6 DEF Chain!HNext, Chain!HManager, Log!HFlush, Log!Flush, Chain!HFlush, Chain!Flush
<1>7. CASE UNCHANGED vars
  BY <1>7 DEF vars, Log!hvars, Log!vars, Log!history, Chain!hvars, Chain!vars, Chain!history
<1> QED BY <1>1, <1>2, <1>3, <1>4, <1>5, <1>6, <1>7 DEF Log!HNext, Log!HManager

\* recover() gives every attribute its value of the save_state() it answers, through
\* any nesting of saves, as long as the log is intact.
THEOREM AttributesAreRestored == Spec => []RecoverRestoresAttributes
<1> USE LogAssumptions
<1>1. Log!HInit => Chain!HTypeOK /\ Chain!LogInv
  BY SameInit, Chain!LogInit
<1>2. Chain!HTypeOK /\ Chain!LogInv /\ [Log!HNext]_vars => (Chain!HTypeOK /\ Chain!LogInv)'
  <2>1. Chain!LogInv => Chain!LengthsAgree
    BY DEF Chain!LogInv
  <2> QED BY <2>1, SameNext, Chain!TypeStep, Chain!LogStep
<1>3. Chain!HTypeOK /\ Chain!LogInv => RecoverRestoresAttributes
  <2>1. Chain!HTypeOK => TypeOK
    BY DEF TypeOK, Chain!HTypeOK, Log!HTypeOK, Chain!TypeOK, Log!TypeOK
  <2>2. Chain!RecoverRestores => Log!RecoverRestores
    BY DEF Chain!RecoverRestores, Log!RecoverRestores, Chain!Idle, Log!Idle
  <2> QED BY <2>1, <2>2, Chain!ChainRestores DEF RecoverRestoresAttributes
<1>4. UsesTheLog => []RecoverRestoresAttributes
  BY <1>1, <1>2, <1>3, PTL DEF UsesTheLog
<1> QED BY <1>4, SettersUseTheLog
=============================================================================
