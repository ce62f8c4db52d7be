-------------------------- MODULE SelectionManager --------------------------
(***************************************************************************)
(* The undo log of a syntax tree: rql.undo.SelectionManager together with  *)
(* the methods of rql.stmts.Union that drive it (save_state, recover,      *)
(* should_register_op).                                                    *)
(*                                                                         *)
(* The manager never looks into the tree it manages, nor into the          *)
(* operations it keeps: they are parameters here.  The modules of the      *)
(* editing methods instantiate this one with the tree and the operations   *)
(* they are about.                                                         *)
(***************************************************************************)
EXTENDS Integers, Sequences, SequencesExt

CONSTANTS
  Tree,            \* the states a syntax tree can be in
  Op,              \* the operations that can be recorded
  Edits(_, _, _),  \* Edits(t, op, u): some editing method turns t into u and records op
  Undone(_, _),    \* Undone(op, t): the tree after op.undo() on t
  Raises(_, _),    \* Raises(op, t): op.undo() on t raises
  MaxOps,          \* bound: number of recorded operations
  MaxSaves,        \* bound: number of pending save_state()
  MaxUnbalanced    \* bound: number of recover() calls without a save_state()

ASSUME BoundsAssumption ==
  MaxOps \in Nat /\ MaxSaves \in Nat /\ MaxUnbalanced \in Nat

VARIABLES
  tree,         \* the syntax tree (SelectionManager._selection)
  op_list,      \* the recorded operations, the latest one first
  state_stack,  \* len(op_list) at each pending save_state()
  memorizing,   \* Union.memorizing
  undoing,      \* Union.undoing
  remaining     \* operations the running recover() has yet to undo, 0 when none runs

mgr  == <<op_list, state_stack, memorizing, undoing, remaining>>
vars == <<tree, mgr>>

TypeOK ==
  /\ tree \in Tree
  /\ op_list \in Seq(Op)
  /\ state_stack \in Seq(Nat)
  /\ memorizing \in Int
  /\ undoing \in BOOLEAN
  /\ remaining \in 0 .. Len(op_list)

MgrInit ==
  /\ op_list = <<>>
  /\ state_stack = <<>>
  /\ memorizing = 0
  /\ undoing = FALSE
  /\ remaining = 0

Init == tree \in Tree /\ MgrInit

Idle == remaining = 0

\* "self.memorizing and not self.undoing": any non-zero counter is true.
ShouldRegisterOp == memorizing # 0 /\ ~undoing

LastStateIndex == Last(state_stack)

\* Mutants of RecoverCount: without the slice; one operation short.
RecoverCountAll(last, len) == len
RecoverCountShort(last, len) == IF 0 < last /\ last + 1 < len THEN len - last - 1 ELSE len

\* The length of "op_list[:-last] or op_list[:]".  The slice is empty when
\* last is 0, and also when last is not smaller than len(op_list).
RecoverCount(last, len) == IF 0 < last /\ last < len THEN len - last ELSE len

\* Mutant of AddOperation: append instead of insert(0).
AddOperationLast(op) ==
  /\ Len(op_list) < MaxOps
  /\ op_list' = Append(op_list, op)
  /\ UNCHANGED <<state_stack, memorizing, undoing, remaining>>

\* add_operation(op), called by the editing methods when they should register.
AddOperation(op) ==
  /\ Len(op_list) < MaxOps
  /\ op_list' = <<op>> \o op_list
  /\ UNCHANGED <<state_stack, memorizing, undoing, remaining>>

\* An editing method that turns the tree into u, for which it has op to record.
Change(u, op) ==
  /\ Idle
  /\ tree' = u
  /\ IF ShouldRegisterOp THEN AddOperation(op) ELSE UNCHANGED mgr

Edit == \E op \in Op, u \in Tree : Edits(tree, op, u) /\ Change(u, op)

SaveState ==
  /\ Idle
  /\ Len(state_stack) < MaxSaves
  /\ state_stack' = Append(state_stack, Len(op_list))
  /\ memorizing' = memorizing + 1
  /\ UNCHANGED <<tree, op_list, undoing, remaining>>

\* Mutant of Recover: the counter is not decremented.
RecoverKeepsMemorizing ==
  /\ Idle
  /\ memorizing > 0
  /\ state_stack # <<>>
  /\ state_stack' = Front(state_stack)
  /\ remaining' = RecoverCount(LastStateIndex, Len(op_list))
  /\ UNCHANGED <<tree, op_list, memorizing, undoing>>

Recover ==
  /\ Idle
  /\ memorizing > 0
  /\ state_stack # <<>>
  /\ memorizing' = memorizing - 1
  /\ state_stack' = Front(state_stack)
  /\ remaining' = RecoverCount(LastStateIndex, Len(op_list))
  /\ UNCHANGED <<tree, op_list, undoing>>

\* recover() without a save_state(): the counter is decremented before the
\* assertion on it fails.
RecoverRefused ==
  /\ Idle
  /\ memorizing <= 0
  /\ memorizing > -MaxUnbalanced
  /\ memorizing' = memorizing - 1
  /\ UNCHANGED <<tree, op_list, state_stack, undoing, remaining>>

\* One undo() of the loop of recover().
Undo ==
  /\ remaining > 0
  /\ ~Raises(Head(op_list), tree)
  /\ tree' = Undone(Head(op_list), tree)
  /\ op_list' = Tail(op_list)
  /\ undoing' = FALSE
  /\ remaining' = remaining - 1
  /\ UNCHANGED <<state_stack, memorizing>>

\* Mutant of UndoRaises: the exception is caught and the operation tried again.
UndoTriesAgain ==
  /\ remaining > 0
  /\ Raises(Head(op_list), tree)
  /\ tree' = Undone(Head(op_list), tree)
  /\ undoing' = TRUE
  /\ UNCHANGED <<op_list, state_stack, memorizing, remaining>>

\* An undo() that raises ends the loop of recover(): the operation is lost, the
\* tree stays as the exception left it, and undoing is not reset.
UndoRaises ==
  /\ remaining > 0
  /\ Raises(Head(op_list), tree)
  /\ tree' = Undone(Head(op_list), tree)
  /\ op_list' = Tail(op_list)
  /\ undoing' = TRUE
  /\ remaining' = 0
  /\ UNCHANGED <<state_stack, memorizing>>

Flush ==
  /\ Idle
  /\ op_list' = <<>>
  /\ UNCHANGED <<tree, state_stack, memorizing, undoing, remaining>>

Next ==
  \/ Edit
  \/ SaveState
  \/ Recover
  \/ RecoverRefused
  \/ Undo
  \/ UndoRaises
  \/ Flush

\* recover() is a loop of the calling thread: once started, it goes on.
Fairness == WF_vars(Undo \/ UndoRaises)

Spec == Init /\ [][Next]_vars /\ Fairness
=============================================================================
